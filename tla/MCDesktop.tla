----------------------------- MODULE MCDesktop ------------------------------
(***************************************************************************)
(* The desktop device demo for TLC.  Its three modules meet in narrow      *)
(* places only (the streamer tells the sessions that its thread runs, the  *)
(* reader gives the streamer its frames), so that a behaviour is one of a  *)
(* single part, with the other two at rest.                                *)
(***************************************************************************)
EXTENDS DesktopSession, DesktopStreamer, AnnexB

VARIABLE part

desktopVars == <<sessionVars, streamVars, readerVars, part>>

\* One kind of failure at a time, and those that are about time together.
OneFailure == {{}, {"session"}, {"thread"}, {"disconnect"}, {"timeout"}, {"stop", "timeout"}}

\* Files of equal length, and with the longer of the two either way round
SmallMedia ==
    {[packets |-> 3, video |-> <<TRUE, FALSE>>],
     [packets |-> 4, video |-> <<TRUE, FALSE, TRUE, FALSE>>],
     [packets |-> 3, video |-> <<TRUE, FALSE, FALSE>>],
     [packets |-> 4, video |-> <<TRUE, TRUE>>]}

\* A stray zero, a bare start code, a parameter set, the first slice of a key frame,
\* the first of another frame and one that goes on with a frame
Pieces == {<<0>>, <<0, 0, 1>>, <<0, 0, 1, 7, 128>>, <<0, 0, 0, 1, 5, 128>>,
           <<0, 0, 1, 1, 128>>, <<0, 0, 1, 1, 2>>}

SmallFiles ==
    {<<>>} \cup Pieces
    \cup {a \o b : a, b \in Pieces}
    \cup {a \o b \o c : a \in {<<0>>, <<0, 0, 0, 1, 5, 128>>}, b, c \in Pieces}

SessionsAtRest == SessionInit /\ fails = {}

StreamAtRest == StreamInit /\ media = [packets |-> 3, video |-> <<TRUE, FALSE>>]

ReaderAtRest ==
    /\ file = <<>>
    /\ reader = [first |-> 1, read |-> 0, eof |-> TRUE, done |-> TRUE]
    /\ frame = NoFrame
    /\ frames = <<>>
    /\ pass = MaxPasses

DesktopInit ==
    \/ part = "sessions" /\ SessionInit /\ StreamAtRest /\ ReaderAtRest
    \/ part = "streamer" /\ SessionsAtRest /\ StreamInit /\ ReaderAtRest
    \/ part = "reader" /\ SessionsAtRest /\ StreamAtRest /\ ReaderInit

DesktopNext ==
    /\ UNCHANGED part
    /\ \/ part = "sessions" /\ SessionNext /\ UNCHANGED <<streamVars, readerVars>>
       \/ part = "streamer" /\ StreamNext /\ UNCHANGED <<sessionVars, readerVars>>
       \/ part = "reader" /\ ReaderNext /\ UNCHANGED <<sessionVars, streamVars>>

DesktopSpec ==
    /\ DesktopInit /\ [][DesktopNext]_desktopVars
    /\ SessionFairness /\ StreamFairness
=============================================================================
