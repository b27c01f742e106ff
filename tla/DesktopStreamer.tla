--------------------------- MODULE DesktopStreamer --------------------------
(***************************************************************************)
(* The streamer of one connection of the desktop device demo               *)
(*   src/device_demo_streamer.c                                            *)
(*                                                                         *)
(* A thread loops over two files, an audio packet or a video frame at a    *)
(* time, whichever is due first; the SDK's thread enables it, asks it for  *)
(* a key frame and, through a worker, for its end.  The flags they share   *)
(* are under a mutex, which the thread takes at the top of its loop only:  *)
(* what it then does is one step, and a flag set meanwhile waits.          *)
(*                                                                         *)
(* Time is not counted.  What is due is sent after some wait, in which the *)
(* loop comes to its top again and again; how the waits are computed       *)
(* (output_active, output_origin_us) is left out, and so is the log.       *)
(***************************************************************************)
EXTENDS Integers, Sequences, FiniteSets

CONSTANTS
    MediaFiles,     \* the contents the two files may have
    AudioStep,      \* kAudioPacketDurationMs
    VideoStep,      \* 1 / kVideoFps
    MaxLoops,       \* rewinds in a behaviour
    MaxRequests,    \* key frames asked for in a behaviour
    MaxUnready      \* sends in a behaviour that come too early for the connection

ASSUME StreamerAssumption ==
    /\ \A m \in MediaFiles : m.packets \in Nat \ {0} /\ m.video \in Seq(BOOLEAN) /\ m.video # <<>>
    /\ \A m \in MediaFiles : m.video[1]
    /\ AudioStep \in Nat \ {0} /\ VideoStep \in Nat \ {0}
    /\ MaxLoops \in Nat /\ MaxRequests \in Nat /\ MaxUnready \in Nat

VARIABLES
    media,      \* packets: of audio; video: which access units are key frames
    stream,     \* device_demo_streamer_t
    worker,     \* the thread: at the top of its loop, past it, ended; what it took
    peer,       \* what the SDK's thread and the connection have done
    heard       \* what the properties remember

streamVars == <<media, stream, worker, peer, heard>>

Frames == Len(media.video)

\* audio_file and video_reader are modelled by how far they were read: packets
\* of audio, and the frame that is loaded, 0 when there is none (current_video_ready).
NewStream ==
    [ enabled |-> FALSE, startup |-> FALSE, force |-> FALSE, stop |-> FALSE,
      packets |-> 0, audioNext |-> 0, audioDone |-> FALSE,
      frame |-> 1, framePts |-> 0, videoNext |-> VideoStep, videoDone |-> FALSE,
      loops |-> 0 ]

IsKey(s) == s.frame # 0 /\ media.video[s.frame]

\* load_next_video_frame()
LoadNext(s) ==
    IF s.frame = Frames
    THEN [s EXCEPT !.frame = 0]
    ELSE [s EXCEPT !.frame = @ + 1, !.framePts = s.videoNext, !.videoNext = @ + VideoStep]

\* restart_media_from_beginning()
Restarted(s, resetPts) ==
    LET from == IF resetPts THEN [s EXCEPT !.audioNext = 0, !.videoNext = 0] ELSE s
    IN  [LoadNext([from EXCEPT !.frame = 0, !.packets = 0])
            EXCEPT !.audioDone = FALSE, !.videoDone = FALSE]

\* Mutant: the frames that are passed over take no time.
ToNextKeyTimeless(s) ==
    LET ahead == {k \in s.frame .. Frames : media.video[k]}
    IN  IF s.frame = 0 THEN s
        ELSE IF ahead = {} THEN [s EXCEPT !.frame = 0, !.videoDone = TRUE]
        ELSE [s EXCEPT !.frame = CHOOSE k \in ahead : \A j \in ahead : k <= j]

\* advance_to_next_key_frame(): the frames passed over are loaded, one by one.
ToNextKey(s) ==
    LET ahead == {k \in s.frame .. Frames : media.video[k]}
        skip  == (CHOOSE k \in ahead : \A j \in ahead : k <= j) - s.frame
        rest  == Frames - s.frame
    IN  IF s.frame = 0 THEN s
        ELSE IF ahead = {}
        THEN [s EXCEPT !.frame = 0, !.framePts = @ + rest * VideoStep,
                       !.videoNext = @ + rest * VideoStep, !.videoDone = TRUE]
        ELSE [s EXCEPT !.frame = @ + skip, !.framePts = @ + skip * VideoStep,
                       !.videoNext = @ + skip * VideoStep]

\* A frame the connection has taken: the next one is loaded.
Taken(s) == LET next == LoadNext(s) IN [next EXCEPT !.videoDone = @ \/ next.frame = 0]

\* A key frame settles what was asked for; any other is late once the loop has
\* come to its top since.
Hears(s) ==
    heard' = [ owed |-> IF IsKey(s) THEN "nothing" ELSE heard.owed,
               late |-> heard.late \/ (heard.owed = "taken" /\ ~IsKey(s)) ]

\* send_video_frame_now() with current frame s.frame: taken; too early
\* (TIRTC_E_INVALID_HANDLE), where the frame stays the current one and the handler
\* goes on with retry; or refused, which ends the loop.
SendVideo(s, sent, retry) ==
    \/ /\ stream' = sent
       /\ Hears(s)
       /\ worker' = [at |-> "top", force |-> FALSE]
       /\ UNCHANGED peer
    \/ /\ peer.unready < MaxUnready
       /\ peer' = [peer EXCEPT !.unready = @ + 1]
       /\ stream' = retry
       /\ worker' = [at |-> "top", force |-> FALSE]
       /\ UNCHANGED heard
    \/ /\ stream' = s
       /\ worker' = [at |-> "ended", force |-> FALSE]
       /\ UNCHANGED <<peer, heard>>

------------------------------------------------------------------------------
(* streamer_worker_main()                                                  *)

\* The top of the loop, under the mutex
TakeFlags ==
    /\ worker.at = "top"
    /\ stream' = [stream EXCEPT !.force = FALSE]
    /\ worker' = IF stream.stop THEN [at |-> "ended", force |-> FALSE]
                 ELSE IF ~stream.enabled THEN worker
                 ELSE [at |-> "go", force |-> stream.force]
    /\ heard' = IF heard.owed = "asked" /\ stream.enabled /\ ~stream.stop
                THEN [heard EXCEPT !.owed = "taken"] ELSE heard
    /\ UNCHANGED <<media, peer>>

Going == worker.at = "go"

\* handle_startup_video_pending()
StartupFrame ==
    /\ Going
    /\ stream.startup
    /\ LET s == IF IsKey(stream) THEN stream ELSE Restarted(stream, TRUE)
       IN  SendVideo(s, [Taken(s) EXCEPT !.startup = FALSE], s)
    /\ UNCHANGED media

\* handle_requested_key_frame(): at the end of the file the request is dropped.
RequestedFrame ==
    /\ Going /\ ~stream.startup /\ worker.force
    /\ LET s == ToNextKey(stream) IN
       IF s.frame = 0
       THEN /\ stream' = s
            /\ worker' = [at |-> "top", force |-> FALSE]
            /\ UNCHANGED <<peer, heard>>
       ELSE SendVideo(s, Taken(s), [s EXCEPT !.force = TRUE])
    /\ UNCHANGED media

Steady == Going /\ ~stream.startup /\ ~worker.force

\* Mutant: the frame that was loaded by the restart is loaded over.
RewindPastFirst ==
    /\ Steady
    /\ stream.audioDone /\ stream.videoDone
    /\ stream.loops < MaxLoops
    /\ stream' = LoadNext([Restarted(stream, FALSE) EXCEPT !.loops = @ + 1])
    /\ worker' = [at |-> "top", force |-> FALSE]
    /\ UNCHANGED <<media, peer, heard>>

\* reset_loop_sources()
Rewind ==
    /\ Steady
    /\ stream.audioDone /\ stream.videoDone
    /\ stream.loops < MaxLoops
    /\ stream' = [Restarted(stream, FALSE) EXCEPT !.loops = @ + 1]
    /\ worker' = [at |-> "top", force |-> FALSE]
    /\ UNCHANGED <<media, peer, heard>>

Unfinished == Steady /\ ~(stream.audioDone /\ stream.videoDone)

\* What is next is not due yet: the loop sleeps, and comes to its top.
Wait ==
    /\ Unfinished
    /\ worker' = [at |-> "top", force |-> FALSE]
    /\ UNCHANGED <<media, stream, peer, heard>>

AudioFirst ==
    ~stream.audioDone /\ (stream.frame = 0 \/ stream.audioNext <= stream.framePts)

\* send_audio_packet(): it finds the end of the file, or sends a packet, and
\* whether the connection took it makes no difference.
AudioTurn ==
    /\ Unfinished
    /\ AudioFirst
    /\ stream' = IF stream.packets = media.packets
                 THEN [stream EXCEPT !.audioDone = TRUE]
                 ELSE [stream EXCEPT !.packets = @ + 1, !.audioNext = @ + AudioStep]
    /\ worker' = [at |-> "top", force |-> FALSE]
    /\ UNCHANGED <<media, peer, heard>>

\* Mutant: a turn of the loop ends with the flag reset.
VideoTurnResets ==
    /\ Unfinished
    /\ ~AudioFirst
    /\ ~stream.videoDone
    /\ SendVideo(stream, [Taken(stream) EXCEPT !.force = FALSE], stream)
    /\ UNCHANGED media

VideoTurn ==
    /\ Unfinished
    /\ ~AudioFirst
    /\ ~stream.videoDone
    /\ SendVideo(stream, Taken(stream), stream)
    /\ UNCHANGED media

\* A file that cannot be read or begun again, or that ends in part of a packet, ends
\* the loop; how far it had been read does not matter then.
FilesFail ==
    /\ Going
    /\ worker' = [at |-> "ended", force |-> FALSE]
    /\ UNCHANGED <<media, stream, peer, heard>>

------------------------------------------------------------------------------
(* The SDK's thread, and the worker that disconnects                       *)

\* device_demo_streamer_set_streaming_enabled(), which main.c calls with 1 only
Enable1 ==
    /\ ~stream.enabled
    /\ stream' = [stream EXCEPT !.startup = TRUE, !.force = FALSE, !.enabled = TRUE]
    /\ UNCHANGED <<media, worker, peer, heard>>

\* device_demo_streamer_request_key_frame()
KeyFrameRequested ==
    /\ peer.requests < MaxRequests
    /\ peer' = [peer EXCEPT !.requests = @ + 1]
    /\ stream' = [stream EXCEPT !.force = TRUE]
    /\ heard' = [heard EXCEPT !.owed = IF @ = "taken" THEN @ ELSE "asked"]
    /\ UNCHANGED <<media, worker>>

\* device_demo_streamer_stop()
StopRequested ==
    /\ ~stream.stop
    /\ stream' = [stream EXCEPT !.stop = TRUE]
    /\ UNCHANGED <<media, worker, peer, heard>>

------------------------------------------------------------------------------
\* device_demo_streamer_create() has loaded the first frame, a key frame.
StreamInit ==
    /\ media \in MediaFiles
    /\ stream = NewStream
    /\ worker = [at |-> "top", force |-> FALSE]
    /\ peer = [requests |-> 0, unready |-> 0]
    /\ heard = [owed |-> "nothing", late |-> FALSE]

Loop == TakeFlags \/ StartupFrame \/ RequestedFrame \/ Rewind \/ Wait \/ AudioTurn \/ VideoTurn

StreamNext == Loop \/ FilesFail \/ Enable1 \/ KeyFrameRequested \/ StopRequested

\* The thread runs, and the clock: no wait is for ever.  Nothing makes the files fail.
StreamFairness ==
    /\ WF_streamVars(Loop)
    /\ SF_streamVars(AudioTurn)
    /\ SF_streamVars(VideoTurn)

StreamSpec == StreamInit /\ [][StreamNext]_streamVars /\ StreamFairness

------------------------------------------------------------------------------
(* Properties                                                              *)

Streams == [ enabled : BOOLEAN, startup : BOOLEAN, force : BOOLEAN, stop : BOOLEAN,
             packets : 0 .. media.packets, audioNext : Nat, audioDone : BOOLEAN,
             frame : 0 .. Frames, framePts : Nat, videoNext : Nat, videoDone : BOOLEAN,
             loops : 0 .. MaxLoops ]
Workers == [at : {"top", "go", "ended"}, force : BOOLEAN]
Peers   == [requests : 0 .. MaxRequests, unready : 0 .. MaxUnready]
Heard   == [owed : {"nothing", "asked", "taken"}, late : BOOLEAN]

StreamTypeOK ==
    /\ media \in MediaFiles
    /\ stream \in Streams /\ worker \in Workers
    /\ peer \in Peers /\ heard \in Heard

\* Timestamps are kept across a rewind, each stream its own, and a frame takes its
\* time whether it is sent, tried again or passed over for a key frame: what is sent
\* has the timestamp of its place in the files played so far, so the streams drift
\* apart by the difference of the files' lengths with each loop, and by no more.
TimestampIsPlace ==
    /\ stream.audioNext = (stream.loops * media.packets + stream.packets) * AudioStep
    /\ stream.frame # 0 =>
        stream.framePts = (stream.loops * Frames + stream.frame - 1) * VideoStep

\* on_request_key_frame(): once the loop has come to its top, the next frame of video
\* the connection takes is a key frame, whether the request was still in the flag,
\* taken, put back because the connection was not ready, or dropped at the end of
\* the file.
RequestComesFirst == ~heard.late

\* on_request_key_frame(), of an enabled stream: the connection does take a key frame
\* after it, unless the thread ends, also when no more come in the file, when the sends
\* come too early, and when the request was dropped: at the latest it is that of the next
\* rewind, so the request must leave one to come.
RequestAnswered ==
    heard.owed # "nothing" /\ stream.enabled /\ stream.loops < MaxLoops
        ~> heard.owed = "nothing" \/ worker.at = "ended"
=============================================================================
