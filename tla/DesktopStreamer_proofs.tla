----------------------- MODULE DesktopStreamer_proofs ------------------------
(***************************************************************************)
(* That the streamer of the desktop demo keeps its timestamps              *)
(* (TimestampIsPlace) and answers a request for a key frame before it      *)
(* sends another frame (RequestComesFirst), for files of any length; and   *)
(* that its H.264 reader cuts every file into access units                 *)
(* (FramesAreUnits), however the file comes into its buffer.               *)
(***************************************************************************)
EXTENDS DesktopStreamer, AnnexB, TLAPS, WellFoundedInduction

\* What follows the frame that is loaded, and where the streams end.
Placed(s) ==
    /\ s.audioNext = (s.loops * media.packets + s.packets) * AudioStep
    /\ s.videoNext = (s.loops * Frames + (IF s.frame = 0 THEN Frames ELSE s.frame)) * VideoStep
    /\ s.frame # 0 => s.framePts = (s.loops * Frames + s.frame - 1) * VideoStep
    /\ s.audioDone => s.packets = media.packets
    /\ s.videoDone <=> s.frame = 0
    /\ s.startup \/ ~s.enabled => s.loops = 0

\* The thread gets past the top of its loop when it was enabled.
Started == worker.at = "go" => stream.enabled

\* The next frame of video is a key frame, here or at the beginning of the file.
KeyNext(s) == s.startup \/ s.frame = 0 \/ IsKey(s)

\* A request is in the flag, was taken at this turn of the loop, or needs no flag.
Asked ==
    /\ ~heard.late
    /\ heard.owed = "asked" =>
           stream.force \/ stream.startup \/ ~stream.enabled \/ worker.at = "ended"
    /\ heard.owed = "taken" =>
           /\ stream.enabled
           /\ worker.at = "top" => stream.force \/ KeyNext(stream)
           /\ worker.at = "go" => worker.force \/ KeyNext(stream)

StreamInv == StreamTypeOK /\ Placed(stream) /\ Started /\ Asked

------------------------------------------------------------------------------
(* The files, and the records                                              *)

LEMMA MediaFacts ==
    ASSUME media \in MediaFiles
    PROVE  /\ media.packets \in Nat \ {0}
           /\ Frames \in Nat \ {0}
           /\ media.video \in [1 .. Frames -> BOOLEAN]
           /\ media.video[1]
<1>1. media.video \in Seq(BOOLEAN) /\ media.video # <<>>
  BY StreamerAssumption
<1>2. Len(media.video) \in Nat /\ media.video \in [1 .. Len(media.video) -> BOOLEAN]
  BY <1>1
<1>3. Len(media.video) # 0
  BY <1>1
<1> QED BY <1>2, <1>3, StreamerAssumption DEF Frames

LEMMA Flags ==
    ASSUME NEW s \in Streams, NEW b \in BOOLEAN
    PROVE  /\ [s EXCEPT !.enabled = b] \in Streams
           /\ [s EXCEPT !.startup = b] \in Streams
           /\ [s EXCEPT !.force = b] \in Streams
           /\ [s EXCEPT !.stop = b] \in Streams
           /\ [s EXCEPT !.audioDone = b] \in Streams
           /\ [s EXCEPT !.videoDone = b] \in Streams
BY ZenonT(60) DEF Streams

LEMMA AudioField ==
    ASSUME NEW s \in Streams, NEW n \in 0 .. media.packets, NEW t \in Nat
    PROVE  [s EXCEPT !.packets = n, !.audioNext = t] \in Streams
BY ZenonT(60) DEF Streams

LEMMA FrameField ==
    ASSUME NEW s \in Streams, NEW f \in 0 .. Frames
    PROVE  [s EXCEPT !.frame = f] \in Streams
BY ZenonT(60) DEF Streams

LEMMA TimeField ==
    ASSUME NEW s \in Streams, NEW f \in 0 .. Frames, NEW t \in Nat, NEW u \in Nat
    PROVE  [s EXCEPT !.frame = f, !.framePts = t, !.videoNext = u] \in Streams
BY ZenonT(60) DEF Streams

LEMMA RewindField ==
    ASSUME NEW s \in Streams, NEW f \in 0 .. Frames, NEW n \in 0 .. media.packets
    PROVE  [s EXCEPT !.frame = f, !.packets = n] \in Streams
BY ZenonT(60) DEF Streams

LEMMA PtsField ==
    ASSUME NEW s \in Streams, NEW t \in Nat, NEW u \in Nat
    PROVE  [s EXCEPT !.audioNext = t, !.videoNext = u] \in Streams
BY ZenonT(60) DEF Streams

LEMMA DoneFields ==
    ASSUME NEW s \in Streams, NEW a \in BOOLEAN, NEW v \in BOOLEAN
    PROVE  [s EXCEPT !.audioDone = a, !.videoDone = v] \in Streams
BY ZenonT(60) DEF Streams

LEMMA EnableFields ==
    ASSUME NEW s \in Streams, NEW a \in BOOLEAN, NEW b \in BOOLEAN, NEW c \in BOOLEAN
    PROVE  [s EXCEPT !.startup = a, !.force = b, !.enabled = c] \in Streams
BY ZenonT(60) DEF Streams

LEMMA EndFields ==
    ASSUME NEW s \in Streams, NEW f \in 0 .. Frames, NEW t \in Nat, NEW u \in Nat,
           NEW v \in BOOLEAN
    PROVE  [s EXCEPT !.frame = f, !.framePts = t, !.videoNext = u, !.videoDone = v]
               \in Streams
BY ZenonT(60) DEF Streams

LEMMA LoopField ==
    ASSUME NEW s \in Streams, NEW n \in 0 .. MaxLoops
    PROVE  [s EXCEPT !.loops = n] \in Streams
BY ZenonT(60) DEF Streams

------------------------------------------------------------------------------
(* Loading, starting over and passing over                                 *)

\* load_next_video_frame()
LEMMA LoadNextType ==
    ASSUME media \in MediaFiles, NEW s \in Streams
    PROVE  LoadNext(s) \in Streams
<1>1. CASE s.frame = Frames
  <2>1. 0 \in 0 .. Frames BY MediaFacts
  <2> QED BY <1>1, <2>1, FrameField DEF LoadNext
<1>2. CASE s.frame # Frames
  <2>1. s.frame + 1 \in 0 .. Frames BY <1>2, MediaFacts DEF Streams
  <2>2. s.videoNext \in Nat /\ s.videoNext + VideoStep \in Nat
    BY StreamerAssumption DEF Streams
  <2> QED BY <1>2, <2>1, <2>2, TimeField DEF LoadNext
<1> QED BY <1>1, <1>2

\* One frame on, or the end of the file
LEMMA TakenFine ==
    ASSUME media \in MediaFiles, NEW s \in Streams, Placed(s), s.frame # 0
    PROVE  /\ Taken(s) \in Streams /\ Placed(Taken(s))
           /\ Taken(s).startup = s.startup /\ Taken(s).enabled = s.enabled
           /\ Taken(s).force = s.force /\ Taken(s).loops = s.loops
<1>1. Taken(s) \in Streams
  <2>1. LoadNext(s) \in Streams BY LoadNextType
  <2>2. (LoadNext(s).videoDone \/ LoadNext(s).frame = 0) \in BOOLEAN OBVIOUS
  <2> QED BY <2>1, <2>2, Flags DEF Taken
<1>2. CASE s.frame = Frames
  <2> DEFINE n == [s EXCEPT !.frame = 0]
  <2>1. LoadNext(s) = n BY <1>2 DEF LoadNext
  <2>2. n.frame = 0 /\ n.videoDone = s.videoDone BY DEF Streams
  <2>3. Taken(s) = [n EXCEPT !.videoDone = TRUE] BY <2>1, <2>2 DEF Taken
  <2>4. /\ Taken(s).frame = 0 /\ Taken(s).videoDone
        /\ Taken(s).audioNext = s.audioNext /\ Taken(s).videoNext = s.videoNext
        /\ Taken(s).packets = s.packets /\ Taken(s).loops = s.loops
        /\ Taken(s).audioDone = s.audioDone
        /\ Taken(s).startup = s.startup /\ Taken(s).enabled = s.enabled
        /\ Taken(s).force = s.force
    BY <2>3 DEF Streams
  <2> QED BY <1>1, <1>2, <2>4, MediaFacts DEF Placed
<1>3. CASE s.frame # Frames
  <2> DEFINE n == [s EXCEPT !.frame = s.frame + 1, !.framePts = s.videoNext,
                            !.videoNext = s.videoNext + VideoStep]
  <2>1. LoadNext(s) = n BY <1>3 DEF LoadNext
  <2>2. s.frame + 1 # 0 /\ s.frame + 1 \in Nat BY DEF Streams
  <2>3. n.frame = s.frame + 1 /\ n.videoDone = s.videoDone BY DEF Streams
  <2>4. Taken(s) = [n EXCEPT !.videoDone = n.videoDone \/ n.frame = 0] BY <2>1 DEF Taken
  <2>5. ~s.videoDone BY DEF Placed
  <2>6. /\ Taken(s).frame = s.frame + 1 /\ ~Taken(s).videoDone
        /\ Taken(s).framePts = s.videoNext
        /\ Taken(s).audioNext = s.audioNext
        /\ Taken(s).videoNext = s.videoNext + VideoStep
        /\ Taken(s).packets = s.packets /\ Taken(s).loops = s.loops
        /\ Taken(s).audioDone = s.audioDone
        /\ Taken(s).startup = s.startup /\ Taken(s).enabled = s.enabled
        /\ Taken(s).force = s.force
    BY <2>2, <2>3, <2>4, <2>5 DEF Streams
  <2>7. (s.loops * Frames + s.frame) * VideoStep + VideoStep
            = (s.loops * Frames + (s.frame + 1)) * VideoStep
    <3>1. s.loops * Frames + s.frame \in Int BY MediaFacts DEF Streams
    <3> QED BY <3>1, StreamerAssumption, MediaFacts DEF Streams
  <2>8. s.loops * Frames + (s.frame + 1) - 1 = s.loops * Frames + s.frame
    BY MediaFacts DEF Streams
  <2> QED BY <1>1, <2>2, <2>5, <2>6, <2>7, <2>8 DEF Placed
<1> QED BY <1>2, <1>3

\* restart_media_from_beginning(): the first frame, at the time that has come
LEMMA RestartedIs ==
    ASSUME media \in MediaFiles, NEW s \in Streams, NEW reset \in BOOLEAN
    PROVE  LET r == Restarted(s, reset) IN
           /\ r \in Streams
           /\ r.frame = 1 /\ r.packets = 0 /\ ~r.audioDone /\ ~r.videoDone
           /\ r.audioNext = (IF reset THEN 0 ELSE s.audioNext)
           /\ r.framePts = (IF reset THEN 0 ELSE s.videoNext)
           /\ r.videoNext = (IF reset THEN 0 ELSE s.videoNext) + VideoStep
           /\ r.loops = s.loops /\ r.startup = s.startup /\ r.enabled = s.enabled
           /\ r.force = s.force
<1> DEFINE from == IF reset THEN [s EXCEPT !.audioNext = 0, !.videoNext = 0] ELSE s
           empty == [from EXCEPT !.frame = 0, !.packets = 0]
           next  == [empty EXCEPT !.frame = empty.frame + 1, !.framePts = empty.videoNext,
                                  !.videoNext = empty.videoNext + VideoStep]
<1>1. /\ from \in Streams
      /\ from.audioNext = (IF reset THEN 0 ELSE s.audioNext)
      /\ from.videoNext = (IF reset THEN 0 ELSE s.videoNext)
      /\ from.loops = s.loops /\ from.startup = s.startup /\ from.enabled = s.enabled
      /\ from.force = s.force
  <2>1. from \in Streams BY PtsField
  <2> QED BY <2>1 DEF Streams
<1> HIDE DEF from
<1>2. /\ empty \in Streams
      /\ empty.frame = 0 /\ empty.packets = 0
      /\ empty.audioNext = from.audioNext /\ empty.videoNext = from.videoNext
      /\ empty.loops = from.loops /\ empty.startup = from.startup
      /\ empty.enabled = from.enabled /\ empty.force = from.force
  <2>1. 0 \in 0 .. Frames /\ 0 \in 0 .. media.packets BY MediaFacts
  <2>2. empty \in Streams BY <1>1, <2>1, RewindField
  <2> QED BY <1>1, <2>2 DEF Streams
<1> HIDE DEF empty
<1>3. LoadNext(empty) = next
  BY <1>2, MediaFacts DEF LoadNext
<1>4. /\ next \in Streams
      /\ next.frame = 1 /\ next.packets = 0
      /\ next.audioNext = from.audioNext /\ next.framePts = from.videoNext
      /\ next.videoNext = from.videoNext + VideoStep
      /\ next.loops = from.loops /\ next.startup = from.startup
      /\ next.enabled = from.enabled /\ next.force = from.force
  <2>1. next \in Streams BY <1>2, <1>3, LoadNextType
  <2> QED BY <1>2, <2>1 DEF Streams
<1> HIDE DEF next
<1>5. Restarted(s, reset) = [next EXCEPT !.audioDone = FALSE, !.videoDone = FALSE]
  BY <1>3 DEF Restarted, from, empty
<1>6. Restarted(s, reset) \in Streams
  BY <1>4, <1>5, DoneFields
<1> QED BY <1>1, <1>4, <1>5, <1>6 DEF Streams

LEMMA RestartedFine ==
    ASSUME media \in MediaFiles, NEW s \in Streams, s.loops = 0
    PROVE  Placed(Restarted(s, TRUE))
<1> DEFINE r == Restarted(s, TRUE)
<1>1. /\ r.frame = 1 /\ r.packets = 0 /\ ~r.audioDone /\ ~r.videoDone
      /\ r.audioNext = 0 /\ r.framePts = 0 /\ r.videoNext = 0 + VideoStep /\ r.loops = 0
  BY RestartedIs
<1> HIDE DEF r
<1>2. r.loops * media.packets = 0 /\ r.loops * Frames = 0
  BY <1>1, MediaFacts
<1>3. /\ 0 = (0 + 0) * AudioStep
      /\ 0 + VideoStep = (0 + 1) * VideoStep
      /\ 0 = (0 + 1 - 1) * VideoStep
  BY StreamerAssumption
<1>4. Placed(r)
  BY <1>1, <1>2, <1>3 DEF Placed
<1> QED BY <1>4 DEF r

\* Both files at their ends: the streams go on.
LEMMA RewoundFine ==
    ASSUME media \in MediaFiles, NEW s \in Streams, Placed(s),
           s.audioDone, s.videoDone, s.enabled, ~s.startup
    PROVE  Placed([Restarted(s, FALSE) EXCEPT !.loops = s.loops + 1])
<1> DEFINE r == Restarted(s, FALSE)
           t == [r EXCEPT !.loops = s.loops + 1]
<1>1. /\ t.frame = 1 /\ t.packets = 0 /\ ~t.audioDone /\ ~t.videoDone
      /\ t.audioNext = s.audioNext /\ t.framePts = s.videoNext
      /\ t.videoNext = s.videoNext + VideoStep
      /\ t.loops = s.loops + 1 /\ t.startup = s.startup /\ t.enabled = s.enabled
  <2>1. /\ r \in Streams
        /\ r.frame = 1 /\ r.packets = 0 /\ ~r.audioDone /\ ~r.videoDone
        /\ r.audioNext = s.audioNext /\ r.framePts = s.videoNext
        /\ r.videoNext = s.videoNext + VideoStep
        /\ r.startup = s.startup /\ r.enabled = s.enabled
    BY RestartedIs
  <2> HIDE DEF r
  <2> QED BY <2>1 DEF Streams
<1> HIDE DEF t
<1>2. /\ s.audioNext = (s.loops * media.packets + media.packets) * AudioStep
      /\ s.videoNext = (s.loops * Frames + Frames) * VideoStep
  BY DEF Placed
<1>3. s.loops * media.packets + media.packets = (s.loops + 1) * media.packets + 0
  <2>1. s.loops \in Nat /\ media.packets \in Nat
    BY MediaFacts, StreamerAssumption DEF Streams
  <2> QED BY <2>1
<1>4. /\ s.loops * Frames + Frames = (s.loops + 1) * Frames
      /\ (s.loops + 1) * Frames = (s.loops + 1) * Frames + 1 - 1
      /\ (s.loops + 1) * Frames \in Nat
  <2>1. s.loops \in Nat /\ Frames \in Nat
    BY MediaFacts, StreamerAssumption DEF Streams
  <2>2. s.loops * Frames \in Nat /\ s.loops * Frames + Frames = (s.loops + 1) * Frames
    BY <2>1
  <2> QED BY <2>1, <2>2
<1>5. (s.loops + 1) * Frames * VideoStep + VideoStep = ((s.loops + 1) * Frames + 1) * VideoStep
  BY <1>4, StreamerAssumption
<1>6. t.audioNext = (t.loops * media.packets + t.packets) * AudioStep
  BY <1>1, <1>2, <1>3
<1>7. /\ t.framePts = (t.loops * Frames + t.frame - 1) * VideoStep
      /\ t.videoNext = (t.loops * Frames + t.frame) * VideoStep
  BY <1>1, <1>2, <1>4, <1>5
<1>8. Placed(t)
  BY <1>1, <1>6, <1>7 DEF Placed
<1> QED BY <1>8 DEF t

\* The first key frame from where s is, if there is one
LEMMA FirstKey ==
    ASSUME media \in MediaFiles, NEW s \in Streams,
           NEW ahead, ahead = {k \in s.frame .. Frames : media.video[k]}, ahead # {}
    PROVE  LET first == CHOOSE k \in ahead : \A j \in ahead : k <= j
           IN  first \in s.frame .. Frames /\ media.video[first]
<1>1. ahead \subseteq Nat /\ s.frame \in Nat
  BY MediaFacts DEF Streams
<1>2. PICK k \in ahead : \A j \in ahead : <<j, k>> \notin OpToRel(<, Nat)
  BY <1>1, NatLessThanWellFounded, WFMin
<1>3. ASSUME NEW j \in ahead PROVE k <= j
  <2>1. j \in Nat /\ k \in Nat
    BY <1>1
  <2>2. <<j, k>> \in Nat \X Nat /\ <<j, k>>[1] = j /\ <<j, k>>[2] = k
    BY <2>1
  <2>3. ~(<<j, k>>[1] < <<j, k>>[2])
    BY <1>2, <2>2, Zenon DEF OpToRel
  <2> QED BY <2>1, <2>2, <2>3
<1> QED BY <1>3

\* advance_to_next_key_frame(), of the frame that is loaded
LEMMA ToNextKeyFine ==
    ASSUME media \in MediaFiles, NEW s \in Streams, Placed(s), s.frame # 0
    PROVE  LET t == ToNextKey(s) IN
           /\ t \in Streams /\ Placed(t)
           /\ t.startup = s.startup /\ t.enabled = s.enabled /\ t.loops = s.loops
           /\ t.force = s.force
           /\ t.frame # 0 => IsKey(t)
<1> DEFINE ahead == {k \in s.frame .. Frames : media.video[k]}
           first == CHOOSE k \in ahead : \A j \in ahead : k <= j
           place == s.loops * Frames
<1>1. place \in Nat /\ s.frame \in 1 .. Frames /\ VideoStep \in Nat /\ Frames \in Nat
  BY MediaFacts, StreamerAssumption DEF Streams
<1>2. /\ s.videoNext = (place + s.frame) * VideoStep
      /\ s.framePts = (place + s.frame - 1) * VideoStep
      /\ ~s.videoDone
  BY DEF Placed
<1> HIDE DEF place
<1>3. CASE ahead = {}
  <2> DEFINE rest == Frames - s.frame
             t == [s EXCEPT !.frame = 0, !.framePts = s.framePts + rest * VideoStep,
                            !.videoNext = s.videoNext + rest * VideoStep, !.videoDone = TRUE]
  <2>1. ToNextKey(s) = t BY <1>3 DEF ToNextKey
  <2>2. rest \in Nat /\ rest * VideoStep \in Nat BY <1>1
  <2>3. s.videoNext + rest * VideoStep = (place + Frames) * VideoStep BY <1>1, <1>2
  <2> HIDE DEF rest
  <2>4. /\ s.framePts + rest * VideoStep \in Nat
        /\ s.videoNext + rest * VideoStep \in Nat
    BY <2>2 DEF Streams
  <2>5. t \in Streams
    <3>1. 0 \in 0 .. Frames BY <1>1
    <3> QED BY <2>4, <3>1, EndFields
  <2>6. /\ t.frame = 0 /\ t.videoDone /\ t.audioNext = s.audioNext /\ t.packets = s.packets
        /\ t.audioDone = s.audioDone /\ t.loops = s.loops
        /\ t.videoNext = s.videoNext + rest * VideoStep
        /\ t.startup = s.startup /\ t.enabled = s.enabled /\ t.force = s.force
    BY DEF Streams
  <2> HIDE DEF t
  <2>7. Placed(t) BY <2>3, <2>6 DEF Placed, place
  <2> QED BY <2>1, <2>5, <2>6, <2>7
<1>4. CASE ahead # {}
  <2>1. first \in s.frame .. Frames /\ media.video[first]
    BY <1>4, FirstKey
  <2> HIDE DEF first
  <2> DEFINE skip == first - s.frame
             t == [s EXCEPT !.frame = s.frame + skip, !.framePts = s.framePts + skip * VideoStep,
                            !.videoNext = s.videoNext + skip * VideoStep]
  <2>2. ToNextKey(s) = t BY <1>4 DEF ToNextKey, first
  <2>3. skip \in Nat /\ skip * VideoStep \in Nat /\ s.frame + skip = first
    BY <1>1, <2>1
  <2>4. s.videoNext + skip * VideoStep = (place + first) * VideoStep
    BY <1>1, <1>2, <2>1
  <2>5. s.framePts + skip * VideoStep = (place + first - 1) * VideoStep
    BY <1>1, <1>2, <2>1
  <2> HIDE DEF skip
  <2>6. /\ s.framePts + skip * VideoStep \in Nat
        /\ s.videoNext + skip * VideoStep \in Nat
    BY <2>3 DEF Streams
  <2>7. s.frame + skip \in 0 .. Frames /\ first # 0 BY <1>1, <2>1, <2>3
  <2>8. t \in Streams BY <2>6, <2>7, TimeField
  <2>9. /\ t.frame = first /\ t.videoDone = s.videoDone
        /\ t.framePts = s.framePts + skip * VideoStep
        /\ t.videoNext = s.videoNext + skip * VideoStep
        /\ t.audioNext = s.audioNext /\ t.packets = s.packets
        /\ t.audioDone = s.audioDone /\ t.loops = s.loops
        /\ t.startup = s.startup /\ t.enabled = s.enabled /\ t.force = s.force
    BY <2>3 DEF Streams
  <2> HIDE DEF t
  <2>10. Placed(t)
    BY <1>2, <2>4, <2>5, <2>7, <2>9 DEF Placed, place
  <2>11. IsKey(t) BY <2>1, <2>7, <2>9 DEF IsKey
  <2> QED BY <2>2, <2>8, <2>9, <2>10, <2>11
<1> QED BY <1>3, <1>4

------------------------------------------------------------------------------
(* The steps                                                               *)

LEMMA AtTop ==
    /\ [at |-> "top", force |-> FALSE] \in Workers
    /\ [at |-> "ended", force |-> FALSE] \in Workers
BY DEF Workers

\* A frame is tried: what the thread goes on with is one of three.
LEMMA SendFine ==
    ASSUME StreamTypeOK, NEW s, NEW sent, NEW retry, SendVideo(s, sent, retry),
           UNCHANGED media
    PROVE  /\ stream' = sent \/ stream' = retry \/ stream' = s
           /\ worker' \in Workers /\ worker'.at # "go"
           /\ peer' \in Peers /\ heard' \in Heard
<1>1. stream' = sent \/ stream' = retry \/ stream' = s
  BY DEF SendVideo
<1>2. worker' \in Workers /\ worker'.at # "go"
  <2>1. \/ worker' = [at |-> "top", force |-> FALSE]
        \/ worker' = [at |-> "ended", force |-> FALSE]
    BY DEF SendVideo
  <2>2. worker'.at = "top" \/ worker'.at = "ended"
    BY <2>1
  <2> QED BY <2>1, <2>2, AtTop
<1>3. peer' \in Peers
  <2>1. CASE peer.unready < MaxUnready /\ peer' = [peer EXCEPT !.unready = @ + 1]
    BY <2>1, StreamerAssumption DEF Peers, StreamTypeOK
  <2>2. CASE UNCHANGED peer
    BY <2>2 DEF StreamTypeOK
  <2> QED BY <2>1, <2>2 DEF SendVideo
<1>4. heard' \in Heard
  <2>1. CASE Hears(s)
    BY <2>1 DEF Hears, Heard, StreamTypeOK
  <2>2. CASE UNCHANGED heard
    BY <2>2 DEF StreamTypeOK
  <2> QED BY <2>1, <2>2 DEF SendVideo
<1> QED BY <1>1, <1>2, <1>3, <1>4

\* What the handlers of the loop go on with
LEMMA StartupFine ==
    ASSUME StreamTypeOK, Placed(stream), stream.startup
    PROVE  LET s == IF IsKey(stream) THEN stream ELSE Restarted(stream, TRUE)
               t == [Taken(s) EXCEPT !.startup = FALSE]
           IN /\ s \in Streams /\ Placed(s) /\ IsKey(s)
              /\ s.startup /\ s.enabled = stream.enabled
              /\ t \in Streams /\ Placed(t) /\ t.enabled = stream.enabled
<1> DEFINE s == IF IsKey(stream) THEN stream ELSE Restarted(stream, TRUE)
           t == [Taken(s) EXCEPT !.startup = FALSE]
<1> USE DEF StreamTypeOK
<1>1. stream.loops = 0
  BY DEF Placed
<1>2. /\ s \in Streams /\ Placed(s) /\ IsKey(s)
      /\ s.startup /\ s.enabled = stream.enabled /\ s.loops = 0
  <2>1. CASE IsKey(stream)
    BY <1>1, <2>1
  <2>2. CASE ~IsKey(stream)
    <3> DEFINE r == Restarted(stream, TRUE)
    <3>1. /\ r \in Streams /\ r.frame = 1 /\ r.loops = stream.loops
          /\ r.startup = stream.startup /\ r.enabled = stream.enabled
      BY RestartedIs
    <3>2. Placed(r)
      BY <1>1, RestartedFine
    <3> HIDE DEF r
    <3>3. IsKey(r)
      BY <3>1, MediaFacts DEF IsKey
    <3> QED BY <1>1, <2>2, <3>1, <3>2, <3>3 DEF r
  <2> QED BY <2>1, <2>2
<1> HIDE DEF s
<1>3. s.frame # 0
  BY <1>2 DEF IsKey
<1>4. /\ Taken(s) \in Streams /\ Placed(Taken(s))
      /\ Taken(s).enabled = s.enabled /\ Taken(s).loops = 0
  BY <1>2, <1>3, TakenFine
<1>5. t \in Streams
  BY <1>4, Flags
<1>6. /\ t.audioNext = Taken(s).audioNext /\ t.videoNext = Taken(s).videoNext
      /\ t.framePts = Taken(s).framePts /\ t.frame = Taken(s).frame
      /\ t.packets = Taken(s).packets /\ t.loops = 0
      /\ t.audioDone = Taken(s).audioDone /\ t.videoDone = Taken(s).videoDone
      /\ t.enabled = s.enabled
  BY <1>4 DEF Streams
<1> HIDE DEF t
<1>7. Placed(t)
  BY <1>4, <1>6 DEF Placed
<1> QED BY <1>2, <1>5, <1>6, <1>7 DEF s, t

\* The stream with a flag changed, or none that counts
LEMMA SamePlace ==
    ASSUME NEW s, NEW t, Placed(s),
           t.audioNext = s.audioNext, t.videoNext = s.videoNext, t.framePts = s.framePts,
           t.frame = s.frame, t.packets = s.packets, t.loops = s.loops,
           t.audioDone = s.audioDone, t.videoDone = s.videoDone,
           t.startup \/ ~t.enabled => s.startup \/ ~s.enabled
    PROVE  Placed(t)
BY DEF Placed

\* Types and places: every step leaves the stream one of Streams, in its place.
LEMMA StreamStep ==
    ASSUME StreamTypeOK, Placed(stream), Started, [StreamNext]_streamVars
    PROVE  stream' \in Streams /\ Placed(stream')
<1> USE DEF StreamTypeOK
<1>1. CASE TakeFlags
  <2>1. stream' = [stream EXCEPT !.force = FALSE]
    BY <1>1 DEF TakeFlags
  <2>2. stream' \in Streams
    BY <2>1, Flags
  <2> QED BY <2>1, <2>2, SamePlace DEF Streams
<1>2. CASE StartupFrame
  <2> DEFINE s == IF IsKey(stream) THEN stream ELSE Restarted(stream, TRUE)
             t == [Taken(s) EXCEPT !.startup = FALSE]
  <2>1. s \in Streams /\ Placed(s) /\ t \in Streams /\ Placed(t)
    BY <1>2, StartupFine DEF StartupFrame
  <2>2. SendVideo(s, t, s) /\ UNCHANGED media
    BY <1>2 DEF StartupFrame
  <2> HIDE DEF s, t
  <2> QED BY <2>1, <2>2, SendFine
<1>3. CASE RequestedFrame
  <2> DEFINE s == ToNextKey(stream)
             t == [s EXCEPT !.force = TRUE]
  <2>1. s \in Streams /\ Placed(s)
    <3>1. CASE stream.frame = 0
      BY <3>1 DEF ToNextKey
    <3>2. CASE stream.frame # 0
      BY <3>2, ToNextKeyFine
    <3> QED BY <3>1, <3>2
  <2>2. \/ s.frame = 0 /\ stream' = s
        \/ s.frame # 0 /\ SendVideo(s, Taken(s), t) /\ UNCHANGED media
    BY <1>3 DEF RequestedFrame
  <2> HIDE DEF s
  <2>3. t \in Streams /\ Placed(t)
    <3>1. t \in Streams BY <2>1, Flags
    <3> QED BY <2>1, <3>1, SamePlace DEF Streams
  <2> HIDE DEF t
  <2>4. s.frame # 0 => Taken(s) \in Streams /\ Placed(Taken(s))
    BY <2>1, TakenFine
  <2> QED BY <2>1, <2>2, <2>3, <2>4, SendFine
<1>4. CASE Rewind
  <2> DEFINE r == Restarted(stream, FALSE)
             t == [r EXCEPT !.loops = stream.loops + 1]
  <2>1. /\ stream.audioDone /\ stream.videoDone /\ ~stream.startup
        /\ stream.loops < MaxLoops
        /\ stream' = [r EXCEPT !.loops = r.loops + 1]
    BY <1>4 DEF Rewind, Steady
  <2>2. r \in Streams /\ r.loops = stream.loops
    BY RestartedIs
  <2>3. stream.enabled
    BY <1>4 DEF Rewind, Steady, Going, Started
  <2>4. stream' = t
    BY <2>1, <2>2
  <2>5. stream.loops + 1 \in 0 .. MaxLoops
    BY <2>1, StreamerAssumption DEF Streams
  <2> HIDE DEF r
  <2>6. t \in Streams
    BY <2>2, <2>5, LoopField
  <2> QED BY <2>1, <2>3, <2>4, <2>6, RewoundFine DEF r
<1>5. CASE Wait
  BY <1>5 DEF Wait
<1>6. CASE AudioTurn
  <2>1. CASE stream.packets = media.packets
    <3>1. stream' = [stream EXCEPT !.audioDone = TRUE]
      BY <1>6, <2>1 DEF AudioTurn
    <3>2. stream' \in Streams
      BY <3>1, Flags
    <3>3. /\ stream'.audioNext = stream.audioNext /\ stream'.videoNext = stream.videoNext
          /\ stream'.framePts = stream.framePts /\ stream'.frame = stream.frame
          /\ stream'.packets = stream.packets /\ stream'.loops = stream.loops
          /\ stream'.videoDone = stream.videoDone
          /\ stream'.startup = stream.startup /\ stream'.enabled = stream.enabled
      BY <3>1 DEF Streams
    <3> QED BY <2>1, <3>2, <3>3 DEF Placed
  <2>2. CASE stream.packets # media.packets
    <3>1. stream' = [stream EXCEPT !.packets = stream.packets + 1,
                                   !.audioNext = stream.audioNext + AudioStep]
      BY <1>6, <2>2 DEF AudioTurn
    <3>2. /\ stream.packets + 1 \in 0 .. media.packets
          /\ stream.audioNext + AudioStep \in Nat
      BY <2>2, MediaFacts, StreamerAssumption DEF Streams
    <3>3. stream' \in Streams
      BY <3>1, <3>2, AudioField
    <3>4. /\ stream'.audioNext = stream.audioNext + AudioStep
          /\ stream'.videoNext = stream.videoNext
          /\ stream'.framePts = stream.framePts /\ stream'.frame = stream.frame
          /\ stream'.packets = stream.packets + 1 /\ stream'.loops = stream.loops
          /\ stream'.audioDone = stream.audioDone /\ stream'.videoDone = stream.videoDone
          /\ stream'.startup = stream.startup /\ stream'.enabled = stream.enabled
      BY <3>1 DEF Streams
    <3>5. stream'.audioNext = (stream'.loops * media.packets + stream'.packets) * AudioStep
      <4> DEFINE place == stream.loops * media.packets
      <4>1. place \in Nat
        BY MediaFacts, StreamerAssumption DEF Streams
      <4>2. stream.audioNext = (place + stream.packets) * AudioStep
        BY DEF Placed
      <4> HIDE DEF place
      <4>3. (place + stream.packets) * AudioStep + AudioStep
                = (place + (stream.packets + 1)) * AudioStep
        BY <4>1, StreamerAssumption DEF Streams
      <4> QED BY <3>4, <4>2, <4>3 DEF place
    <3>6. ~stream.audioDone
      BY <1>6 DEF AudioTurn, AudioFirst
    <3> QED BY <3>3, <3>4, <3>5, <3>6 DEF Placed
  <2> QED BY <2>1, <2>2
<1>7. CASE VideoTurn
  <2>1. stream.frame # 0
    BY <1>7 DEF VideoTurn, Placed
  <2>2. SendVideo(stream, Taken(stream), stream) /\ UNCHANGED media
    BY <1>7 DEF VideoTurn
  <2> QED BY <2>1, <2>2, TakenFine, SendFine
<1>8. CASE Enable1
  <2>1. stream' = [stream EXCEPT !.startup = TRUE, !.force = FALSE, !.enabled = TRUE]
    BY <1>8 DEF Enable1
  <2>2. stream' \in Streams
    BY <2>1, EnableFields
  <2>3. ~stream.enabled
    BY <1>8 DEF Enable1
  <2> QED BY <2>1, <2>2, <2>3, SamePlace DEF Streams
<1>9. CASE KeyFrameRequested
  <2>1. stream' = [stream EXCEPT !.force = TRUE]
    BY <1>9 DEF KeyFrameRequested
  <2>2. stream' \in Streams
    BY <2>1, Flags
  <2> QED BY <2>1, <2>2, SamePlace DEF Streams
<1>10. CASE StopRequested
  <2>1. stream' = [stream EXCEPT !.stop = TRUE]
    BY <1>10 DEF StopRequested
  <2>2. stream' \in Streams
    BY <2>1, Flags
  <2> QED BY <2>1, <2>2, SamePlace DEF Streams
<1>11. CASE UNCHANGED streamVars
  BY <1>11 DEF streamVars
<1>12. CASE FilesFail
  BY <1>12 DEF FilesFail
<1> QED BY <1>1, <1>2, <1>3, <1>4, <1>5, <1>6, <1>7, <1>8, <1>9, <1>10, <1>11, <1>12
    DEF StreamNext, Loop

\* The files stay, and with them what the stream's place and its type mean.
LEMMA MediaStay ==
    ASSUME [StreamNext]_streamVars
    PROVE  media' = media
BY DEF StreamNext, Loop, streamVars, TakeFlags, StartupFrame, RequestedFrame, Rewind, Wait,
       AudioTurn, VideoTurn, FilesFail, Enable1, KeyFrameRequested, StopRequested

LEMMA PlacedStep ==
    ASSUME StreamTypeOK, Placed(stream), Started, [StreamNext]_streamVars
    PROVE  Placed(stream)'
<1>1. Placed(stream') /\ media' = media
  BY StreamStep, MediaStay
<1> QED BY <1>1 DEF Placed, Frames

LEMMA TypeStep ==
    ASSUME StreamTypeOK, Placed(stream), Started, [StreamNext]_streamVars
    PROVE  StreamTypeOK'
<1>1. /\ stream' \in Streams /\ media' = media /\ media \in MediaFiles
  BY StreamStep, MediaStay DEF StreamTypeOK
<1>2. stream' \in Streams'
  BY <1>1 DEF Streams, Frames
<1>3. worker' \in Workers /\ peer' \in Peers /\ heard' \in Heard
  <2> USE DEF StreamTypeOK
  <2>1. CASE TakeFlags
    BY <2>1 DEF TakeFlags, Workers, Heard, Streams
  <2>2. CASE StartupFrame
    BY <2>2, SendFine DEF StartupFrame
  <2>3. CASE RequestedFrame
    <3>1. CASE ToNextKey(stream).frame = 0
      BY <2>3, <3>1, AtTop DEF RequestedFrame
    <3>2. CASE ToNextKey(stream).frame # 0
      BY <2>3, <3>2, SendFine DEF RequestedFrame
    <3> QED BY <3>1, <3>2
  <2>4. CASE Rewind
    BY <2>4 DEF Rewind, Workers
  <2>5. CASE Wait
    BY <2>5 DEF Wait, Workers
  <2>6. CASE AudioTurn
    BY <2>6 DEF AudioTurn, Workers
  <2>7. CASE VideoTurn
    BY <2>7, SendFine DEF VideoTurn
  <2>8. CASE Enable1
    BY <2>8 DEF Enable1
  <2>9. CASE KeyFrameRequested
    <3>1. peer' \in Peers
      BY <2>9, StreamerAssumption DEF KeyFrameRequested, Peers
    <3>2. heard' \in Heard
      BY <2>9 DEF KeyFrameRequested, Heard
    <3> QED BY <2>9, <3>1, <3>2 DEF KeyFrameRequested
  <2>10. CASE StopRequested
    BY <2>10 DEF StopRequested
  <2>11. CASE UNCHANGED streamVars
    BY <2>11 DEF streamVars
  <2>12. CASE FilesFail
    BY <2>12 DEF FilesFail, Workers
  <2> QED BY <2>1, <2>2, <2>3, <2>4, <2>5, <2>6, <2>7, <2>8, <2>9, <2>10, <2>11, <2>12
      DEF StreamNext, Loop
<1> QED BY <1>1, <1>2, <1>3 DEF StreamTypeOK, Workers, Peers, Heard

LEMMA StartedStep ==
    ASSUME StreamTypeOK, Started, [StreamNext]_streamVars
    PROVE  Started'
<1> USE DEF Started, StreamTypeOK
<1>1. CASE TakeFlags
  BY <1>1 DEF TakeFlags, Streams, Workers
<1>2. CASE StartupFrame \/ RequestedFrame \/ VideoTurn
  <2>1. \/ worker' = [at |-> "top", force |-> FALSE]
        \/ worker' = [at |-> "ended", force |-> FALSE]
    BY <1>2 DEF StartupFrame, RequestedFrame, VideoTurn, SendVideo
  <2> QED BY <2>1
<1>3. CASE Rewind \/ Wait \/ AudioTurn
  <2>1. worker' = [at |-> "top", force |-> FALSE]
    BY <1>3 DEF Rewind, Wait, AudioTurn
  <2> QED BY <2>1
<1>4. CASE Enable1 \/ KeyFrameRequested \/ StopRequested
  BY <1>4 DEF Enable1, KeyFrameRequested, StopRequested, Streams
<1>5. CASE UNCHANGED streamVars
  BY <1>5 DEF streamVars
<1>6. CASE FilesFail
  BY <1>6 DEF FilesFail
<1> QED BY <1>1, <1>2, <1>3, <1>4, <1>5, <1>6 DEF StreamNext, Loop

\* What a key frame settles, and what an outstanding request keeps
LEMMA AskedStep ==
    ASSUME StreamTypeOK, Placed(stream), Started, Asked, [StreamNext]_streamVars
    PROVE  Asked'
<1> USE DEF StreamTypeOK
<1> DEFINE KeyNow(s) == s.frame # 0 /\ media.video[s.frame]
           KeyComes(s) == s.startup \/ s.frame = 0 \/ KeyNow(s)
<1>0. /\ media' = media
      /\ KeyNext(stream) <=> KeyComes(stream)
      /\ KeyNext(stream)' <=> KeyComes(stream')
  BY MediaStay DEF KeyNext, IsKey
<1>a. /\ ~heard.late
      /\ heard.owed = "asked" =>
             stream.force \/ stream.startup \/ ~stream.enabled \/ worker.at = "ended"
      /\ heard.owed = "taken" =>
             /\ stream.enabled
             /\ worker.at = "top" => stream.force \/ KeyComes(stream)
             /\ worker.at = "go" => worker.force \/ KeyComes(stream)
  BY <1>0 DEF Asked
<1> DEFINE Goal ==
      /\ ~heard'.late
      /\ heard'.owed = "asked" =>
             stream'.force \/ stream'.startup \/ ~stream'.enabled \/ worker'.at = "ended"
      /\ heard'.owed = "taken" =>
             /\ stream'.enabled
             /\ worker'.at = "top" => stream'.force \/ KeyComes(stream')
             /\ worker'.at = "go" => worker'.force \/ KeyComes(stream')
<1> SUFFICES Goal
  BY <1>0 DEF Asked
<1>1. CASE TakeFlags
  <2>1. /\ stream'.startup = stream.startup /\ stream'.enabled = stream.enabled
        /\ stream'.frame = stream.frame
    BY <1>1 DEF TakeFlags, Streams
  <2>2. worker.at = "top" /\ worker \in Workers /\ heard \in Heard
    BY <1>1 DEF TakeFlags
  <2>3. KeyComes(stream') <=> KeyComes(stream)
    BY <2>1
  <2> HIDE DEF KeyComes
  <2>4. CASE stream.stop
    BY <1>1, <1>a, <2>1, <2>2, <2>4 DEF TakeFlags, Heard
  <2>5. CASE ~stream.stop /\ ~stream.enabled
    BY <1>1, <1>a, <2>1, <2>2, <2>5 DEF TakeFlags, Heard
  <2>6. CASE ~stream.stop /\ stream.enabled
    <3>1. worker' = [at |-> "go", force |-> stream.force]
      BY <1>1, <2>6 DEF TakeFlags
    <3>2. CASE heard.owed = "asked"
      <4>1. heard'.owed = "taken" /\ ~heard'.late
        BY <1>1, <1>a, <2>2, <2>6, <3>2 DEF TakeFlags, Heard
      <4>2. stream.force \/ KeyComes(stream)
        BY <1>a, <2>2, <2>6, <3>2 DEF KeyComes
      <4> QED BY <2>1, <2>3, <2>6, <3>1, <4>1, <4>2
    <3>3. CASE heard.owed # "asked"
      <4>1. heard' = heard
        BY <1>1, <3>3 DEF TakeFlags
      <4> QED BY <1>a, <2>1, <2>2, <2>3, <2>6, <3>1, <3>3, <4>1
    <3> QED BY <3>2, <3>3
  <2> QED BY <2>4, <2>5, <2>6
<1>2. CASE StartupFrame
  <2> DEFINE s == IF IsKey(stream) THEN stream ELSE Restarted(stream, TRUE)
             t == [Taken(s) EXCEPT !.startup = FALSE]
  <2>1. IsKey(s) /\ s.startup /\ s.enabled = stream.enabled
    BY <1>2, StartupFine DEF StartupFrame
  <2>2. SendVideo(s, t, s)
    BY <1>2 DEF StartupFrame
  <2> HIDE DEF s, t
  <2>3. CASE Hears(s)
    BY <1>a, <2>1, <2>3 DEF Hears
  <2>4. CASE stream' = s /\ UNCHANGED heard
    <3>1. worker' \in Workers /\ worker'.at # "go"
      BY <1>2, <2>2, SendFine DEF StartupFrame
    <3> QED BY <1>a, <2>1, <2>4, <3>1
  <2> QED BY <2>2, <2>3, <2>4 DEF SendVideo
<1>3. CASE RequestedFrame
  <2> DEFINE s == ToNextKey(stream)
             t == [s EXCEPT !.force = TRUE]
  <2>1. /\ s \in Streams /\ s.startup = stream.startup /\ s.enabled = stream.enabled
        /\ s.force = stream.force
        /\ s.frame # 0 => IsKey(s)
    <3>1. CASE stream.frame = 0
      BY <3>1 DEF ToNextKey
    <3>2. CASE stream.frame # 0
      BY <3>2, ToNextKeyFine
    <3> QED BY <3>1, <3>2
  <2>2. \/ /\ s.frame = 0 /\ stream' = s /\ UNCHANGED heard
           /\ worker' = [at |-> "top", force |-> FALSE]
        \/ s.frame # 0 /\ SendVideo(s, Taken(s), t)
    BY <1>3 DEF RequestedFrame
  <2>3. worker.at = "go"
    BY <1>3 DEF RequestedFrame, Going
  <2> HIDE DEF s
  <2>4. t.force /\ t.enabled = stream.enabled
    BY <2>1 DEF Streams
  <2> HIDE DEF t
  <2>5. CASE s.frame = 0
    BY <1>a, <2>1, <2>2, <2>3, <2>5
  <2>6. CASE s.frame # 0 /\ Hears(s)
    BY <1>a, <2>1, <2>6 DEF Hears
  <2>7. CASE stream' = t /\ UNCHANGED heard /\ worker' = [at |-> "top", force |-> FALSE]
    BY <1>a, <2>4, <2>7
  <2>8. CASE stream' = s /\ UNCHANGED heard /\ worker' = [at |-> "ended", force |-> FALSE]
    BY <1>a, <2>1, <2>8
  <2> QED BY <2>2, <2>5, <2>6, <2>7, <2>8 DEF SendVideo
<1>4. CASE Rewind
  <2> DEFINE r == Restarted(stream, FALSE)
  <2>1. r \in Streams /\ r.frame = 1 /\ r.startup = stream.startup
        /\ r.enabled = stream.enabled /\ r.force = stream.force
    BY RestartedIs
  <2>2. /\ stream' = [r EXCEPT !.loops = r.loops + 1] /\ UNCHANGED heard
        /\ worker' = [at |-> "top", force |-> FALSE] /\ worker.at = "go"
    BY <1>4 DEF Rewind, Steady, Going
  <2> HIDE DEF r
  <2>3. /\ stream'.frame = 1 /\ stream'.startup = stream.startup
        /\ stream'.enabled = stream.enabled /\ stream'.force = stream.force
    BY <2>1, <2>2 DEF Streams
  <2>4. KeyComes(stream')
    BY <2>3, MediaFacts
  <2> QED BY <1>a, <2>2, <2>3, <2>4
<1>5. CASE Wait
  <2>1. ~worker.force /\ worker.at = "go"
    BY <1>5 DEF Wait, Unfinished, Steady, Going
  <2> QED BY <1>5, <1>a, <2>1 DEF Wait
<1>6. CASE AudioTurn
  <2>1. ~worker.force /\ worker.at = "go"
    BY <1>6 DEF AudioTurn, Unfinished, Steady, Going
  <2>2. /\ stream'.frame = stream.frame /\ stream'.startup = stream.startup
        /\ stream'.enabled = stream.enabled /\ stream'.force = stream.force
    BY <1>6 DEF AudioTurn, Streams
  <2> QED BY <1>6, <1>a, <2>1, <2>2 DEF AudioTurn
<1>7. CASE VideoTurn
  <2>1. ~worker.force /\ worker.at = "go" /\ ~stream.startup
    BY <1>7 DEF VideoTurn, Unfinished, Steady, Going
  <2>2. stream.frame # 0
    BY <1>7 DEF VideoTurn, Placed
  <2>3. SendVideo(stream, Taken(stream), stream)
    BY <1>7 DEF VideoTurn
  <2>4. CASE stream' = Taken(stream) /\ Hears(stream) /\ worker' = [at |-> "top", force |-> FALSE]
    <3>1. /\ stream'.startup = stream.startup /\ stream'.enabled = stream.enabled
          /\ stream'.force = stream.force
      BY <2>2, <2>4, TakenFine
    <3>2. heard.owed = "taken" => IsKey(stream)
      BY <1>a, <2>1, <2>2 DEF IsKey
    <3>3. /\ heard'.owed = (IF IsKey(stream) THEN "nothing" ELSE heard.owed)
          /\ ~heard'.late
      BY <1>a, <2>4, <3>2 DEF Hears
    <3> QED BY <1>a, <2>1, <3>1, <3>2, <3>3
  <2>5. CASE stream' = stream /\ UNCHANGED heard /\ worker' = [at |-> "top", force |-> FALSE]
    BY <1>a, <2>1, <2>5
  <2>6. CASE stream' = stream /\ UNCHANGED heard /\ worker' = [at |-> "ended", force |-> FALSE]
    BY <1>a, <2>6
  <2> QED BY <2>3, <2>4, <2>5, <2>6 DEF SendVideo
<1>8. CASE Enable1
  <2>1. /\ stream'.startup /\ stream'.enabled /\ UNCHANGED <<worker, heard>>
        /\ ~stream.enabled
    BY <1>8 DEF Enable1, Streams
  <2> QED BY <1>a, <2>1
<1>9. CASE KeyFrameRequested
  <2>1. /\ stream'.force /\ stream'.startup = stream.startup
        /\ stream'.enabled = stream.enabled /\ stream'.frame = stream.frame
        /\ UNCHANGED worker
    BY <1>9 DEF KeyFrameRequested, Streams
  <2>2. heard'.owed = (IF heard.owed = "taken" THEN "taken" ELSE "asked") /\ ~heard'.late
    BY <1>9, <1>a DEF KeyFrameRequested, Heard
  <2> QED BY <1>a, <2>1, <2>2
<1>10. CASE StopRequested
  <2>1. /\ stream'.force = stream.force /\ stream'.startup = stream.startup
        /\ stream'.enabled = stream.enabled /\ stream'.frame = stream.frame
        /\ UNCHANGED <<worker, heard>>
    BY <1>10 DEF StopRequested, Streams
  <2> QED BY <1>a, <2>1
<1>11. CASE UNCHANGED streamVars
  BY <1>11, <1>a DEF streamVars
<1>12. CASE FilesFail
  BY <1>12, <1>a DEF FilesFail
<1> QED BY <1>1, <1>2, <1>3, <1>4, <1>5, <1>6, <1>7, <1>8, <1>9, <1>10, <1>11, <1>12
    DEF StreamNext, Loop

------------------------------------------------------------------------------

LEMMA InitInv == StreamInit => StreamInv
<1> SUFFICES ASSUME StreamInit PROVE StreamInv OBVIOUS
<1>1. media \in MediaFiles /\ stream = NewStream
  BY DEF StreamInit
<1>2. /\ 0 \in 0 .. media.packets /\ 1 \in 0 .. Frames /\ 0 \in 0 .. MaxLoops
      /\ VideoStep \in Nat
  BY <1>1, MediaFacts, StreamerAssumption
<1>3. stream \in Streams
  BY <1>1, <1>2 DEF NewStream, Streams
<1>4. worker \in Workers /\ peer \in Peers /\ heard \in Heard
  BY StreamerAssumption DEF StreamInit, Workers, Peers, Heard
<1>5. Placed(stream)
  <2>1. /\ stream.loops = 0 /\ stream.packets = 0 /\ stream.frame = 1
        /\ stream.audioNext = 0 /\ stream.framePts = 0 /\ stream.videoNext = VideoStep
        /\ ~stream.audioDone /\ ~stream.videoDone
    BY <1>1 DEF NewStream
  <2>2. stream.loops * media.packets = 0 /\ stream.loops * Frames = 0
    BY <1>1, <2>1, MediaFacts
  <2>3. /\ 0 = (0 + 0) * AudioStep
        /\ VideoStep = (0 + 1) * VideoStep
        /\ 0 = (0 + 1 - 1) * VideoStep
    BY StreamerAssumption
  <2> QED BY <2>1, <2>2, <2>3 DEF Placed
<1>6. Started /\ Asked
  BY DEF StreamInit, Started, Asked
<1> QED BY <1>1, <1>3, <1>4, <1>5, <1>6 DEF StreamInv, StreamTypeOK

LEMMA AlwaysInv == StreamSpec => []StreamInv
<1>1. StreamInv /\ [StreamNext]_streamVars => StreamInv'
  BY TypeStep, PlacedStep, StartedStep, AskedStep DEF StreamInv
<1> QED BY <1>1, InitInv, PTL DEF StreamSpec

\* Every variable of the streamer holds what its type allows.
THEOREM StreamTypes == StreamSpec => []StreamTypeOK
BY AlwaysInv, PTL DEF StreamInv

\* reset_loop_sources(), advance_to_next_key_frame() and send_video_frame_now(), for files of any
\* length: what is loaded has the timestamp of its place in the files played so far, through
\* rewinds, frames tried again and frames passed over.
THEOREM TimestampsKept == StreamSpec => []TimestampIsPlace
<1>1. StreamInv => TimestampIsPlace
  BY DEF StreamInv, Placed, TimestampIsPlace
<1> QED BY <1>1, AlwaysInv, PTL

\* device_demo_streamer_request_key_frame(), for files with key frames anywhere: once the loop has
\* seen the request, the next frame the connection takes is a key frame.
THEOREM KeyFrameFirst == StreamSpec => []RequestComesFirst
<1>1. StreamInv => RequestComesFirst
  BY DEF StreamInv, Asked, RequestComesFirst
<1> QED BY <1>1, AlwaysInv, PTL

------------------------------------------------------------------------------
(* AnnexB.  In what follows r is the reader, p its place in the file, f    *)
(* the frame in the making and fs the frames returned.                     *)

UnitRecords == [first : Nat, last : Int, key : BOOLEAN]

\* The variables' types
ReaderTyped(r, f, fs) ==
    /\ r \in [first : Nat \ {0}, read : Nat, eof : BOOLEAN, done : BOOLEAN]
    /\ f \in [first : Nat, last : Int, key : BOOLEAN, vcl : BOOLEAN]
    /\ fs \in Seq(UnitRecords)

\* What was returned is access units, from the first on and without gaps.
Made(fs) ==
    /\ \A k \in 1 .. Len(fs) : fs[k] \in Units
    /\ \A k \in 1 .. Len(fs) - 1 : fs[k + 1].first = fs[k].last + 1
    /\ fs # <<>> => \A u \in Units : fs[1].first <= u.first

\* The buffer begins at a start code, but for the beginning and the end of the file.
Positioned(r, f, fs) ==
    /\ r.read <= Len(file)
    /\ r.eof => r.read = Len(file)
    /\ \/ r.first = 1 /\ fs = <<>> /\ f = NoFrame
       \/ \E c \in Codes : r.first = NalFirst(c)
       \/ r.first = Len(file) + 1 /\ f = NoFrame

\* The code that comes next
Coming(p, c) == c \in Codes /\ p <= c /\ \A d \in Codes : p <= d => c <= d

Returned(fs, u) == \E k \in 1 .. Len(fs) : fs[k] = u

\* All units that begin before p were returned, and the last of them ends there.
ReturnedTo(fs, p) ==
    /\ \A i \in Leaders : i < p => Returned(fs, UnitAt(i))
    /\ fs = <<>> => \A i \in Nals : p <= i
    /\ fs # <<>> => fs[Len(fs)].last + 1 = p

\* The frame in the making is the unit that NAL unit i leads, as far as it was read.
Gathers(f, p, i) ==
    /\ i < p
    /\ \A j \in Leaders : i < j => p <= j
    /\ f.first = NalFirst(i) /\ f.last + 1 = p
    /\ f.key <=> \E j \in Nals : i <= j /\ j < p /\ Type(j) = Idr
    /\ \A j \in Nals : i <= j /\ j < p /\ Slice(j) => f.vcl
    /\ f.vcl => \E j \in Nals : /\ i <= j /\ j < p /\ Slice(j)
                                /\ \A k \in Nals : j < k /\ k < p => ~Opens(k)

\* Either a unit is in the making, or what comes next leads one.
Gathered(f, p, fs) ==
    \/ \E i \in Leaders : Gathers(f, p, i) /\ ReturnedTo(fs, NalFirst(i))
    \/ /\ f = NoFrame /\ ReturnedTo(fs, p)
       /\ \A i \in Nals : Coming(p, i) => Leads(i)

\* At the end all were returned.
Finished(f, fs) == f = NoFrame /\ \A u \in Units : Returned(fs, u)

ReaderFine(r, f, fs) ==
    /\ ReaderTyped(r, f, fs) /\ Made(fs)
    /\ IF r.done THEN Finished(f, fs) ELSE Positioned(r, f, fs) /\ Gathered(f, r.first, fs)

ReaderInv == file \in Files /\ ReaderFine(reader, frame, frames)

------------------------------------------------------------------------------
(* The file, its codes, and what the reader sees of them                   *)

\* A file is a sequence of bytes.
LEMMA FileIs ==
    ASSUME file \in Files
    PROVE  Len(file) \in Nat /\ \A i \in 1 .. Len(file) : file[i] \in Bytes
<1>1. file \in Seq(Bytes)
  BY ReaderAssumption
<1>2. QED
  BY <1>1

\* What a start code is.
LEMMA CodeIs ==
    ASSUME file \in Files, NEW c \in Codes
    PROVE  /\ c \in Nat \ {0} /\ c + 2 <= Len(file)
           /\ file[c] = 0 /\ file[c + 1] = 0 /\ file[c + 2] = 1
<1>1. c \in 1 .. Len(file) - 2 /\ file[c] = 0 /\ file[c + 1] = 0 /\ file[c + 2] = 1
  BY DEF Codes
<1>2. Len(file) \in Nat
  BY FileIs
<1>3. QED
  BY <1>1, <1>2

\* Codes do not overlap,
LEMMA CodesApart ==
    ASSUME file \in Files, NEW c \in Codes, NEW d \in Codes, c < d
    PROVE  c + 3 <= d
<1>1. /\ c \in Nat /\ d \in Nat
      /\ file[c + 1] = 0 /\ file[c + 2] = 1 /\ file[d] = 0 /\ file[d + 1] = 0
  BY CodeIs
<1>2. CASE d = c + 1
  <2>1. file[d + 1] = file[c + 2]
    BY <1>1, <1>2
  <2>2. QED
    BY <1>1, <2>1
<1>3. CASE d = c + 2
  <2>1. file[d] = file[c + 2]
    BY <1>1, <1>3
  <2>2. QED
    BY <1>1, <2>1
<1>4. QED
  BY <1>1, <1>2, <1>3

\* and what begins at one begins there or with the zero before it,
LEMMA NalFirstIs ==
    ASSUME file \in Files, NEW c \in Codes
    PROVE  /\ NalFirst(c) \in Nat \ {0}
           /\ NalFirst(c) <= c /\ c <= NalFirst(c) + 1
<1>1. c \in Nat \ {0}
  BY CodeIs
<1>2. QED
  BY <1>1 DEF NalFirst

\* after the code before it.
LEMMA NalFirstAfter ==
    ASSUME file \in Files, NEW c \in Codes, NEW d \in Codes, c < d
    PROVE  c + 3 <= NalFirst(d)
<1>1. c \in Nat /\ d \in Nat /\ file[c + 2] = 1 /\ c + 3 <= d
  BY CodeIs, CodesApart
<1>2. CASE d = c + 3
  <2>1. file[d - 1] = 1
    BY <1>1, <1>2
  <2>2. NalFirst(d) = d
    BY <2>1 DEF NalFirst
  <2>3. QED
    BY <1>1, <2>2
<1>3. CASE d > c + 3
  BY <1>1, <1>3, NalFirstIs
<1>4. QED
  BY <1>1, <1>2, <1>3

\* A set of numbers has a least one.
LEMMA LeastExists ==
    ASSUME NEW S, S \subseteq Nat, S # {}
    PROVE  \E m \in S : \A k \in S : m <= k
<1>1. PICK m \in S : \A k \in S : <<k, m>> \notin OpToRel(<, Nat)
  BY NatLessThanWellFounded, WFMin
<1>2. ASSUME NEW k \in S PROVE m <= k
  <2>1. k \in Nat /\ m \in Nat
    OBVIOUS
  <2>2. <<k, m>> \in Nat \X Nat /\ <<k, m>>[1] = k /\ <<k, m>>[2] = m
    BY <2>1
  <2>3. ~(<<k, m>>[1] < <<k, m>>[2])
    BY <1>1, <2>2, Zenon DEF OpToRel
  <2>4. QED
    BY <2>1, <2>2, <2>3
<1>3. QED
  BY <1>2

\* It is the one that CHOOSE picks.
LEMMA LeastIs ==
    ASSUME NEW S, S \subseteq Nat, NEW m \in S, \A k \in S : m <= k
    PROVE  (CHOOSE j \in S : \A k \in S : j <= k) = m
<1>1. \A j \in S : (\A k \in S : j <= k) => j = m
  OBVIOUS
<1>2. QED
  BY <1>1

\* find_start_code() finds the next code, if all of it is in the buffer, from the zero
\* before it on if that is there too.
LEMMA CodeFound ==
    ASSUME file \in Files, NEW from \in Nat \ {0}, NEW last \in Nat, last <= Len(file)
    PROVE  LET code == StartCode(from, last) IN
           \/ code = NoCode /\ \A c \in Codes : from <= c => last < c + 2
           \/ \E c \in Codes :
                 /\ from <= c /\ c + 2 <= last /\ \A d \in Codes : from <= d => c <= d
                 /\ code.at = (IF c > from /\ file[c - 1] = 0 THEN c - 1 ELSE c)
                 /\ code.at + code.prefix = c + 3
<1> DEFINE Zeros(i) == file[i] = 0 /\ file[i + 1] = 0
           Long(i)  == i + 3 <= last /\ file[i + 2] = 0 /\ file[i + 3] = 1
           Shrt(i) == file[i + 2] = 1
           codes    == {i \in from .. last - 2 : Zeros(i) /\ (Long(i) \/ Shrt(i))}
           least    == CHOOSE i \in codes : \A j \in codes : i <= j
           seen     == {c \in Codes : from <= c /\ c + 2 <= last}
<1>1. Len(file) \in Nat
  BY FileIs
<1>2. StartCode(from, last) =
          IF codes = {} THEN NoCode
          ELSE [at |-> least, prefix |-> IF Long(least) THEN 4 ELSE 3]
  BY DEF StartCode
<1>3. codes \subseteq Nat /\ seen \subseteq Nat
  BY CodeIs
<1>4. ASSUME NEW i \in codes PROVE \E c \in seen : i = c \/ i = c - 1
  <2>1. i \in Nat /\ from <= i /\ i <= last - 2 /\ i # 0
    OBVIOUS
  <2>2. CASE Shrt(i)
    <3>1. i \in Codes
      BY <1>1, <2>1, <2>2 DEF Codes
    <3>2. QED
      BY <2>1, <3>1
  <2>3. CASE Long(i)
    <3>1. file[i + 1] = 0 /\ file[i + 2] = 0 /\ file[i + 3] = 1 /\ i + 3 <= last
      BY <2>3
    <3>2. i + 1 \in Codes
      <4>1. i + 1 \in 1 .. Len(file) - 2
        BY <1>1, <2>1, <3>1
      <4>2. (i + 1) + 1 = i + 2 /\ (i + 1) + 2 = i + 3
        BY <2>1
      <4>3. QED
        BY <3>1, <4>1, <4>2 DEF Codes
    <3>3. i + 1 \in seen
      BY <2>1, <3>1, <3>2
    <3>4. QED
      BY <2>1, <3>3
  <2>4. QED
    BY <2>2, <2>3
<1>5. ASSUME NEW c \in seen
      PROVE  /\ c \in codes /\ Shrt(c) /\ ~Long(c)
             /\ c > from /\ file[c - 1] = 0 => c - 1 \in codes /\ Long(c - 1)
  <2>1. /\ c \in Nat \ {0} /\ from <= c /\ c + 2 <= last
        /\ file[c] = 0 /\ file[c + 1] = 0 /\ file[c + 2] = 1
    BY CodeIs
  <2>2. ASSUME c > from, file[c - 1] = 0 PROVE c - 1 \in codes /\ Long(c - 1)
    <3>1. (c - 1) + 1 = c /\ (c - 1) + 2 = c + 1 /\ (c - 1) + 3 = c + 2
      BY <2>1
    <3>2. Zeros(c - 1) /\ Long(c - 1)
      BY <2>1, <2>2, <3>1
    <3>3. c - 1 \in from .. last - 2
      BY <2>1, <2>2
    <3>4. QED
      BY <3>2, <3>3
  <2>3. c \in from .. last - 2
    BY <2>1
  <2>4. QED
    BY <2>1, <2>2, <2>3
<1> HIDE DEF codes, seen, Long, Zeros, Shrt
<1>6. CASE seen = {}
  <2>1. codes = {}
    BY <1>4, <1>6
  <2>2. \A c \in Codes : from <= c => last < c + 2
    BY <1>6, CodeIs DEF seen
  <2>3. QED
    BY <1>2, <2>1, <2>2
<1>7. CASE seen # {}
  <2>1. PICK c \in seen : \A d \in seen : c <= d
    BY <1>3, <1>7, LeastExists
  <2>2. c \in Codes /\ from <= c /\ c + 2 <= last /\ c \in Nat \ {0}
    BY CodeIs DEF seen
  <2>3. \A d \in Codes : from <= d => c <= d
    BY <2>1, <2>2, CodeIs DEF seen
  <2> DEFINE i == IF c > from /\ file[c - 1] = 0 THEN c - 1 ELSE c
  <2>4. i \in codes
    BY <1>5
  <2>5. ASSUME NEW j \in codes PROVE i <= j
    <3>1. PICK d \in seen : j = d \/ j = d - 1
      BY <1>4
    <3>2. c <= d /\ d \in Nat /\ j \in Nat
      BY <1>3, <2>1
    <3>3. CASE j = c - 1
      <4>1. j >= from
        BY DEF codes
      <4>2. file[c - 1] = 0 /\ c > from
        BY <2>2, <3>2, <3>3, <4>1 DEF codes, Zeros
      <4>3. QED
        BY <2>2, <3>3, <4>2
    <3>4. CASE j # c - 1
      BY <2>2, <3>1, <3>2, <3>4
    <3>5. QED
      BY <3>3, <3>4
  <2>6. least = i
    BY <1>3, <2>4, <2>5, LeastIs
  <2>7. i + (IF Long(i) THEN 4 ELSE 3) = c + 3
    BY <1>5, <2>2
  <2> HIDE DEF i, least
  <2>8. StartCode(from, last) = [at |-> i, prefix |-> IF Long(i) THEN 4 ELSE 3]
    BY <1>2, <2>4, <2>6
  <2>9. StartCode(from, last).at = i /\ StartCode(from, last).prefix = IF Long(i) THEN 4 ELSE 3
    BY <2>8
  <2>10. StartCode(from, last).at + StartCode(from, last).prefix = c + 3
    BY <2>7, <2>9
  <2>11. QED
    BY <2>2, <2>3, <2>9, <2>10 DEF i
<1>8. QED
  BY <1>6, <1>7

\* What goes on to the first of some codes ends before it.
LEMMA UntilFirst ==
    ASSUME file \in Files, NEW S, S \subseteq Codes, NEW m \in S, \A k \in S : m <= k
    PROVE  Until(S) = NalFirst(m) - 1
<1>1. S \subseteq Nat
  BY CodeIs
<1>2. (CHOOSE j \in S : \A k \in S : j <= k) = m
  BY <1>1, LeastIs
<1>3. QED
  BY <1>2 DEF Until

\* What the file holds does not change while the file is read.
LEMMA FileStays ==
    ASSUME file' = file
    PROVE  /\ Codes' = Codes /\ Nals' = Nals /\ Leaders' = Leaders /\ Units' = Units
           /\ \A i : NalFirst(i)' = NalFirst(i) /\ Type(i)' = Type(i)
           /\ \A i : (Slice(i)' <=> Slice(i)) /\ (Opens(i)' <=> Opens(i)) /\ (Leads(i)' <=> Leads(i))
           /\ \A i : UnitAt(i)' = UnitAt(i)
<1>1. Codes' = Codes
  BY DEF Codes
<1>2. Nals' = Nals
  BY <1>1 DEF Nals
<1>3. \A i : NalFirst(i)' = NalFirst(i) /\ Type(i)' = Type(i)
  BY DEF NalFirst, Type
<1>4. \A i : Slice(i)' <=> Slice(i)
  BY <1>3 DEF Slice
<1>5. \A S : Until(S)' = Until(S)
  BY <1>3 DEF Until
<1>6. \A i : NalEnd(i)' = NalEnd(i)
  BY <1>1, <1>5 DEF NalEnd
<1>7. \A i : Opens(i)' <=> Opens(i)
  BY <1>3, <1>4, <1>6 DEF Opens
<1>8. \A i : Leads(i)' <=> Leads(i)
  BY <1>2, <1>4, <1>7 DEF Leads
<1>9. Leaders' = Leaders
  BY <1>2, <1>8 DEF Leaders
<1>10. \A i : MembersOf(i)' = MembersOf(i)
  BY <1>2, <1>9 DEF MembersOf
<1>11. \A i : UnitAt(i)' = UnitAt(i)
  BY <1>1, <1>2, <1>3, <1>5, <1>9, <1>10 DEF UnitAt
<1>12. \A i : Complete(i)' <=> Complete(i)
  BY <1>1, <1>2, <1>4, <1>10 DEF Complete
<1>13. Units' = Units
  BY <1>9, <1>11, <1>12 DEF Units
<1>14. QED
  BY <1>1, <1>2, <1>3, <1>4, <1>7, <1>8, <1>9, <1>11, <1>13

\* What the code ahead of the reader is.
LEMMA CodeAhead ==
    ASSUME file \in Files, ReaderTyped(reader, frame, frames), Positioned(reader, frame, frames)
    PROVE  \/ Code = NoCode /\ \A c \in Codes : First <= c => reader.read < c + 2
           \/ \E c \in Codes :
                 /\ Coming(First, c) /\ c + 2 <= reader.read
                 /\ Code.at = NalFirst(c) /\ (First = Code.at => Header = c + 3)
                 /\ First # Code.at =>
                        First = 1 /\ First < Code.at /\ frames = <<>> /\ frame = NoFrame
<1>1. /\ First \in Nat \ {0} /\ reader.read \in Nat /\ reader.read <= Len(file) /\ Len(file) \in Nat
  BY FileIs DEF ReaderTyped, Positioned, First
<1>2. CASE Code = NoCode /\ \A c \in Codes : First <= c => reader.read < c + 2
  BY <1>2
<1>3. ASSUME NEW c \in Codes,
             First <= c, c + 2 <= reader.read, \A d \in Codes : First <= d => c <= d,
             Code.at = (IF c > First /\ file[c - 1] = 0 THEN c - 1 ELSE c),
             Code.at + Code.prefix = c + 3
      PROVE  /\ Coming(First, c)
             /\ Code.at = NalFirst(c) /\ (First = Code.at => Header = c + 3)
             /\ First # Code.at =>
                    First = 1 /\ First < Code.at /\ frames = <<>> /\ frame = NoFrame
  <2>1. Coming(First, c)
    BY <1>3 DEF Coming
  <2>2. c \in Nat \ {0} /\ NalFirst(c) \in Nat \ {0}
    BY CodeIs, NalFirstIs
  <2>3. CASE First = 1 /\ frames = <<>> /\ frame = NoFrame
    <3>1. Code.at = NalFirst(c)
      BY <1>3, <2>3 DEF NalFirst
    <3>2. QED
      BY <1>3, <2>1, <2>2, <2>3, <3>1 DEF Header
  <2>4. ASSUME NEW d \in Codes, First = NalFirst(d)
        PROVE  Code.at = NalFirst(c) /\ First = Code.at
    <3>1. d \in Nat /\ First <= d /\ c <= d
      BY <1>3, <2>4, CodeIs, NalFirstIs
    <3>2. c = d
      <4>1. ASSUME c < d PROVE FALSE
        <5>1. c + 3 <= NalFirst(d)
          BY ONLY file \in Files, c \in Codes, d \in Codes, <4>1, NalFirstAfter
        <5>2. QED
          BY <1>1, <1>3, <2>2, <2>4, <5>1
      <4>2. QED
        BY <2>2, <3>1, <4>1
    <3>3. QED
      BY <1>3, <2>2, <2>4, <3>2 DEF NalFirst
  <2>5. CASE First = Len(file) + 1
    BY <1>1, <1>3, <2>2, <2>5
  <2>6. QED
    BY <1>1, <1>3, <2>1, <2>3, <2>4, <2>5 DEF Positioned, First, Header
<1>4. QED
  BY <1>1, <1>2, <1>3, CodeFound DEF Code

\* What the reader is at when it has all of a NAL unit.
LEMMA NalAhead ==
    ASSUME file \in Files, ReaderTyped(reader, frame, frames),
           Positioned(reader, frame, frames), Whole
    PROVE  \E c \in Nals :
              /\ Coming(First, c) /\ First = NalFirst(c) /\ Header = c + 3
              /\ NalLast = NalEnd(c) /\ NalLast \in Int
              /\ \/ \E d \in Codes :
                       /\ NextNal # NoCode /\ NextNal.at = NalFirst(d)
                       /\ c < d /\ (\A e \in Codes : c < e => d <= e)
                       /\ NalLast = NalFirst(d) - 1
                 \/ /\ NextNal = NoCode /\ reader.read = Len(file) /\ NalLast = Len(file)
                    /\ \A e \in Codes : e <= c
<1>1. /\ First \in Nat \ {0} /\ reader.read \in Nat /\ reader.read <= Len(file) /\ Len(file) \in Nat
      /\ reader.eof => reader.read = Len(file)
  BY FileIs DEF ReaderTyped, Positioned, First
<1>2. /\ Code # NoCode /\ Code.at = First /\ ~(Header > reader.read)
      /\ NextNal # NoCode \/ reader.eof
  BY DEF Whole, AtNal, Short
<1>3. PICK c \in Codes : /\ Coming(First, c) /\ c + 2 <= reader.read
                         /\ Code.at = NalFirst(c) /\ (First = Code.at => Header = c + 3)
  BY <1>2, CodeAhead
<1>4. First = NalFirst(c) /\ Header = c + 3 /\ c \in Nat \ {0} /\ file[c + 2] = 1
  BY <1>2, <1>3, CodeIs
<1>5. c \in Nals
  BY <1>1, <1>2, <1>4 DEF Nals
<1>6. ASSUME NEW e \in Codes PROVE e \in Nat /\ (c < e <=> Header <= e)
  BY <1>4, CodeIs, CodesApart
<1> DEFINE later == {j \in Codes : j > c}
<1>7. Header \in Nat \ {0}
  BY <1>4
<1>8. CASE NextNal = NoCode /\ \A e \in Codes : Header <= e => reader.read < e + 2
  <2>1. reader.read = Len(file)
    BY <1>1, <1>2, <1>8
  <2>2. \A e \in Codes : e <= c
    BY <1>4, <1>6, <1>8, <2>1, CodeIs
  <2>3. later = {}
    <3>1. \A e \in Codes : ~(e > c)
      BY <1>4, <1>6, <2>2
    <3>2. QED
      BY <3>1
  <2>4. NalEnd(c) = Len(file)
    BY <2>3 DEF NalEnd, Until
  <2>5. NalLast = Len(file)
    BY <1>8, <2>1 DEF NalLast
  <2>6. QED
    BY <1>1, <1>3, <1>4, <1>5, <1>8, <2>1, <2>2, <2>4, <2>5
<1>9. ASSUME NEW d \in Codes,
             Header <= d, \A e \in Codes : Header <= e => d <= e,
             NextNal.at = (IF d > Header /\ file[d - 1] = 0 THEN d - 1 ELSE d)
      PROVE  /\ NextNal # NoCode /\ NextNal.at = NalFirst(d)
             /\ c < d /\ \A e \in Codes : c < e => d <= e
             /\ NalLast = NalFirst(d) - 1 /\ NalEnd(c) = NalFirst(d) - 1
  <2>1. c < d /\ d \in Nat /\ \A e \in Codes : c < e => d <= e
    BY <1>4, <1>6, <1>9
  <2>2. NextNal.at = NalFirst(d)
    <3>1. CASE d > Header
      BY <1>4, <1>9, <3>1, <2>1 DEF NalFirst
    <3>2. CASE d = Header
      <4>1. d - 1 = c + 2
        BY <1>4, <3>2
      <4>2. QED
        BY <1>4, <1>9, <3>2, <4>1 DEF NalFirst
    <3>3. QED
      BY <1>4, <1>9, <2>1, <3>1, <3>2
  <2>3. NalFirst(d) \in Nat \ {0}
    BY NalFirstIs
  <2>4. NextNal # NoCode
    BY <2>2, <2>3 DEF NoCode
  <2>5. NalEnd(c) = NalFirst(d) - 1
    <3>1. later \subseteq Codes /\ d \in later /\ \A k \in later : d <= k
      BY <1>4, <1>6, <2>1
    <3>2. Until(later) = NalFirst(d) - 1
      BY <3>1, UntilFirst
    <3>3. QED
      BY <3>2 DEF NalEnd
  <2>6. QED
    BY <2>1, <2>2, <2>4, <2>5 DEF NalLast
<1>10. \/ NextNal = NoCode /\ \A e \in Codes : Header <= e => reader.read < e + 2
       \/ \E d \in Codes :
             /\ Header <= d /\ \A e \in Codes : Header <= e => d <= e
             /\ NextNal.at = (IF d > Header /\ file[d - 1] = 0 THEN d - 1 ELSE d)
  BY <1>1, <1>7, CodeFound DEF NextNal
<1>11. CASE \E d \in Codes :
             /\ Header <= d /\ \A e \in Codes : Header <= e => d <= e
             /\ NextNal.at = (IF d > Header /\ file[d - 1] = 0 THEN d - 1 ELSE d)
  <2>1. PICK d \in Codes :
             /\ Header <= d /\ \A e \in Codes : Header <= e => d <= e
             /\ NextNal.at = (IF d > Header /\ file[d - 1] = 0 THEN d - 1 ELSE d)
    BY <1>11
  <2>2. /\ NextNal # NoCode /\ NextNal.at = NalFirst(d)
        /\ c < d /\ \A e \in Codes : c < e => d <= e
        /\ NalLast = NalFirst(d) - 1 /\ NalEnd(c) = NalFirst(d) - 1
    BY <1>9, <2>1
  <2>3. NalFirst(d) \in Nat
    BY NalFirstIs
  <2>4. QED
    BY <1>3, <1>4, <1>5, <2>2, <2>3
<1>12. QED
  BY <1>8, <1>10, <1>11

------------------------------------------------------------------------------
(* Access units                                                            *)

\* Unit i ends before place p, with the code that leads the next, a bare code or the file.
EndsAt(i, p) ==
    /\ \A j \in Leaders : i < j => p <= j
    /\ \/ \E d \in Codes : i < d /\ p = NalFirst(d) /\ (d \in Nals => d \in Leaders)
       \/ p = Len(file) + 1 /\ \A e \in Codes : e \in Nals

\* What it consists of, then.
LEMMA UnitIs ==
    ASSUME file \in Files, NEW i \in Leaders, NEW p \in Nat, EndsAt(i, p)
    PROVE  /\ MembersOf(i) = {j \in Nals : i <= j /\ j < p}
           /\ UnitAt(i).first = NalFirst(i) /\ UnitAt(i).last = p - 1
           /\ UnitAt(i).key <=> \E j \in Nals : i <= j /\ j < p /\ Type(j) = Idr
           /\ UnitAt(i) \in UnitRecords
<1>1. /\ Leaders \subseteq Nals /\ Nals \subseteq Codes
      /\ i \in Codes /\ i \in Nat /\ Len(file) \in Nat
  BY FileIs, CodeIs DEF Leaders, Nals
<1>2. \A e \in Codes : e \in Nat /\ NalFirst(e) \in Nat /\ NalFirst(e) <= e
  BY CodeIs, NalFirstIs
<1>3. ASSUME NEW e \in Codes, NEW d \in Codes, e < d
      PROVE  e + 3 <= NalFirst(d) /\ e \in Nals
  <2>1. e + 3 <= NalFirst(d) /\ NalFirst(d) <= d /\ NalFirst(d) \in Nat /\ d + 2 <= Len(file)
    BY <1>3, CodeIs, NalFirstIs, NalFirstAfter
  <2>2. QED
    BY <1>1, <1>2, <2>1 DEF Nals
<1>4. \A e \in Codes : e \in Nals <=> e + 3 <= Len(file)
  BY DEF Nals
<1> DEFINE ends == {j \in Codes : j > i /\ (j \in Nals => j \in Leaders)}
<1>5. \A j \in Leaders : i < j => p <= j
  BY DEF EndsAt
<1>6. ASSUME \E d \in Codes : i < d /\ p = NalFirst(d) /\ (d \in Nals => d \in Leaders)
      PROVE  Until(ends) = p - 1 /\ \A j \in MembersOf(i) : j \in Nals /\ i <= j /\ j < p
  <2>1. PICK d \in Codes : i < d /\ p = NalFirst(d) /\ (d \in Nals => d \in Leaders)
    BY <1>6
  <2>2. d \in ends
    BY <1>1, <1>2, <2>1
  <2>3. ASSUME NEW k \in ends PROVE d <= k
    <3>1. CASE k < d
      <4>1. k + 3 <= p /\ k \in Nals
        BY <1>3, <2>1, <3>1
      <4>2. k \in Leaders /\ i < k /\ k \in Nat
        BY <1>1, <1>2, <4>1
      <4>3. QED
        BY <1>5, <4>1, <4>2
    <3>2. QED
      BY <1>2, <3>1
  <2>4. Until(ends) = p - 1
    BY <2>1, <2>2, <2>3, UntilFirst
  <2>5. ASSUME NEW j \in MembersOf(i) PROVE j \in Nals /\ i <= j /\ j < p
    <3>1. j \in Nals /\ j \in Codes /\ i <= j /\ \A k \in Leaders : i < k => j < k
      BY <1>1 DEF MembersOf
    <3>2. CASE d \in Leaders
      <4>1. j < d
        BY <2>1, <3>1, <3>2
      <4>2. j + 3 <= p
        BY <1>3, <2>1, <3>1, <4>1
      <4>3. QED
        BY <1>2, <3>1, <4>2
    <3>3. CASE d \notin Nals
      <4>1. j + 3 <= Len(file) /\ ~(d + 3 <= Len(file))
        BY <1>4, <3>1, <3>3
      <4>2. j < d
        BY <1>1, <1>2, <3>1, <4>1
      <4>3. j + 3 <= p
        BY <1>3, <2>1, <3>1, <4>2
      <4>4. QED
        BY <1>2, <3>1, <4>3
    <3>4. QED
      BY <2>1, <3>2, <3>3
  <2>6. QED
    BY <2>4, <2>5
<1>7. ASSUME p = Len(file) + 1, \A e \in Codes : e \in Nals
      PROVE  Until(ends) = p - 1 /\ \A j \in MembersOf(i) : j \in Nals /\ i <= j /\ j < p
  <2>1. ends = {}
    <3>1. ASSUME NEW k \in ends PROVE FALSE
      <4>1. k \in Leaders /\ i < k /\ k \in Nat /\ k + 2 <= Len(file)
        BY <1>1, <1>2, <1>7, CodeIs
      <4>2. QED
        BY <1>1, <1>5, <1>7, <4>1
    <3>2. QED
      BY <3>1
  <2>2. Until(ends) = p - 1
    BY <1>1, <1>7, <2>1 DEF Until
  <2>3. ASSUME NEW j \in MembersOf(i) PROVE j \in Nals /\ i <= j /\ j < p
    <3>1. j \in Nals /\ i <= j /\ j \in Nat /\ j + 2 <= Len(file)
      BY <1>1, CodeIs DEF MembersOf
    <3>2. QED
      BY <1>1, <1>7, <3>1
  <2>4. QED
    BY <2>2, <2>3
<1>8. Until(ends) = p - 1 /\ \A j \in MembersOf(i) : j \in Nals /\ i <= j /\ j < p
  BY <1>6, <1>7 DEF EndsAt
<1>9. ASSUME NEW j \in Nals, i <= j, j < p PROVE j \in MembersOf(i)
  <2>1. \A k \in Leaders : i < k => j < k
    BY <1>1, <1>2, <1>5, <1>9
  <2>2. QED
    BY <1>9, <2>1 DEF MembersOf
<1>10. MembersOf(i) = {j \in Nals : i <= j /\ j < p}
  BY <1>8, <1>9
<1>11. UnitAt(i) = [first |-> NalFirst(i), last |-> p - 1,
                    key |-> \E j \in MembersOf(i) : Type(j) = Idr]
  BY <1>8 DEF UnitAt
<1>12. NalFirst(i) \in Nat /\ p - 1 \in Int
  BY <1>1, <1>2
<1> HIDE DEF ends
<1>13. /\ UnitAt(i).first = NalFirst(i) /\ UnitAt(i).last = p - 1
       /\ UnitAt(i).key <=> \E j \in MembersOf(i) : Type(j) = Idr
       /\ UnitAt(i) \in UnitRecords
  <2> DEFINE key == \E j \in MembersOf(i) : Type(j) = Idr
             last == p - 1
  <2>1. UnitAt(i) = [first |-> NalFirst(i), last |-> last, key |-> key]
    BY <1>11
  <2>2. key \in BOOLEAN /\ last \in Int
    BY <1>12
  <2> HIDE DEF key, last
  <2>3. UnitAt(i) \in UnitRecords
    BY <1>12, <2>1, <2>2 DEF UnitRecords
  <2>4. UnitAt(i).first = NalFirst(i) /\ UnitAt(i).last = last /\ UnitAt(i).key = key
    BY <2>1
  <2>5. QED
    BY <2>3, <2>4 DEF key, last
<1>14. QED
  BY <1>10, <1>13

\* A complete unit that is returned goes on where the last one ended.
LEMMA UnitReturned ==
    ASSUME file \in Files, NEW fs \in Seq(UnitRecords), Made(fs),
           NEW i \in Leaders, NEW p \in Nat, i < p, EndsAt(i, p), Complete(i),
           ReturnedTo(fs, NalFirst(i)),
           NEW gs, gs = Append(fs, UnitAt(i))
    PROVE  gs \in Seq(UnitRecords) /\ gs # <<>> /\ Made(gs) /\ ReturnedTo(gs, p)
<1>1. /\ UnitAt(i) \in UnitRecords /\ UnitAt(i).first = NalFirst(i) /\ UnitAt(i).last = p - 1
  BY UnitIs
<1>2. /\ Leaders \subseteq Nals /\ Nals \subseteq Codes /\ i \in Codes
      /\ \A e \in Codes : e \in Nat /\ NalFirst(e) \in Nat /\ NalFirst(e) <= e
  BY CodeIs, NalFirstIs DEF Leaders, Nals
<1>3. Len(fs) \in Nat /\ (fs = <<>> <=> Len(fs) = 0)
  BY DEF UnitRecords
<1>4. /\ gs \in Seq(UnitRecords) /\ gs # <<>> /\ Len(gs) = Len(fs) + 1
      /\ \A k \in 1 .. Len(fs) : gs[k] = fs[k]
      /\ gs[Len(fs) + 1] = UnitAt(i)
  BY <1>1
<1>5. \A u : Returned(fs, u) => Returned(gs, u)
  BY <1>3, <1>4 DEF Returned
<1>6. Returned(gs, UnitAt(i))
  BY <1>3, <1>4 DEF Returned
<1>7. UnitAt(i) \in Units
  BY DEF Units
<1>8. \A k \in 1 .. Len(gs) : gs[k] \in Units
  BY <1>3, <1>4, <1>7 DEF Made
<1>9. ASSUME NEW k \in 1 .. Len(gs) - 1 PROVE gs[k + 1].first = gs[k].last + 1
  <2>1. CASE k = Len(fs)
    <3>1. fs # <<>> /\ gs[k] = fs[Len(fs)] /\ gs[k + 1] = UnitAt(i)
      BY <1>3, <1>4, <2>1
    <3>2. fs[Len(fs)].last + 1 = NalFirst(i)
      BY <3>1 DEF ReturnedTo
    <3>3. QED
      BY <1>1, <3>1, <3>2
  <2>2. CASE k # Len(fs)
    <3>1. /\ k \in 1 .. Len(fs) - 1 /\ k \in 1 .. Len(fs) /\ k + 1 \in 1 .. Len(fs)
      BY <1>3, <1>4, <2>2
    <3>2. gs[k] = fs[k] /\ gs[k + 1] = fs[k + 1]
      BY <1>4, <3>1
    <3>3. QED
      BY <3>1, <3>2 DEF Made
  <2>3. QED
    BY <2>1, <2>2
<1>10. ASSUME NEW u \in Units PROVE gs[1].first <= u.first
  <2>1. CASE fs # <<>>
    <3>1. gs[1] = fs[1]
      BY <1>3, <1>4, <2>1
    <3>2. QED
      BY <2>1, <3>1 DEF Made
  <2>2. CASE fs = <<>>
    <3>1. gs[1] = UnitAt(i)
      BY <1>3, <1>4, <2>2
    <3>2. PICK j \in Leaders : u = UnitAt(j)
      BY DEF Units
    <3>3. u.first = NalFirst(j)
      BY <3>2 DEF UnitAt
    <3>4. NalFirst(i) <= j
      BY <1>2, <2>2 DEF ReturnedTo
    <3>5. ~(j < i)
      <4>1. ASSUME j < i PROVE FALSE
        <5>1. j + 3 <= NalFirst(i)
          BY <1>2, <4>1, NalFirstAfter
        <5>2. QED
          BY <1>2, <3>4, <5>1
      <4>2. QED
        BY <4>1
    <3>6. CASE i < j
      <4>1. i + 3 <= NalFirst(j)
        BY <1>2, <3>6, NalFirstAfter
      <4>2. QED
        BY <1>1, <1>2, <3>1, <3>3, <4>1
    <3>7. CASE i = j
      BY <1>1, <1>2, <3>1, <3>3, <3>7
    <3>8. QED
      BY <1>2, <3>5, <3>6, <3>7
  <2>3. QED
    BY <2>1, <2>2
<1>11. Made(gs)
  BY <1>8, <1>9, <1>10 DEF Made
<1>12. ASSUME NEW j \in Leaders, j < p PROVE Returned(gs, UnitAt(j))
  <2>1. CASE j < i
    <3>1. j + 3 <= NalFirst(i)
      BY <1>2, <2>1, NalFirstAfter
    <3>2. j < NalFirst(i)
      BY <1>2, <3>1
    <3>3. QED
      BY <1>5, <3>2 DEF ReturnedTo
  <2>2. CASE j = i
    BY <1>6, <2>2
  <2>3. CASE i < j
    BY <1>2, <1>12, <2>3 DEF EndsAt
  <2>4. QED
    BY <1>2, <2>1, <2>2, <2>3
<1>13. gs[Len(gs)].last + 1 = p
  BY <1>1, <1>3, <1>4
<1>14. QED
  BY <1>4, <1>11, <1>12, <1>13 DEF ReturnedTo

\* The reader starts a new frame where the frame has a slice and the NAL unit opens a unit.
LEMMA StartsAt ==
    ASSUME NEW c \in Nals, c \in Nat, Header = c + 3, NalLast = NalEnd(c), NalLast \in Int,
           NEW vcl \in BOOLEAN
    PROVE  /\ StartsNew(Header, NalLast, vcl) <=> vcl /\ Opens(c)
           /\ NalType(file[Header]) = Type(c)
<1>1. NalType(file[Header]) = Type(c)
  BY DEF Type
<1>2. Header < NalLast <=> c + 4 <= NalEnd(c)
  OBVIOUS
<1>3. Header + 1 = c + 4
  OBVIOUS
<1>4. FirstMbIsZero(Header, NalLast) <=> c + 4 <= NalEnd(c) /\ file[c + 4] >= 128
  BY <1>2, <1>3 DEF FirstMbIsZero
<1>5. Slice(c) <=> Vcl(Type(c))
  BY DEF Slice
<1> HIDE DEF Type, Slice
<1>6. QED
  BY <1>1, <1>4, <1>5 DEF StartsNew, Opens

\* If it does, or there is no frame yet, that NAL unit leads a unit,
LEMMA Leading ==
    ASSUME file \in Files, NEW p \in Nat, NEW f, NEW i \in Leaders, Gathers(f, p, i),
           NEW c \in Nals, Coming(p, c)
    PROVE  Leads(c) <=> f.vcl /\ Opens(c)
<1>1. /\ Leaders \subseteq Nals /\ Nals \subseteq Codes
      /\ \A e \in Nals : e \in Nat
  BY CodeIs DEF Leaders, Nals
<1>2. i \in Nals /\ i < p /\ p <= c /\ i \in Nat /\ c \in Nat
  BY <1>1 DEF Gathers, Coming
<1>3. \A e \in Nals : e < c <=> e < p
  BY <1>1, <1>2 DEF Coming
<1>4. ASSUME f.vcl, Opens(c) PROVE Leads(c)
  <2>1. PICK j \in Nals : /\ i <= j /\ j < p /\ Slice(j)
                          /\ \A k \in Nals : j < k /\ k < p => ~Opens(k)
    BY <1>4 DEF Gathers
  <2>2. j < c /\ \A k \in Nals : j < k /\ k < c => ~Opens(k)
    BY <1>3, <2>1
  <2>3. QED
    BY <1>4, <2>1, <2>2 DEF Leads
<1>5. ASSUME Leads(c) PROVE f.vcl /\ Opens(c)
  <2>1. ~(\A j \in Nals : c <= j)
    BY <1>2
  <2>2. Opens(c)
    BY <1>5, <2>1 DEF Leads
  <2>3. PICK j \in Nals : j < c /\ Slice(j) /\ \A k \in Nals : j < k /\ k < c => ~Opens(k)
    BY <1>5, <2>1 DEF Leads
  <2>4. Leads(i)
    BY DEF Leaders
  <2>5. i <= j
    <3>1. CASE \A k \in Nals : i <= k
      BY <3>1
    <3>2. CASE Opens(i)
      <4>1. ~(j < i)
        BY <1>2, <2>3, <3>2
      <4>2. QED
        BY <1>1, <1>2, <4>1
    <3>3. QED
      BY <2>4, <3>1, <3>2 DEF Leads
  <2>6. j < p
    BY <1>3, <2>3
  <2>7. f.vcl
    BY <2>3, <2>5, <2>6 DEF Gathers
  <2>8. QED
    BY <2>2, <2>7
<1>6. QED
  BY <1>4, <1>5

\* and if not, it goes on with the unit in the making.
LEMMA GathersMore ==
    ASSUME file \in Files, NEW p \in Nat, NEW c \in Nals, Coming(p, c), p = NalFirst(c),
           NEW f \in [first : Nat, last : Int, key : BOOLEAN, vcl : BOOLEAN],
           NEW fs, Gathered(f, p, fs), ~(f.vcl /\ Opens(c)),
           NEW q \in Nat, c < q, \A e \in Codes : c < e => q <= e,
           NEW g, g = Appended(f, p, q - 1, Type(c))
    PROVE  /\ g \in [first : Nat, last : Int, key : BOOLEAN, vcl : BOOLEAN]
           /\ \E i \in Leaders : Gathers(g, q, i) /\ ReturnedTo(fs, NalFirst(i))
<1>1. /\ Leaders \subseteq Nals /\ Nals \subseteq Codes
      /\ \A e \in Codes : e \in Nat /\ NalFirst(e) \in Nat \ {0} /\ NalFirst(e) <= e
  BY CodeIs, NalFirstIs DEF Leaders, Nals
<1>2. p <= c /\ c \in Nat /\ c \in Codes /\ \A e \in Codes : p <= e => c <= e
  BY <1>1 DEF Coming
<1>3. \A e \in Nals : e < q <=> e < p \/ e = c
  <2> SUFFICES ASSUME NEW e \in Nals PROVE e < q <=> e < p \/ e = c
    OBVIOUS
  <2>1. e \in Codes /\ e \in Nat
    BY <1>1
  <2>2. p <= e => c <= e
    BY <1>2, <2>1
  <2>3. c < e => q <= e
    BY <2>1
  <2>4. QED
    BY <1>2, <2>1, <2>2, <2>3
<1>4. /\ g.first = (IF f.first = 0 THEN p ELSE f.first) /\ g.last = q - 1
      /\ g.key = (f.key \/ Type(c) = Idr) /\ g.vcl = (f.vcl \/ Slice(c))
  BY DEF Appended, Slice
<1>5. g \in [first : Nat, last : Int, key : BOOLEAN, vcl : BOOLEAN]
  <2> DEFINE key == f.key \/ Type(c) = Idr
             vcl == f.vcl \/ Vcl(Type(c))
             first == IF f.first = 0 THEN p ELSE f.first
             last == q - 1
  <2>1. key \in BOOLEAN /\ vcl \in BOOLEAN /\ first \in Nat /\ last \in Int
    OBVIOUS
  <2>2. g = [first |-> first, last |-> last, key |-> key, vcl |-> vcl]
    BY DEF Appended
  <2> HIDE DEF key, vcl, first, last
  <2>3. QED
    BY <2>1, <2>2
<1> HIDE DEF Type, Slice
<1>6. ASSUME NEW i \in Leaders, Gathers(f, p, i), ReturnedTo(fs, NalFirst(i))
      PROVE  Gathers(g, q, i)
  <2>1. ~Leads(c)
    BY <1>6, Leading
  <2>2. i \in Nals /\ i \in Codes /\ i \in Nat /\ i < p /\ f.first = NalFirst(i) /\ f.first # 0
    BY <1>1, <1>6 DEF Gathers
  <2>3. \A j \in Leaders : i < j => q <= j
    <3> SUFFICES ASSUME NEW j \in Leaders, i < j PROVE q <= j
      OBVIOUS
    <3>1. p <= j /\ j \in Nals /\ j \in Nat
      BY <1>1, <1>6 DEF Gathers
    <3>2. j # c
      BY <2>1 DEF Leaders
    <3>3. ~(j < q)
      BY <1>3, <3>1, <3>2
    <3>4. QED
      BY <3>1, <3>3
  <2>4. g.first = NalFirst(i) /\ g.last + 1 = q /\ i < q
    BY <1>2, <1>4, <2>2
  <2>5. g.key <=> \E j \in Nals : i <= j /\ j < q /\ Type(j) = Idr
    <3>1. f.key <=> \E j \in Nals : i <= j /\ j < p /\ Type(j) = Idr
      BY <1>6 DEF Gathers
    <3>2. i <= c
      BY <1>2, <2>2
    <3>3. QED
      BY <1>3, <1>4, <3>1, <3>2
  <2>6. \A j \in Nals : i <= j /\ j < q /\ Slice(j) => g.vcl
    <3>1. \A j \in Nals : i <= j /\ j < p /\ Slice(j) => f.vcl
      BY <1>6 DEF Gathers
    <3>2. QED
      BY <1>3, <1>4, <3>1
  <2>7. g.vcl => \E j \in Nals : /\ i <= j /\ j < q /\ Slice(j)
                                 /\ \A k \in Nals : j < k /\ k < q => ~Opens(k)
    <3>1. CASE Slice(c)
      <4>1. i <= c /\ c < q
        BY <1>2, <2>2
      <4>2. \A k \in Nals : ~(c < k /\ k < q)
        BY <1>1, <1>2, <1>3
      <4>3. QED
        BY <3>1, <4>1, <4>2
    <3>2. CASE f.vcl
      <4>1. PICK j \in Nals : /\ i <= j /\ j < p /\ Slice(j)
                              /\ \A k \in Nals : j < k /\ k < p => ~Opens(k)
        BY <1>6, <3>2 DEF Gathers
      <4>2. ~Opens(c)
        BY <3>2
      <4>3. QED
        BY <1>3, <4>1, <4>2
    <3>3. QED
      BY <1>4, <3>1, <3>2
  <2>8. QED
    BY <2>3, <2>4, <2>5, <2>6, <2>7 DEF Gathers
<1>7. ASSUME f = NoFrame, ReturnedTo(fs, p), Leads(c)
      PROVE  c \in Leaders /\ Gathers(g, q, c) /\ ReturnedTo(fs, NalFirst(c))
  <2>1. c \in Leaders
    BY <1>7 DEF Leaders
  <2>2. f.first = 0 /\ f.key = FALSE /\ f.vcl = FALSE
    BY <1>7 DEF NoFrame
  <2>3. \A j \in Leaders : c < j => q <= j
    BY <1>1
  <2>4. \A j \in Nals : c <= j /\ j < q <=> j = c
    BY <1>1, <1>2, <1>3
  <2>5. g.first = NalFirst(c) /\ g.last + 1 = q
    BY <1>4, <2>2
  <2>6. g.key <=> \E j \in Nals : c <= j /\ j < q /\ Type(j) = Idr
    BY <1>4, <2>2, <2>4
  <2>7. \A j \in Nals : c <= j /\ j < q /\ Slice(j) => g.vcl
    BY <1>4, <2>4
  <2>8. g.vcl => \E j \in Nals : /\ c <= j /\ j < q /\ Slice(j)
                                 /\ \A k \in Nals : j < k /\ k < q => ~Opens(k)
    <3>1. \A k \in Nals : ~(c < k /\ k < q)
      BY <1>1, <1>2, <2>4
    <3>2. QED
      BY <1>4, <2>2, <2>4, <3>1
  <2>9. QED
    BY <1>7, <2>1, <2>3, <2>5, <2>6, <2>7, <2>8 DEF Gathers
<1>8. QED
  BY <1>5, <1>6, <1>7 DEF Gathered

------------------------------------------------------------------------------
(* The steps of the reader                                                 *)

\* The file stays, so that the invariant is one of the other variables' new values.
LEMMA FineStays ==
    ASSUME file \in Files, file' = file, ReaderFine(reader', frame', frames')
    PROVE  ReaderInv'
<1>1. /\ Codes' = Codes /\ Nals' = Nals /\ Leaders' = Leaders /\ Units' = Units
      /\ \A i : NalFirst(i)' = NalFirst(i) /\ Type(i)' = Type(i)
      /\ \A i : (Slice(i)' <=> Slice(i)) /\ (Opens(i)' <=> Opens(i)) /\ (Leads(i)' <=> Leads(i))
      /\ \A i : UnitAt(i)' = UnitAt(i)
  BY FileStays
<1>2. ReaderTyped(reader, frame, frames)' /\ Made(frames)'
  BY <1>1 DEF ReaderFine, ReaderTyped, Made
<1>3. ASSUME ~reader'.done
      PROVE  Positioned(reader, frame, frames)' /\ Gathered(frame, reader.first, frames)'
  <2>1. Positioned(reader', frame', frames') /\ Gathered(frame', reader'.first, frames')
    BY <1>3 DEF ReaderFine
  <2>2. Positioned(reader, frame, frames)'
    BY <1>1, <2>1 DEF Positioned
  <2>3. \A i : Gathers(frame, reader.first, i)' <=> Gathers(frame', reader'.first, i)
    BY <1>1 DEF Gathers
  <2>4. \A p : ReturnedTo(frames, p)' <=> ReturnedTo(frames', p)
    BY <1>1 DEF ReturnedTo, Returned
  <2>5. \A c : Coming(reader.first, c)' <=> Coming(reader'.first, c)
    BY <1>1 DEF Coming
  <2>6. ReturnedTo(frames, reader.first)' <=> ReturnedTo(frames', reader'.first)
    BY <1>1 DEF ReturnedTo, Returned
  <2>7. \A i : ReturnedTo(frames, NalFirst(i))' <=> ReturnedTo(frames', NalFirst(i))
    BY <1>1 DEF ReturnedTo, Returned
  <2>8. Gathered(frame, reader.first, frames)'
    BY <1>1, <2>1, <2>3, <2>5, <2>6, <2>7 DEF Gathered
  <2>9. QED
    BY <2>2, <2>8
<1>4. ASSUME reader'.done PROVE Finished(frame, frames)'
  BY <1>1, <1>4 DEF ReaderFine, Finished, Returned
<1>5. QED
  BY <1>2, <1>3, <1>4 DEF ReaderInv, ReaderFine

\* Reading on changes nothing that was seen.
LEMMA FillFine ==
    ASSUME ReaderInv, ~reader.done, Fill
    PROVE  ReaderInv'
<1>1. file \in Files /\ file' = file /\ frame' = frame /\ frames' = frames
  BY DEF ReaderInv, Fill
<1>2. /\ ReaderTyped(reader, frame, frames) /\ Made(frames)
      /\ Positioned(reader, frame, frames) /\ Gathered(frame, reader.first, frames)
  BY DEF ReaderInv, ReaderFine
<1>3. /\ reader \in [first : Nat \ {0}, read : Nat, eof : BOOLEAN, done : BOOLEAN]
      /\ reader.read <= Len(file) /\ Len(file) \in Nat
  BY <1>1, <1>2, FileIs DEF ReaderTyped, Positioned
<1>4. /\ reader' \in [first : Nat \ {0}, read : Nat, eof : BOOLEAN, done : BOOLEAN]
      /\ reader'.first = reader.first /\ reader'.done = reader.done
      /\ reader'.read <= Len(file) /\ (reader'.eof => reader'.read = Len(file))
  <2>1. CASE reader.read = Len(file) /\ reader' = [reader EXCEPT !.eof = TRUE]
    BY <1>3, <2>1
  <2>2. ASSUME NEW n \in Chunks,
               reader' = [reader EXCEPT !.read = IF @ + n < Len(file) THEN @ + n ELSE Len(file)]
        PROVE  /\ reader' \in [first : Nat \ {0}, read : Nat, eof : BOOLEAN, done : BOOLEAN]
               /\ reader'.first = reader.first /\ reader'.done = reader.done
               /\ reader'.read <= Len(file) /\ reader'.eof = reader.eof
    <3> DEFINE m == IF reader.read + n < Len(file) THEN reader.read + n ELSE Len(file)
    <3>1. m \in Nat /\ m <= Len(file)
      BY <1>3, ReaderAssumption
    <3>2. reader' = [reader EXCEPT !.read = m]
      BY <2>2
    <3> HIDE DEF m
    <3>3. QED
      BY <1>3, <3>1, <3>2
  <2>3. ~reader.eof
    BY DEF Fill
  <2>4. QED
    BY <2>1, <2>2, <2>3 DEF Fill
<1>5. ReaderFine(reader', frame', frames')
  BY <1>1, <1>2, <1>4 DEF ReaderFine, ReaderTyped, Positioned
<1>6. QED
  BY <1>1, <1>5, FineStays

\* Skipping goes to the first code of the file.
LEMMA SkipFine == ASSUME ReaderInv, Skip PROVE ReaderInv'
<1>1. /\ file \in Files /\ file' = file /\ frame' = frame /\ frames' = frames
      /\ reader' = [reader EXCEPT !.first = Code.at] /\ Code.at > First /\ ~reader.done
  BY DEF ReaderInv, Skip, Reading
<1>2. /\ ReaderTyped(reader, frame, frames) /\ Made(frames)
      /\ Positioned(reader, frame, frames) /\ Gathered(frame, reader.first, frames)
  BY <1>1 DEF ReaderInv, ReaderFine
<1>3. First \in Nat \ {0} /\ First = reader.first
  BY <1>2 DEF ReaderTyped, First
<1>4. Code # NoCode /\ First # Code.at
  BY <1>1, <1>3 DEF NoCode
<1>5. PICK c \in Codes : /\ Coming(First, c) /\ Code.at = NalFirst(c)
                         /\ First = 1 /\ frames = <<>> /\ frame = NoFrame
  BY <1>1, <1>2, <1>4, CodeAhead
<1>6. NalFirst(c) \in Nat \ {0} /\ NalFirst(c) <= c /\ \A d \in Codes : d \in Nat \ {0} /\ c <= d
  BY <1>1, <1>5, CodeIs, NalFirstIs DEF Coming
<1>7. /\ reader' \in [first : Nat \ {0}, read : Nat, eof : BOOLEAN, done : BOOLEAN]
      /\ reader'.first = NalFirst(c) /\ reader'.done = reader.done
      /\ reader'.read = reader.read /\ reader'.eof = reader.eof
  BY <1>1, <1>2, <1>5, <1>6 DEF ReaderTyped
<1>8. Leaders \subseteq Nals /\ Nals \subseteq Codes
  BY DEF Leaders, Nals
<1>9. ReturnedTo(frames, NalFirst(c))
  BY <1>5, <1>6, <1>8 DEF ReturnedTo
<1>10. \A i \in Nals : Coming(NalFirst(c), i) => Leads(i)
  <2>1. ASSUME NEW i \in Nals, Coming(NalFirst(c), i) PROVE Leads(i)
    <3>1. i <= c /\ c <= i
      BY <1>6, <1>8, <2>1 DEF Coming
    <3>2. i = c
      BY <1>6, <1>8, <3>1
    <3>3. QED
      BY <1>6, <1>8, <3>2 DEF Leads
  <2>2. QED
    BY <2>1
<1>11. Gathered(frame, NalFirst(c), frames)
  BY <1>5, <1>9, <1>10 DEF Gathered
<1>12. Positioned(reader', frame, frames)
  BY <1>2, <1>7 DEF Positioned
<1>13. ReaderFine(reader', frame', frames')
  BY <1>1, <1>2, <1>7, <1>11, <1>12 DEF ReaderFine, ReaderTyped
<1>14. QED
  BY <1>1, <1>13, FineStays

\* The frame in the making is the unit it is returned as.
LEMMA UnitMade ==
    ASSUME file \in Files, NEW p \in Nat,
           NEW f \in [first : Nat, last : Int, key : BOOLEAN, vcl : BOOLEAN],
           NEW i \in Leaders, Gathers(f, p, i), EndsAt(i, p)
    PROVE  Result(f) = UnitAt(i)
<1>1. /\ UnitAt(i).first = NalFirst(i) /\ UnitAt(i).last = p - 1
      /\ UnitAt(i).key <=> \E j \in Nals : i <= j /\ j < p /\ Type(j) = Idr
      /\ UnitAt(i) \in UnitRecords
  BY UnitIs
<1>2. /\ f.first = NalFirst(i) /\ f.last + 1 = p
      /\ f.key <=> \E j \in Nals : i <= j /\ j < p /\ Type(j) = Idr
      /\ f.last \in Int /\ f.key \in BOOLEAN
  BY DEF Gathers
<1>3. f.last = UnitAt(i).last /\ f.first = UnitAt(i).first /\ f.key = UnitAt(i).key
  <2>1. UnitAt(i).key \in BOOLEAN
    BY <1>1 DEF UnitRecords
  <2>2. f.key = UnitAt(i).key
    BY <1>1, <1>2, <2>1
  <2>3. f.last = UnitAt(i).last
    BY <1>1, <1>2
  <2>4. QED
    BY <1>1, <1>2, <2>2, <2>3
<1>4. QED
  BY <1>1, <1>3 DEF Result, UnitRecords

\* A frame that is returned is a unit, and the reader goes on after it.
LEMMA ReturnFine ==
    ASSUME ReaderInv, ~reader.done, NEW p \in Nat \ {0},
           NEW f \in [first : Nat, last : Int, key : BOOLEAN, vcl : BOOLEAN], Return(f, p),
           NEW i \in Leaders, Gathers(f, p, i), EndsAt(i, p), Complete(i),
           ReturnedTo(frames, NalFirst(i)),
           \A c \in Nals : Coming(p, c) => Leads(c),
           (\E c \in Codes : p = NalFirst(c)) \/ p = Len(file) + 1
    PROVE  ReaderInv'
<1>1. /\ file \in Files /\ file' = file /\ frame' = NoFrame
      /\ frames' = Append(frames, Result(f)) /\ reader' = [reader EXCEPT !.first = p]
  BY DEF ReaderInv, Return
<1>2. /\ ReaderTyped(reader, frame, frames) /\ Made(frames) /\ Positioned(reader, frame, frames)
  BY DEF ReaderInv, ReaderFine
<1>3. Result(f) = UnitAt(i)
  BY <1>1, UnitMade
<1>4. i < p
  BY DEF Gathers
<1>5. frames \in Seq(UnitRecords) /\ frames' = Append(frames, UnitAt(i))
  BY <1>1, <1>2, <1>3 DEF ReaderTyped
<1>6. frames' \in Seq(UnitRecords) /\ Made(frames') /\ ReturnedTo(frames', p)
  BY <1>1, <1>2, <1>4, <1>5, UnitReturned
<1>7. /\ reader' \in [first : Nat \ {0}, read : Nat, eof : BOOLEAN, done : BOOLEAN]
      /\ reader'.first = p /\ reader'.done = reader.done
      /\ reader'.read = reader.read /\ reader'.eof = reader.eof
  BY <1>1, <1>2 DEF ReaderTyped
<1>8. frame' \in [first : Nat, last : Int, key : BOOLEAN, vcl : BOOLEAN]
  BY <1>1 DEF NoFrame
<1>9. Positioned(reader', frame', frames')
  BY <1>1, <1>2, <1>7 DEF Positioned
<1>10. Gathered(frame', p, frames')
  BY <1>1, <1>6 DEF Gathered
<1>11. ReaderFine(reader', frame', frames')
  BY <1>6, <1>7, <1>8, <1>9, <1>10 DEF ReaderFine, ReaderTyped
<1>12. QED
  BY <1>1, <1>11, FineStays

\* At the end nothing is left that should have been returned.
LEMMA EndFine ==
    ASSUME ReaderInv, NEW p \in Nat \ {0}, ReturnNothing(p),
           \A u \in Units : Returned(frames, u)
    PROVE  ReaderInv'
<1>1. /\ file \in Files /\ file' = file /\ frame' = NoFrame /\ frames' = frames
      /\ reader' = [reader EXCEPT !.first = p, !.done = TRUE]
  BY DEF ReaderInv, ReturnNothing
<1>2. ReaderTyped(reader, frame, frames) /\ Made(frames)
  BY DEF ReaderInv, ReaderFine
<1>3. /\ reader' \in [first : Nat \ {0}, read : Nat, eof : BOOLEAN, done : BOOLEAN]
      /\ reader'.done
  BY <1>1, <1>2 DEF ReaderTyped
<1>4. ReaderTyped(reader', frame', frames')
  BY <1>1, <1>2, <1>3 DEF ReaderTyped, NoFrame
<1>5. ReaderFine(reader', frame', frames')
  BY <1>1, <1>2, <1>3, <1>4 DEF ReaderFine, Finished
<1>6. QED
  BY <1>1, <1>5, FineStays

\* What the reader holds while it reads
LEMMA ReaderHolds ==
    ASSUME ReaderInv, ~reader.done
    PROVE  /\ file \in Files /\ ReaderTyped(reader, frame, frames) /\ Made(frames)
           /\ Positioned(reader, frame, frames) /\ Gathered(frame, First, frames)
           /\ First \in Nat \ {0} /\ reader.read \in Nat /\ reader.read <= Len(file)
           /\ Len(file) \in Nat /\ (reader.eof => reader.read = Len(file))
           /\ frame \in [first : Nat, last : Int, key : BOOLEAN, vcl : BOOLEAN]
           /\ Leaders \subseteq Nals /\ Nals \subseteq Codes
           /\ \A e \in Codes : /\ e \in Nat \ {0} /\ e + 2 <= Len(file)
                               /\ NalFirst(e) \in Nat \ {0} /\ NalFirst(e) <= e
           /\ \A e \in Nals : e + 3 <= Len(file)
<1>1. /\ file \in Files /\ ReaderTyped(reader, frame, frames) /\ Made(frames)
      /\ Positioned(reader, frame, frames) /\ Gathered(frame, First, frames)
  BY DEF ReaderInv, ReaderFine, First
<1>2. /\ First \in Nat \ {0} /\ reader.read \in Nat /\ reader.read <= Len(file)
      /\ Len(file) \in Nat /\ (reader.eof => reader.read = Len(file))
      /\ frame \in [first : Nat, last : Int, key : BOOLEAN, vcl : BOOLEAN]
  BY <1>1, FileIs DEF ReaderTyped, Positioned, First
<1>3. /\ Leaders \subseteq Nals /\ Nals \subseteq Codes
      /\ \A e \in Nals : e + 3 <= Len(file)
  BY DEF Leaders, Nals
<1>4. \A e \in Codes : /\ e \in Nat \ {0} /\ e + 2 <= Len(file)
                       /\ NalFirst(e) \in Nat \ {0} /\ NalFirst(e) <= e
  BY <1>1, CodeIs, NalFirstIs
<1>5. QED
  BY <1>1, <1>2, <1>3, <1>4

\* A unit begins before the reader's place: the frame in the making ends there.
LEMMA NewUnitFine == ASSUME ReaderInv, NewUnit PROVE ReaderInv'
<1>1. ~reader.done /\ Whole /\ StartsNew(Header, NalLast, frame.vcl) /\ Return(frame, First)
  BY DEF NewUnit, Whole, AtNal, Reading
<1>2. /\ file \in Files /\ ReaderTyped(reader, frame, frames) /\ Made(frames)
      /\ Positioned(reader, frame, frames) /\ Gathered(frame, First, frames)
      /\ First \in Nat \ {0}
      /\ frame \in [first : Nat, last : Int, key : BOOLEAN, vcl : BOOLEAN]
      /\ Leaders \subseteq Nals /\ Nals \subseteq Codes
      /\ \A e \in Codes : e \in Nat \ {0} /\ NalFirst(e) \in Nat \ {0} /\ NalFirst(e) <= e
  BY <1>1, ReaderHolds
<1>3. PICK c \in Nals : /\ Coming(First, c) /\ First = NalFirst(c) /\ Header = c + 3
                        /\ NalLast = NalEnd(c) /\ NalLast \in Int
  BY <1>1, <1>2, NalAhead
<1>4. c \in Nat /\ c \in Codes
  BY <1>2, <1>3
<1>5. frame.vcl /\ Opens(c)
  BY <1>1, <1>2, <1>3, <1>4, StartsAt
<1>6. PICK i \in Leaders : Gathers(frame, First, i) /\ ReturnedTo(frames, NalFirst(i))
  <2>1. frame # NoFrame
    BY <1>5 DEF NoFrame
  <2>2. QED
    BY <1>2, <2>1 DEF Gathered
<1>7. Leads(c) /\ c \in Leaders
  <2>1. Leads(c)
    BY <1>2, <1>3, <1>5, <1>6, Leading
  <2>2. QED
    BY <1>3, <2>1 DEF Leaders
<1>8. EndsAt(i, First)
  <2>1. i \in Nat /\ i < First /\ \A j \in Leaders : i < j => First <= j
    BY <1>2, <1>6 DEF Gathers
  <2>2. i < c
    BY <1>2, <1>3, <1>4, <2>1
  <2>3. QED
    BY <1>3, <1>4, <1>7, <2>1, <2>2 DEF EndsAt
<1>9. Complete(i)
  <2>1. PICK j \in Nals : i <= j /\ j < First /\ Slice(j)
    BY <1>5, <1>6 DEF Gathers
  <2>2. MembersOf(i) = {k \in Nals : i <= k /\ k < First}
    <3>1. First \in Nat
      BY <1>2
    <3>2. QED
      BY <1>2, <1>8, <3>1, UnitIs
  <2>3. QED
    BY <2>1, <2>2 DEF Complete
<1>10. \A e \in Nals : Coming(First, e) => Leads(e)
  <2>1. ASSUME NEW e \in Nals, Coming(First, e) PROVE e = c
    BY <1>2, <1>3, <1>4, <2>1 DEF Coming
  <2>2. QED
    BY <1>7, <2>1
<1>11. QED
  BY <1>1, <1>2, <1>3, <1>4, <1>6, <1>8, <1>9, <1>10, ReturnFine

\* Where only a bare code is left, or none: the frame in the making ends there.
LEMMA EndWithoutFine == ASSUME ReaderInv, EndWithout PROVE ReaderInv'
<1>1. /\ ~reader.done /\ Short /\ reader.eof /\ Code.at \in {0, First}
      /\ IF frame.first # 0 THEN Return(frame, First) ELSE ReturnNothing(First)
  BY DEF EndWithout, Reading
<1>2. /\ file \in Files /\ ReaderTyped(reader, frame, frames) /\ Made(frames)
      /\ Positioned(reader, frame, frames) /\ Gathered(frame, First, frames)
      /\ First \in Nat \ {0} /\ reader.read = Len(file) /\ Len(file) \in Nat
      /\ frame \in [first : Nat, last : Int, key : BOOLEAN, vcl : BOOLEAN]
      /\ Leaders \subseteq Nals /\ Nals \subseteq Codes
      /\ \A e \in Codes : /\ e \in Nat \ {0} /\ e + 2 <= Len(file)
                          /\ NalFirst(e) \in Nat \ {0} /\ NalFirst(e) <= e
      /\ \A e \in Nals : e + 3 <= Len(file)
  BY <1>1, ReaderHolds
<1>3. \/ \A c \in Codes : ~(First <= c)
      \/ \E c \in Codes : Coming(First, c) /\ First = NalFirst(c) /\ c \notin Nals
  <2>1. CASE Code = NoCode /\ \A c \in Codes : First <= c => reader.read < c + 2
    <3>1. ASSUME NEW c \in Codes, First <= c PROVE FALSE
      BY <1>2, <2>1, <3>1
    <3>2. QED
      BY <3>1
  <2>2. ASSUME NEW c \in Codes, Coming(First, c), Code.at = NalFirst(c),
               First = Code.at => Header = c + 3, c + 2 <= reader.read
        PROVE  Coming(First, c) /\ First = NalFirst(c) /\ c \notin Nals
    <3>1. NalFirst(c) # 0 /\ First = NalFirst(c) /\ Header = c + 3
      BY <1>1, <1>2, <2>2
    <3>2. Code # NoCode
      BY <2>2, <3>1 DEF NoCode
    <3>3. c + 3 > Len(file)
      BY <1>1, <1>2, <3>1, <3>2 DEF Short
    <3>4. ~(c + 3 <= Len(file))
      BY <1>2, <3>3
    <3>5. QED
      BY <1>2, <2>2, <3>1, <3>4
  <2>3. QED
    BY <1>2, <2>1, <2>2, CodeAhead
<1>4. \A e \in Nals : e < First
  <2>1. CASE \A c \in Codes : ~(First <= c)
    BY <1>2, <2>1
  <2>2. ASSUME NEW c \in Codes, Coming(First, c), c \notin Nals, NEW e \in Nals
        PROVE  e < First
    <3>1. c + 3 > Len(file) /\ e + 3 <= Len(file) /\ e \in Codes
      BY <1>2, <2>2 DEF Nals
    <3>2. e < c
      BY <1>2, <3>1
    <3>3. ~(First <= e)
      BY <1>2, <2>2, <3>1, <3>2 DEF Coming
    <3>4. QED
      BY <1>2, <3>1, <3>3
  <2>3. QED
    BY <1>3, <2>1, <2>2
<1>5. CASE frame.first # 0
  <2>1. frame # NoFrame /\ Return(frame, First)
    BY <1>1, <1>5 DEF NoFrame
  <2>2. PICK i \in Leaders : Gathers(frame, First, i) /\ ReturnedTo(frames, NalFirst(i))
    BY <1>2, <2>1 DEF Gathered
  <2>3. \E d \in Codes : First = NalFirst(d)
    <3>1. ~(frame = NoFrame)
      BY <2>1
    <3>2. QED
      BY <1>2, <3>1 DEF Positioned, First
  <2>4. PICK c \in Codes : Coming(First, c) /\ First = NalFirst(c) /\ c \notin Nals
    BY <1>2, <1>3, <2>3
  <2>5. EndsAt(i, First)
    <3>1. i \in Nat /\ i < First /\ \A j \in Leaders : i < j => First <= j
      BY <1>2, <2>2 DEF Gathers
    <3>2. i < c
      BY <1>2, <2>4, <3>1
    <3>3. QED
      BY <2>4, <3>1, <3>2 DEF EndsAt
  <2>6. Complete(i)
    BY <2>4 DEF Complete
  <2>7. \A e \in Nals : ~Coming(First, e)
    <3>1. ASSUME NEW e \in Nals, Coming(First, e) PROVE FALSE
      <4>1. First <= e /\ e < First /\ e \in Nat
        BY <1>2, <1>4, <3>1 DEF Coming
      <4>2. QED
        BY <1>2, <4>1
    <3>2. QED
      BY <3>1
  <2>8. QED
    BY <1>1, <1>2, <2>1, <2>2, <2>3, <2>5, <2>6, <2>7, ReturnFine
<1>6. CASE frame.first = 0
  <2>1. ReturnNothing(First)
    BY <1>1, <1>6
  <2>2. ReturnedTo(frames, First)
    <3>1. ASSUME NEW i \in Leaders, Gathers(frame, First, i) PROVE FALSE
      BY <1>2, <1>6, <3>1 DEF Gathers
    <3>2. QED
      BY <1>2, <3>1 DEF Gathered
  <2>3. ASSUME NEW u \in Units PROVE Returned(frames, u)
    <3>1. PICK j \in Leaders : u = UnitAt(j)
      BY DEF Units
    <3>2. j < First
      BY <1>2, <1>4
    <3>3. QED
      BY <2>2, <3>1, <3>2 DEF ReturnedTo
  <2>4. QED
    BY <1>2, <2>1, <2>3, EndFine
<1>7. QED
  BY <1>5, <1>6

\* A NAL unit goes into the frame in the making; the last one ends it.
LEMMA AppendNalFine == ASSUME ReaderInv, AppendNal PROVE ReaderInv'
<1> DEFINE c0 == NalType(file[Header])
           g == Appended(frame, First, NalLast, c0)
<1>1. ~reader.done /\ Whole /\ ~StartsNew(Header, NalLast, frame.vcl)
  BY DEF AppendNal, Whole, AtNal, Reading
<1>2. /\ file \in Files /\ ReaderTyped(reader, frame, frames) /\ Made(frames)
      /\ Positioned(reader, frame, frames) /\ Gathered(frame, First, frames)
      /\ First \in Nat \ {0} /\ reader.read \in Nat /\ Len(file) \in Nat
      /\ frame \in [first : Nat, last : Int, key : BOOLEAN, vcl : BOOLEAN]
      /\ Leaders \subseteq Nals /\ Nals \subseteq Codes
      /\ \A e \in Codes : /\ e \in Nat \ {0} /\ e + 2 <= Len(file)
                          /\ NalFirst(e) \in Nat \ {0} /\ NalFirst(e) <= e
      /\ \A e \in Nals : e + 3 <= Len(file)
  BY <1>1, ReaderHolds
<1>3. PICK c \in Nals :
              /\ Coming(First, c) /\ First = NalFirst(c) /\ Header = c + 3
              /\ NalLast = NalEnd(c) /\ NalLast \in Int
              /\ \/ \E d \in Codes :
                       /\ NextNal # NoCode /\ NextNal.at = NalFirst(d)
                       /\ c < d /\ (\A e \in Codes : c < e => d <= e)
                       /\ NalLast = NalFirst(d) - 1
                 \/ /\ NextNal = NoCode /\ reader.read = Len(file) /\ NalLast = Len(file)
                    /\ \A e \in Codes : e <= c
  BY <1>1, <1>2, NalAhead
<1>4. c \in Nat /\ c \in Codes
  BY <1>2, <1>3
<1>5. c0 = Type(c) /\ ~(frame.vcl /\ Opens(c))
  BY <1>1, <1>2, <1>3, <1>4, StartsAt
<1> HIDE DEF c0
<1>6. ASSUME NEW q \in Nat, c < q, \A e \in Codes : c < e => q <= e, NalLast = q - 1
      PROVE  /\ g \in [first : Nat, last : Int, key : BOOLEAN, vcl : BOOLEAN]
             /\ \E i \in Leaders : Gathers(g, q, i) /\ ReturnedTo(frames, NalFirst(i))
  <2>1. g = Appended(frame, First, q - 1, Type(c)) /\ First \in Nat
    BY <1>2, <1>5, <1>6
  <2> HIDE DEF g
  <2>2. QED
    BY <1>2, <1>3, <1>5, <1>6, <2>1, GathersMore
<1>7. IF NextNal # NoCode
      THEN /\ frame' = g
           /\ reader' = [reader EXCEPT !.first = NextNal.at]
           /\ UNCHANGED <<file, frames, pass>>
      ELSE IF g.vcl THEN Return(g, reader.read + 1) ELSE ReturnNothing(reader.read + 1)
  BY DEF AppendNal, c0
<1> HIDE DEF g
<1>8. ASSUME NEW d \in Codes, NextNal # NoCode, NextNal.at = NalFirst(d),
             c < d, \A e \in Codes : c < e => d <= e, NalLast = NalFirst(d) - 1
      PROVE  ReaderInv'
  <2> DEFINE q == NalFirst(d)
  <2>1. q \in Nat \ {0} /\ c < q /\ q <= d
    <3>1. c + 3 <= NalFirst(d)
      BY <1>2, <1>4, <1>8, NalFirstAfter
    <3>2. QED
      BY <1>2, <1>4, <3>1
  <2>2. \A e \in Codes : c < e => q <= e
    <3>1. ASSUME NEW e \in Codes, c < e PROVE q <= e
      <4>1. d <= e /\ e \in Nat /\ d \in Nat
        BY <1>2, <1>8, <3>1
      <4>2. QED
        BY <2>1, <4>1
    <3>2. QED
      BY <3>1
  <2>3. /\ g \in [first : Nat, last : Int, key : BOOLEAN, vcl : BOOLEAN]
        /\ \E i \in Leaders : Gathers(g, q, i) /\ ReturnedTo(frames, NalFirst(i))
    BY <1>6, <1>8, <2>1, <2>2
  <2>4. /\ frame' = g /\ reader' = [reader EXCEPT !.first = q] /\ file' = file /\ frames' = frames
    BY <1>7, <1>8
  <2>5. /\ reader' \in [first : Nat \ {0}, read : Nat, eof : BOOLEAN, done : BOOLEAN]
        /\ reader'.first = q /\ reader'.done = reader.done
        /\ reader'.read = reader.read /\ reader'.eof = reader.eof
    <3> HIDE DEF q
    <3>1. QED
      BY <1>2, <2>1, <2>4 DEF ReaderTyped
  <2>6. Positioned(reader', frame', frames')
    BY <1>2, <2>5 DEF Positioned
  <2>7. Gathered(frame', reader'.first, frames')
    BY <2>3, <2>4, <2>5 DEF Gathered
  <2>8. ReaderFine(reader', frame', frames')
    BY <1>1, <1>2, <2>3, <2>4, <2>5, <2>6, <2>7 DEF ReaderFine, ReaderTyped
  <2>9. QED
    BY <1>2, <2>4, <2>8, FineStays
<1>9. ASSUME NextNal = NoCode, reader.read = Len(file), NalLast = Len(file),
             \A e \in Codes : e <= c
      PROVE  ReaderInv'
  <2> DEFINE q == Len(file) + 1
  <2>1. q \in Nat \ {0} /\ c < q /\ reader.read + 1 = q /\ NalLast = q - 1
    BY <1>2, <1>4, <1>9
  <2>2. \A e \in Codes : ~(c < e) /\ ~(q <= e)
    BY <1>2, <1>4, <1>9
  <2>3. \A e \in Codes : e \in Nals
    <3>1. ASSUME NEW e \in Codes PROVE e + 3 <= Len(file)
      BY <1>2, <1>3, <1>4, <1>9
    <3>2. QED
      BY <3>1 DEF Nals
  <2>4. PICK i \in Leaders : Gathers(g, q, i) /\ ReturnedTo(frames, NalFirst(i))
    BY <1>6, <2>1, <2>2
  <2>5. g \in [first : Nat, last : Int, key : BOOLEAN, vcl : BOOLEAN]
    BY <1>6, <2>1, <2>2
  <2>6. EndsAt(i, q)
    BY <2>3, <2>4 DEF EndsAt, Gathers
  <2>7. MembersOf(i) = {j \in Nals : i <= j /\ j < q}
    <3>1. q \in Nat
      BY <2>1
    <3>2. QED
      BY <1>2, <2>6, <3>1, UnitIs
  <2>8. Complete(i) <=> g.vcl
    <3>1. Codes = Nals
      BY <1>2, <2>3
    <3>2. g.vcl <=> \E j \in Nals : i <= j /\ j < q /\ Slice(j)
      BY <2>4 DEF Gathers
    <3>3. QED
      BY <2>7, <3>1, <3>2 DEF Complete
  <2>9. CASE g.vcl
    <3>1. Return(g, q)
      BY <1>7, <1>9, <2>1, <2>9
    <3>2. \A e \in Nals : ~Coming(q, e)
      BY <1>2, <2>2 DEF Coming
    <3>3. QED
      BY <1>1, <2>1, <2>4, <2>5, <2>6, <2>8, <2>9, <3>1, <3>2, ReturnFine
  <2>10. CASE ~g.vcl
    <3>1. ReturnNothing(q)
      BY <1>7, <1>9, <2>1, <2>10
    <3>2. ASSUME NEW u \in Units PROVE Returned(frames, u)
      <4>1. PICK j \in Leaders : Complete(j) /\ u = UnitAt(j)
        BY DEF Units
      <4>2. i \in Codes /\ j \in Codes /\ i \in Nat /\ j \in Nat
        BY <1>2
      <4>3. j # i /\ ~(i < j)
        BY <1>2, <2>2, <2>4, <2>8, <2>10, <4>1 DEF Gathers
      <4>4. j < i
        BY <4>2, <4>3
      <4>5. j + 3 <= NalFirst(i)
        BY <1>2, <4>2, <4>4, NalFirstAfter
      <4>6. j < NalFirst(i)
        BY <1>2, <4>2, <4>5
      <4>7. QED
        BY <2>4, <4>1, <4>6 DEF ReturnedTo
    <3>3. QED
      BY <2>1, <3>1, <3>2, EndFine
  <2>11. QED
    BY <2>9, <2>10
<1>10. QED
  BY <1>3, <1>8, <1>9

\* A pass begins with an empty buffer and no frame.
LEMMA PassBegins ==
    ASSUME file \in Files
    PROVE  ReaderFine([first |-> 1, read |-> 0, eof |-> FALSE, done |-> FALSE], NoFrame, <<>>)
<1> DEFINE r == [first |-> 1, read |-> 0, eof |-> FALSE, done |-> FALSE]
<1>1. /\ r \in [first : Nat \ {0}, read : Nat, eof : BOOLEAN, done : BOOLEAN]
      /\ r.first = 1 /\ r.read = 0 /\ r.eof = FALSE /\ r.done = FALSE
  OBVIOUS
<1>2. Len(file) \in Nat
  BY FileIs
<1>3. ReaderTyped(r, NoFrame, <<>>)
  BY <1>1 DEF ReaderTyped, NoFrame
<1>4. Made(<<>>)
  BY DEF Made
<1>5. Positioned(r, NoFrame, <<>>)
  BY <1>1, <1>2 DEF Positioned
<1>6. /\ Leaders \subseteq Nals /\ Nals \subseteq Codes
      /\ \A e \in Codes : e \in Nat \ {0}
  BY CodeIs DEF Leaders, Nals
<1>7. ReturnedTo(<<>>, 1)
  BY <1>6 DEF ReturnedTo
<1>8. \A i \in Nals : Coming(1, i) => Leads(i)
  BY <1>6 DEF Coming, Leads
<1>9. Gathered(NoFrame, 1, <<>>)
  BY <1>7, <1>8 DEF Gathered
<1> HIDE DEF r
<1>10. ReaderFine(r, NoFrame, <<>>)
  BY <1>1, <1>3, <1>4, <1>5, <1>9 DEF ReaderFine
<1>11. QED
  BY <1>10 DEF r

\* Another pass begins like the first.
LEMMA RewindFine == ASSUME ReaderInv, RewindFile PROVE ReaderInv'
<1>1. /\ file \in Files /\ file' = file /\ frames' = <<>> /\ frame' = frame
      /\ reader' = [first |-> 1, read |-> 0, eof |-> FALSE, done |-> FALSE]
  BY DEF ReaderInv, RewindFile
<1>2. frame = NoFrame
  BY DEF ReaderInv, ReaderFine, Finished, RewindFile
<1>3. QED
  BY <1>1, <1>2, PassBegins, FineStays

\* Every step of the reader keeps its invariant.
LEMMA ReaderSteps == ASSUME ReaderInv, [ReaderNext]_readerVars PROVE ReaderInv'
<1>1. CASE NeedMore \/ NeedEnd
  BY <1>1, FillFine DEF NeedMore, NeedEnd, AtNal, Reading
<1>2. CASE EndWithout
  BY <1>2, EndWithoutFine
<1>3. CASE Skip
  BY <1>3, SkipFine
<1>4. CASE NewUnit
  BY <1>4, NewUnitFine
<1>5. CASE AppendNal
  BY <1>5, AppendNalFine
<1>6. CASE RewindFile
  BY <1>6, RewindFine
<1>7. CASE UNCHANGED readerVars
  <2>1. file \in Files /\ file' = file /\ ReaderFine(reader', frame', frames')
    BY <1>7 DEF readerVars, ReaderInv
  <2>2. QED
    BY <2>1, FineStays
<1>8. QED
  BY <1>1, <1>2, <1>3, <1>4, <1>5, <1>6, <1>7 DEF ReaderNext

\* The reader's invariant.
LEMMA AlwaysReads == ReaderSpec => []ReaderInv
<1>1. ReaderInit => ReaderInv
  BY PassBegins DEF ReaderInit, ReaderInv
<1>2. ReaderInv /\ [ReaderNext]_readerVars => ReaderInv'
  BY ReaderSteps
<1>3. QED
  BY <1>1, <1>2, PTL DEF ReaderSpec

\* annexb_reader_read_frame(), for any file and any way it comes into the buffer: what is
\* returned is the file's access units, in order, without gaps, and at the end all of them.
THEOREM FramesAlwaysUnits == ReaderSpec => []FramesAreUnits
<1>1. ASSUME ReaderInv PROVE FramesAreUnits
  <2>1. Made(frames)
    BY <1>1 DEF ReaderInv, ReaderFine
  <2>2. ASSUME reader.done PROVE Units = {frames[k] : k \in 1 .. Len(frames)}
    <3>1. \A u \in Units : Returned(frames, u)
      BY <1>1, <2>2 DEF ReaderInv, ReaderFine, Finished
    <3>2. QED
      BY <2>1, <3>1 DEF Made, Returned
  <2>3. QED
    BY <2>1, <2>2 DEF Made, FramesAreUnits
<1>2. QED
  BY <1>1, AlwaysReads, PTL
=============================================================================
