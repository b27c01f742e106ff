------------------------------- MODULE AnnexB -------------------------------
(***************************************************************************)
(* The H.264 reader of the desktop device demo                             *)
(*   src/device_demo_streamer.c, annexb_reader_*                           *)
(*                                                                         *)
(* It cuts a byte stream into access units while it has read only a part   *)
(* of it: its buffer ends anywhere, in a start code or before one.  Bytes  *)
(* are modelled by the few values the reader tells apart, the buffer by    *)
(* where it begins and ends in the file, a frame by where it begins and    *)
(* ends and whether it is a key frame.                                     *)
(***************************************************************************)
EXTENDS Integers, Sequences, FiniteSets

CONSTANTS
    Files,      \* what the file may hold
    Chunks,     \* what one fread() may return, the end of the file apart
    MaxPasses   \* how often the file is read

Bytes == 0 .. 255

ASSUME ReaderAssumption ==
    /\ Files \subseteq Seq(Bytes)
    /\ Chunks \subseteq Nat \ {0} /\ Chunks # {}
    /\ MaxPasses \in Nat \ {0}

VARIABLES
    file,
    reader,     \* annexb_reader_t: the buffer holds bytes first .. read of the file
    frame,      \* the access unit in the making
    frames,     \* those this pass has returned
    pass

readerVars == <<file, reader, frame, frames, pass>>

NalType(byte) == byte % 32
Vcl(type)     == type \in 1 .. 5
Idr           == 5

\* Supplemental information, parameter sets and delimiters
Begins(type)  == type \in 6 .. 9

NoCode == [at |-> 0, prefix |-> 0]

\* Mutant: four bytes are looked at, and that they are there is not checked.
StartCodeLazy(from, last) ==
    LET Zeros(i) == file[i] = 0 /\ file[i + 1] = 0
        Long(i)  == i + 3 <= last /\ file[i + 2] = 0 /\ file[i + 3] = 1
        Short(i) == i + 3 <= last /\ file[i + 2] = 1
        codes    == {i \in from .. last - 2 : Zeros(i) /\ (Long(i) \/ Short(i))}
        i        == CHOOSE i \in codes : \A j \in codes : i <= j
    IN  IF codes = {} THEN NoCode ELSE [at |-> i, prefix |-> IF Long(i) THEN 4 ELSE 3]

\* find_start_code(), in bytes from .. last of the file
StartCode(from, last) ==
    LET Zeros(i) == file[i] = 0 /\ file[i + 1] = 0
        Long(i)  == i + 3 <= last /\ file[i + 2] = 0 /\ file[i + 3] = 1
        Short(i) == file[i + 2] = 1
        codes    == {i \in from .. last - 2 : Zeros(i) /\ (Long(i) \/ Short(i))}
        i        == CHOOSE i \in codes : \A j \in codes : i <= j
    IN  IF codes = {} THEN NoCode ELSE [at |-> i, prefix |-> IF Long(i) THEN 4 ELSE 3]

\* nal_first_mb_is_zero(), of the NAL unit first .. last whose header is at h: the
\* Exp-Golomb code of zero is a single 1, the first bit of the payload.
FirstMbIsZero(h, last) == h < last /\ file[h + 1] >= 128

\* nal_starts_new_access_unit()
StartsNew(h, last, hasVcl) ==
    LET type == NalType(file[h])
    IN  hasVcl /\ (Begins(type) \/ (Vcl(type) /\ FirstMbIsZero(h, last)))

NoFrame == [first |-> 0, last |-> 0, key |-> FALSE, vcl |-> FALSE]

\* frame_append(), and what a NAL unit makes of the frame
Appended(f, first, last, type) ==
    [first |-> IF f.first = 0 THEN first ELSE f.first,
     last  |-> last,
     key   |-> f.key \/ type = Idr,
     vcl   |-> f.vcl \/ Vcl(type)]

Result(f) == [first |-> f.first, last |-> f.last, key |-> f.key]

------------------------------------------------------------------------------
(* annexb_reader_read_frame(), an iteration of its loop at a time          *)

First   == reader.first
Code    == StartCode(First, reader.read)
Header  == First + Code.prefix
NextNal == StartCode(Header, reader.read)

\* annexb_reader_fill()
Fill ==
    /\ ~reader.eof
    /\ IF reader.read = Len(file)
       THEN reader' = [reader EXCEPT !.eof = TRUE]
       ELSE \E n \in Chunks :
                reader' = [reader EXCEPT !.read =
                              IF @ + n < Len(file) THEN @ + n ELSE Len(file)]
    /\ UNCHANGED <<file, frame, frames, pass>>

\* 1: a frame; the next call begins with none
Return(f, from) ==
    /\ frames' = Append(frames, Result(f))
    /\ frame' = NoFrame
    /\ reader' = [reader EXCEPT !.first = from]
    /\ UNCHANGED <<file, pass>>

\* 0: the end, where what has no slice is dropped
ReturnNothing(from) ==
    /\ frame' = NoFrame
    /\ reader' = [reader EXCEPT !.first = from, !.done = TRUE]
    /\ UNCHANGED <<file, frames, pass>>

Reading == ~reader.done

\* There is no start code, or nothing behind it: more is needed.
Short == Code = NoCode \/ Header > reader.read

NeedMore == Reading /\ Short /\ Code.at \in {0, First} /\ Fill

EndWithout ==
    /\ Reading /\ Short /\ Code.at \in {0, First}
    /\ reader.eof
    /\ IF frame.first # 0 THEN Return(frame, First) ELSE ReturnNothing(First)

\* What comes before the first start code is skipped.
Skip ==
    /\ Reading
    /\ Code.at > First
    /\ reader' = [reader EXCEPT !.first = Code.at]
    /\ UNCHANGED <<file, frame, frames, pass>>

AtNal == Reading /\ ~Short /\ Code.at = First

\* The NAL unit ends where the next begins: until that is seen, read on.
NeedEnd == AtNal /\ NextNal = NoCode /\ Fill

Whole   == AtNal /\ (NextNal # NoCode \/ reader.eof)
NalLast == IF NextNal = NoCode THEN reader.read ELSE NextNal.at - 1

NewUnit ==
    /\ Whole
    /\ StartsNew(Header, NalLast, frame.vcl)
    /\ Return(frame, First)

AppendNal ==
    /\ Whole
    /\ ~StartsNew(Header, NalLast, frame.vcl)
    /\ LET f == Appended(frame, First, NalLast, NalType(file[Header])) IN
       IF NextNal # NoCode
       THEN /\ frame' = f
            /\ reader' = [reader EXCEPT !.first = NextNal.at]
            /\ UNCHANGED <<file, frames, pass>>
       ELSE IF f.vcl THEN Return(f, reader.read + 1) ELSE ReturnNothing(reader.read + 1)

\* annexb_reader_reset(), when the loop begins again
RewindFile ==
    /\ reader.done
    /\ pass < MaxPasses
    /\ pass' = pass + 1
    /\ reader' = [first |-> 1, read |-> 0, eof |-> FALSE, done |-> FALSE]
    /\ frames' = <<>>
    /\ UNCHANGED <<file, frame>>

ReaderInit ==
    /\ file \in Files
    /\ reader = [first |-> 1, read |-> 0, eof |-> FALSE, done |-> FALSE]
    /\ frame = NoFrame
    /\ frames = <<>>
    /\ pass = 1

ReaderNext == NeedMore \/ EndWithout \/ Skip \/ NeedEnd \/ NewUnit \/ AppendNal \/ RewindFile

ReaderSpec == ReaderInit /\ [][ReaderNext]_readerVars

------------------------------------------------------------------------------
(* What the file holds, seen at once                                       *)

Codes == {i \in 1 .. Len(file) - 2 : file[i] = 0 /\ file[i + 1] = 0 /\ file[i + 2] = 1}

\* A NAL unit begins at its start code, and with the zero before it.
NalFirst(i) == IF i > 1 /\ file[i - 1] = 0 THEN i - 1 ELSE i

\* What goes on to the first of some later codes, or to the end of the file
Until(later) ==
    IF later = {} THEN Len(file) ELSE NalFirst(CHOOSE j \in later : \A k \in later : j <= k) - 1

NalEnd(i) == Until({j \in Codes : j > i})

\* Those that have a header; a bare code at the end of the file has none.
Nals == {i \in Codes : i + 3 <= Len(file)}

Type(i)     == NalType(file[i + 3])
Slice(i)    == Vcl(Type(i))
Opens(i)    == Begins(Type(i)) \/ (Slice(i) /\ i + 4 <= NalEnd(i) /\ file[i + 4] >= 128)

\* NAL unit i begins an access unit: the first does, and what is the first to open one
\* after a slice.
Leads(i) ==
    \/ \A j \in Nals : i <= j
    \/ /\ Opens(i)
       /\ \E j \in Nals : /\ j < i /\ Slice(j)
                          /\ \A k \in Nals : j < k /\ k < i => ~Opens(k)

Leaders == {i \in Nals : Leads(i)}

MembersOf(i) ==
    {j \in Nals : i <= j /\ \A k \in Leaders : i < k => j < k}

\* The last unit counts if it has a slice, or if a bare code follows it.
Complete(i) ==
    \/ \E j \in MembersOf(i) : Slice(j)
    \/ Codes # Nals

\* It ends where the next one begins, or at a bare code.
UnitAt(i) ==
    [ first |-> NalFirst(i),
      last  |-> Until({j \in Codes : j > i /\ (j \in Nals => j \in Leaders)}),
      key   |-> \E j \in MembersOf(i) : Type(j) = Idr ]

Units == {UnitAt(i) : i \in {j \in Leaders : Complete(j)}}

\* However the file came into the buffer, in each pass: what was returned is its
\* access units from the first on, in their order and without a gap between them,
\* and when the reader is done, all of them.
FramesAreUnits ==
    frames # <<>> \/ reader.done =>
        LET units == Units IN
        /\ \A i \in 1 .. Len(frames) : frames[i] \in units
        /\ \A i \in 1 .. Len(frames) - 1 : frames[i + 1].first = frames[i].last + 1
        /\ frames # <<>> => \A u \in units : frames[1].first <= u.first
        /\ reader.done => units = {frames[i] : i \in 1 .. Len(frames)}
=============================================================================
