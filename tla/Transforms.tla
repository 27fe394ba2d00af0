----------------------------- MODULE Transforms -----------------------------
(***************************************************************************)
(* LineTransform (linetransform.ts), through which logcat and screencap    *)
(* pass their output, and RgbTransform (framebuffer/rgbtransform.ts) for   *)
(* raw framebuffers.  Both are stream.Transform: _transform is called with *)
(* chunks cut anywhere and keeps what it cannot decide yet, _flush is      *)
(* called at the end.                                                      *)
(*                                                                         *)
(* Of a line's bytes only CR ("R") and LF ("N") matter, an "x" is any      *)
(* other; the bytes of a framebuffer are numbered from 0.                  *)
(***************************************************************************)
EXTENDS Integers, Sequences, SequencesExt

CONSTANTS
    MaxInput,    \* bound: bytes of an input for LineTransform
    MaxFrame     \* bound: bytes of an input for RgbTransform

ASSUME TransformsAssumption == MaxInput \in Nat /\ MaxFrame \in Nat

VARIABLES
    mode,        \* the options of the transform
    fed,         \* the input so far
    kept,        \* savedR, or _buffer
    skip,        \* skipBytes
    detect,      \* autoDetect
    needed,      \* transformNeeded
    aligned,     \* every chunk so far was a whole number of pixels
    output,      \* what was pushed
    flushed      \* the input has ended

transform == <<mode, fed, kept, skip, detect, needed, aligned, output, flushed>>

Line(auto) == [kind |-> "line", auto |-> auto]
Rgb(bytes, r, g, b) == [kind |-> "rgb", pixel |-> bytes, pos |-> <<r, g, b>>]
Modes == {Line(FALSE), Line(TRUE), Rgb(3, 0, 1, 2), Rgb(3, 2, 1, 0),
          Rgb(4, 0, 1, 2), Rgb(4, 2, 1, 0)}
IsLine == mode.kind = "line"

TransformInit ==
    /\ mode \in Modes
    /\ fed = <<>> /\ kept = <<>> /\ skip = 0 /\ needed = TRUE
    /\ detect = (mode = Line(TRUE))
    /\ aligned = TRUE /\ output = <<>> /\ flushed = FALSE

(***************************************************************************)
(* LineTransform._transform.                                               *)
(***************************************************************************)
Smaller(a, b) == IF a < b THEN a ELSE b

Skips(chunk) == IF detect THEN (IF chunk[1] = "N" THEN 1 ELSE 2) ELSE skip
Needed(chunk) == needed /\ ~(detect /\ chunk[1] = "N")

\* A CR that comes last is saved, one before a LF is dropped.
FaultyPassed(chunk) ==
    {i \in 1 .. Len(chunk) : ~(chunk[i] = "R" /\ i < Len(chunk) /\ chunk[i + 1] = "N")}
Passed(chunk) ==
    {i \in 1 .. Len(chunk) : ~(chunk[i] = "R" /\ (i = Len(chunk) \/ chunk[i + 1] = "N"))}
Saved(chunk) == IF Last(chunk) = "R" THEN <<"R">> ELSE <<>>
\* The bytes of a chunk at some positions, in order.
Nth(positions, n) == CHOOSE p \in positions : Cardinality({q \in positions : q <= p}) = n
At(chunk, positions) == [i \in 1 .. Cardinality(positions) |-> chunk[Nth(positions, i)]]

\* The saved CR belongs to the output unless the chunk starts with LF.
Resumed(chunk) == IF kept # <<>> /\ chunk[1] # "N" THEN kept ELSE <<>>

LineChunk(chunk) ==
    LET n == Smaller(Len(chunk), Skips(chunk))
        rest == SubSeq(chunk, n + 1, Len(chunk))
    IN  /\ detect' = FALSE /\ skip' = Skips(chunk) - n /\ needed' = Needed(chunk)
        /\ IF rest = <<>> THEN UNCHANGED <<kept, output>>
           ELSE IF ~needed' THEN output' = output \o rest /\ UNCHANGED kept
           ELSE /\ output' = output \o Resumed(rest) \o At(rest, Passed(rest))
                /\ kept' = Saved(rest)

(***************************************************************************)
(* RgbTransform._transform.                                                *)
(***************************************************************************)
Pixels(bytes) == bytes \div mode.pixel

\* The bytes of the target buffer: _buffer itself, or one sized by the chunk.
Room(chunk) ==
    IF mode.pixel = 3 THEN Len(kept) + Len(chunk)
    ELSE LET n == (Len(chunk) * 3) \div 4 IN IF n < 4 THEN 4 ELSE n

Converted(bytes) ==
    [i \in 1 .. 3 * Pixels(Len(bytes)) |->
        bytes[((i - 1) \div 3) * mode.pixel + mode.pos[1 + ((i - 1) % 3)] + 1]]

\* The bytes of a pixel that is not complete.
FaultyRest(buffer) == <<>>
Rest(buffer) == SubSeq(buffer, Pixels(Len(buffer)) * mode.pixel + 1, Len(buffer))

\* What does not fit the target is written nowhere.
RgbChunk(chunk) ==
    LET buffer == kept \o chunk
        target == Converted(buffer)
    IN  /\ output' = output \o SubSeq(target, 1, Smaller(Len(target), Room(chunk)))
        /\ kept' = Rest(buffer)
        /\ UNCHANGED <<detect, skip, needed>>

\* autoDetect is for output that starts with LF or CR LF.
Legal(input) ==
    mode = Line(TRUE) =>
        /\ input[1] \in {"R", "N"}
        /\ input[1] = "R" /\ Len(input) > 1 => input[2] = "N"

Inputs(n) ==
    IF IsLine THEN {c \in [1 .. n -> {"R", "N", "x"}] : Legal(fed \o c)}
    ELSE {[i \in 1 .. n |-> Len(fed) + i - 1]}

Transforms ==
    /\ ~flushed
    /\ \E n \in 1 .. (IF IsLine THEN MaxInput ELSE MaxFrame) - Len(fed) :
         \E chunk \in Inputs(n) :
           /\ fed' = fed \o chunk
           /\ IF IsLine THEN LineChunk(chunk) /\ UNCHANGED aligned
              ELSE RgbChunk(chunk) /\ aligned' = (aligned /\ Len(chunk) % mode.pixel = 0)
    /\ UNCHANGED <<mode, flushed>>

\* LineTransform._flush; RgbTransform has none and drops a part of a pixel.
Flushes ==
    /\ ~flushed /\ flushed' = TRUE
    /\ output' = output \o (IF IsLine THEN kept ELSE <<>>)
    /\ UNCHANGED <<mode, fed, kept, skip, detect, needed, aligned>>

TransformNext == Transforms \/ Flushes
TransformSpec == TransformInit /\ [][TransformNext]_transform

(***************************************************************************)
(* Properties.                                                             *)
(***************************************************************************)
\* Without the CR of every CR LF.
Unfolded(input) ==
    LET dropped == {i \in 1 .. Len(input) - 1 : input[i] = "R" /\ input[i + 1] = "N"}
    IN  At(input, (1 .. Len(input)) \ dropped)

WholeLines ==
    IF mode.auto /\ fed # <<>>
    THEN IF fed[1] = "N" THEN Tail(fed) ELSE Unfolded(SubSeq(fed, 3, Len(fed)))
    ELSE Unfolded(fed)

\* Of the bytes 0, 1, ... the first n pixels, as red, green and blue.
RgbOf(n) ==
    /\ Len(output) = 3 * n
    /\ \A p \in 0 .. n - 1, c \in 1 .. 3 : output[3 * p + c] = p * mode.pixel + mode.pos[c]

\* However the input is cut into chunks, the output is the input without the CR
\* of each CR LF, and with autoDetect the input after the first line end, left as
\* it is if that was a LF; only a last CR waits, for the next chunk or the end
\* (LineTransform._transform, _flush).
LinesWhole ==
    IsLine => /\ output \o (IF flushed THEN <<>> ELSE kept) = WholeLines
              /\ kept \in {<<>>, <<"R">>}

\* Every whole pixel of the input comes out, in order and as red, green, blue,
\* if pixels have 3 bytes or chunks end with a pixel (RgbTransform._transform).
PixelsWhole == ~IsLine /\ (mode.pixel = 3 \/ aligned) => RgbOf(Pixels(Len(fed)))

\* Every whole pixel comes out, however the chunks are cut: "should wait for a
\* complete pixel before transforming" (test/adb/framebuffer/rgbtransform.ts:147).
PixelsComplete == ~IsLine => RgbOf(Pixels(Len(fed)))
=============================================================================
