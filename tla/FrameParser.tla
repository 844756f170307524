---------------------------- MODULE FrameParser ----------------------------
(***************************************************************************)
(* RUST-005's FrameParser: push() appends a chunk to the buffer and        *)
(* parse_available() takes frames from its front, one round of its loop a  *)
(* step here.  A unit stands for a byte of the magic, the version and the  *)
(* kind, for the four bytes of the length, and for those of the checksum,  *)
(* so a frame is <<M0, M1, 1, kind, length>> \o payload \o <<checksum>>.   *)
(***************************************************************************)
EXTENDS Integers, Sequences, SequencesExt, FiniteSetsExt

CONSTANTS
    Units,          \* 0..n, the values of a unit
    M0, M1,         \* the magic "HB"
    MaxPayload,
    MaxChunk,       \* bound: units of a chunk
    MaxFed          \* bound: units pushed

ASSUME FrameAssumption ==
    /\ Units \subseteq Nat /\ {M0, M1, 1} \subseteq Units /\ MaxPayload \in Nat
    /\ MaxChunk \in Nat /\ MaxFed \in Nat

VARIABLES
    buffer, frames, condition,    \* condition: state, and the error it holds
    call,       \* "none", "push" or "finish": where parse_available was called
    input,      \* history: the units of the chunks consumed
    taken       \* history: what take_frames has returned

frameVars == <<buffer, frames, condition, call, input, taken>>

Header == 5
FrameChunks == UNION {[1..n -> Units] : n \in 0..MaxChunk}

InitFrame ==
    /\ buffer = <<>> /\ frames = <<>> /\ condition = <<"Active">>
    /\ call = "none" /\ input = <<>> /\ taken = <<>>

Active == condition = <<"Active">>

\* Once failed, push and finish return the error and change nothing; so does a
\* push once finished, which returns AlreadyFinished.
PushFrame(chunk) ==
    /\ call = "none" /\ Active
    /\ Len(input) + Len(chunk) <= MaxFed
    /\ buffer' = buffer \o chunk /\ input' = input \o chunk
    /\ call' = "push"
    /\ UNCHANGED <<frames, condition, taken>>

FinishInput ==
    /\ call = "none" /\ Active
    /\ call' = "finish"
    /\ UNCHANGED <<buffer, frames, condition, input, taken>>

TakeFrames ==
    /\ call = "none"
    /\ taken' = taken \o frames /\ frames' = <<>>
    /\ UNCHANGED <<buffer, condition, call, input>>

-----------------------------------------------------------------------------
(* parse_available *)

Length == buffer[Header]
FrameSize == Header + Length + 1

\* FNV-1a, of which only matters that every hashed unit counts.
Checksum(units) == FoldLeft(LAMBDA v, u : (2 * v + u) % (Max(Units) + 1), 1, units)
HashedWithoutVersion == SubSeq(buffer, 4, FrameSize - 1)
Hashed == SubSeq(buffer, 3, FrameSize - 1)

\* The checks in the order of the loop: the first that fails is reported.
Fault ==
    IF Len(buffer) >= 1 /\ buffer[1] # M0 THEN <<"InvalidMagic", 0>>
    ELSE IF Len(buffer) >= 2 /\ buffer[2] # M1 THEN <<"InvalidMagic", 1>>
    ELSE IF Len(buffer) >= 3 /\ buffer[3] # 1 THEN <<"UnsupportedVersion">>
    ELSE IF Len(buffer) < Header THEN <<>>
    ELSE IF Length > MaxPayload THEN <<"FrameTooLarge">>
    ELSE IF Len(buffer) < FrameSize THEN <<>>
    ELSE IF Checksum(Hashed) # buffer[FrameSize] THEN <<"ChecksumMismatch">> ELSE <<>>

Complete == Len(buffer) >= Header /\ Len(buffer) >= FrameSize

TakeOne ==
    /\ call # "none" /\ Fault = <<>> /\ Complete
    /\ frames' = Append(frames, [kind |-> buffer[4], payload |-> SubSeq(buffer, Header + 1, FrameSize - 1)])
    /\ buffer' = SubSeq(buffer, FrameSize + 1, Len(buffer))
    /\ UNCHANGED <<condition, call, input, taken>>

FailParse ==
    /\ call # "none" /\ Fault # <<>>
    /\ condition' = <<"Failed", Fault>>
    /\ call' = "none"
    /\ UNCHANGED <<buffer, frames, input, taken>>

ReturnParse ==
    /\ call # "none" /\ Fault = <<>> /\ ~Complete
    /\ condition' = IF call = "push" THEN condition
                    ELSE IF buffer = <<>> THEN <<"Finished">>
                    ELSE <<"Failed", <<"Truncated", IF Len(buffer) < Header THEN Header ELSE FrameSize>>>>
    /\ call' = "none"
    /\ UNCHANGED <<buffer, frames, input, taken>>

NextFrame ==
    \/ call = "none" /\ Active /\ \E chunk \in FrameChunks : PushFrame(chunk)
    \/ FinishInput \/ TakeFrames \/ TakeOne \/ FailParse \/ ReturnParse

SpecFrame == InitFrame /\ [][NextFrame]_frameVars

-----------------------------------------------------------------------------
(* Properties *)

\* The wire format of TASK.md, written the other way round.
Encoded(frame) ==
    LET body == <<1, frame.kind, Len(frame.payload)>> \o frame.payload
    IN  <<M0, M1>> \o body \o <<Checksum(body)>>
Frames == [kind : Units, payload : UNION {[1..n -> Units] : n \in 0..MaxPayload}]
Wire == {Encoded(frame) : frame \in Frames}
Agree(units, n) == {w \in Wire : n <= Len(w) /\ SubSeq(w, 1, n) = SubSeq(units, 1, n)}

\* Where the units after the last frame stop being the start of any frame, and
\* so what is wrong with them: the first fault on the wire.
WireError(units) ==
    LET good == Max({n \in 0..Len(units) : Agree(units, n) # {}})
    IN  IF good = Len(units)
        THEN <<"Truncated", IF good < Header THEN Header ELSE Header + units[Header] + 1>>
        ELSE CASE good < 2 -> <<"InvalidMagic", good>>
               [] good = 2 -> <<"UnsupportedVersion">>
               [] good = 4 -> <<"FrameTooLarge">>
               [] OTHER -> <<"ChecksumMismatch">>

\* However the input was cut: the frames given out so far and the buffer are
\* the input, unit for unit; a parser still active holds the proper start of a
\* frame and no more, so no frame and no fault waits for a later push; one that
\* finished holds nothing; and one that failed tells the first fault in wire
\* order, or what a truncated frame would have needed.
FramesAsSpecified ==
    call = "none" =>
        LET all == taken \o frames
        IN  /\ input = FlattenSeq([i \in DOMAIN all |-> Encoded(all[i])]) \o buffer
            /\ Active => Agree(buffer, Len(buffer)) # {} /\ buffer \notin Wire
            /\ condition = <<"Finished">> => buffer = <<>>
            /\ Head(condition) = "Failed" => condition[2] = WireError(buffer)
=============================================================================
