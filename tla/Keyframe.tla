-------------------------------- MODULE Keyframe --------------------------------
(***************************************************************************)
(* is_h265_keyframe and is_h264_keyframe (bridge_main.cpp): whether a      *)
(* frame, a sequence of bytes, is marked as one a decoder can start at.    *)
(***************************************************************************)
EXTENDS Integers, Sequences

Codec == {"h264", "h265"}

\* Length of the start code the frame begins with, 0 if it begins with none.  The
\* variant knows the long form only.
ZeroZero(data) == data[1] = 0 /\ data[2] = 0
LongCode(data) == ZeroZero(data) /\ data[3] = 0 /\ data[4] = 1
ShortCode(data) == ZeroZero(data) /\ data[3] = 1

StartCodeMut(data) == IF LongCode(data) THEN 4 ELSE 0
StartCode(data) == IF ShortCode(data) THEN 3 ELSE IF LongCode(data) THEN 4 ELSE 0

\* The byte that holds the type of the NAL unit.
Header(data) ==
    LET offset == IF StartCode(data) >= Len(data) THEN 0 ELSE StartCode(data)
    IN  data[offset + 1]

NalUnitType(codec, header) ==
    IF codec = "h265" THEN (header \div 2) % 64 ELSE header % 32

\* H265: BLA, IDR, CRA, VPS, SPS, PPS.  H264: IDR, SPS, PPS.
KeyType(codec) == IF codec = "h265" THEN (16..21) \cup (32..34) ELSE {5, 7, 8}

IsKeyframe(codec, data) ==
    Len(data) >= 4 /\ NalUnitType(codec, Header(data)) \in KeyType(codec)
================================================================================
