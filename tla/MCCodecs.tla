-------------------------------- MODULE MCCodecs --------------------------------
(* A small instance of Codecs for TLC.                                       *)
EXTENDS Codecs
LOCAL INSTANCE Functions

MCByte == 0..4

Brace == {"{", "}", "escaped"}
Name == {<<>>} \cup {<<b>> : b \in Brace} \cup (Brace \X Brace) \cup {<<"}", "{", "{">>}
MCWord == {"d1", "d2", "m1", "m2"}
MCListedDevice ==
    [did : {<<"d1">>, <<"d2">>}, model : {<<>>, <<"m1">>, <<"m2">>}, name : Name,
     extra : BOOLEAN]

MCFieldOrder == {<<x, y, z>> : x, y, z \in Key}
                    \cap {order \in [1..3 -> Key] : IsInjective(order)}

\* TRAIL, IDR, CRA, VPS, PPS, delimiter, SEI; P slice, IDR, SPS, delimiter, SEI.
MCUnitHeader == [codec \in Codec |->
    IF codec = "h265" THEN {2, 38, 42, 64, 68, 70, 78} ELSE {65, 101, 103, 9, 6}]

MCChar == {"code", "state", "error", "a", "&", "%", " ", "+"}
MCParam ==
    [name : {<<"code">>, <<"state">>, <<"error", "code">>},
     value : {<<>>, <<"a">>, <<"&">>, <<"%", "a">>, <<" ", "+">>}]
================================================================================
