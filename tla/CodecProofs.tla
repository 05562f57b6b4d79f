------------------------------ MODULE CodecProofs ------------------------------
(***************************************************************************)
(* Proofs about the pure functions of Codecs, for inputs of any length:    *)
(* the padding comes off again for every block size a byte can count, the  *)
(* first NAL unit alone decides whether a frame is marked, and it decides  *)
(* rightly for frames of any number of units; the callback of the          *)
(* authorization server gets the values that were sent; the scanner finds  *)
(* the devices of a reply, and never gives one the model of another.       *)
(*                                                                         *)
(* FlattenSeq, UrlDecode and the scanner are recursive functions.  For     *)
(* frames, that FlattenSeq has a value at all, and how the value begins,   *)
(* is kept as an invariant while a frame grows by one unit a step:         *)
(* FramesShaped.  For queries and replies the functions are shown to       *)
(* follow their recursion by the inductions of Induction.                  *)
(***************************************************************************)
EXTENDS Codecs, Induction
LOCAL INSTANCE SequencesExt
LOCAL INSTANCE FiniteSetsExt

LEMMA PaddingRange == \A n \in Nat : Padding(n) \in 1..Block /\ (n + Padding(n)) % Block = 0
<1> SUFFICES ASSUME NEW n \in Nat
             PROVE  Padding(n) \in 1..Block /\ (n + Padding(n)) % Block = 0
  OBVIOUS
<1>1. Block \in Nat \ {0}
  BY BlockAssumption
<1>2. n % Block \in 0..(Block - 1)
  BY <1>1
<1>3. PICK q \in Nat : n = Block * q + (n % Block)
  <2>1. n \div Block \in Nat /\ n = Block * (n \div Block) + (n % Block)
    BY <1>1
  <2> QED
    BY <2>1
<1>4. n + (Block - (n % Block)) = Block * (q + 1)
  <2>1. Block * (q + 1) = Block * q + Block
    BY <1>1
  <2> QED
    BY <1>1, <1>2, <1>3, <2>1
<1>5. (Block * (q + 1)) % Block = 0
  BY <1>1
<1> QED
  BY <1>1, <1>2, <1>4, <1>5 DEF Padding

LEMMA PadLength ==
    ASSUME NEW S, NEW data \in Seq(S)
    PROVE  /\ Len(Pad(data)) = Len(data) + Padding(Len(data))
           /\ \A i \in 1..Len(data) : Pad(data)[i] = data[i]
           /\ Pad(data)[Len(Pad(data))] = Padding(Len(data))
<1> DEFINE p == Padding(Len(data))
<1>1. p \in Nat \ {0}
  <2>1. Len(data) \in Nat
    OBVIOUS
  <2>2. p \in 1..Block
    BY <2>1, PaddingRange
  <2> QED
    BY <2>2, BlockAssumption
<1> HIDE DEF p
<1> DEFINE tail == [i \in 1..p |-> p]
<1>2. tail \in Seq(Nat) /\ Len(tail) = p
  BY <1>1
<1>3. data \in Seq(S \cup Nat) /\ tail \in Seq(S \cup Nat)
  BY <1>2
<1>4. /\ Len(data \o tail) = Len(data) + p
      /\ \A i \in 1..Len(data) : (data \o tail)[i] = data[i]
      /\ (data \o tail)[Len(data) + p] = tail[p]
  BY <1>1, <1>2, <1>3
<1>5. Pad(data) = data \o tail
  BY DEF Pad, p
<1> QED
  BY <1>1, <1>4, <1>5 DEF p

LEMMA PaddingComesOff == ASSUME NEW S, NEW data \in Seq(S) PROVE Unpad(Pad(data)) = data
<1> DEFINE n == Len(data)
           p == Padding(n)
           padded == Pad(data)
<1>1. n \in Nat /\ p \in 1..Block
  BY PaddingRange
<1>2. Len(padded) = n + p /\ padded[Len(padded)] = p
  BY PadLength
<1>3. padded # <<>> /\ ~Malformed(p, Len(padded))
  BY <1>1, <1>2, BlockAssumption DEF Malformed
<1>4. Unpad(padded) = SubSeq(padded, 1, n)
  BY <1>1, <1>2, <1>3, BlockAssumption DEF Unpad
<1>5. SubSeq(padded, 1, n) = data
  <2>1. padded \in Seq(S \cup Nat)
    BY <1>1, BlockAssumption DEF Pad
  <2>2. /\ SubSeq(padded, 1, n) \in Seq(S \cup Nat)
        /\ Len(SubSeq(padded, 1, n)) = n
        /\ \A i \in 1..n : SubSeq(padded, 1, n)[i] = padded[i]
    BY <1>1, <1>2, <2>1, BlockAssumption
  <2>3. \A i \in 1..n : padded[i] = data[i]
    BY PadLength
  <2>4. data \in Seq(S \cup Nat)
    OBVIOUS
  <2> HIDE DEF padded
  <2> QED
    BY <1>1, <2>2, <2>3, <2>4
<1> QED
  BY <1>4, <1>5

\* The inputs of the padding are sequences of bytes; the other inputs are of another
\* kind and stay so.
BytesTyped ==
    /\ input.kind \in {"bytes", "reply", "frame", "query"}
    /\ input.kind = "bytes" => input \in [kind : {"bytes"}, data : Seq(Byte)]

LEMMA BytesStayTyped == Spec => []BytesTyped
<1>1. Init => BytesTyped
  <2>1. CASE input = [kind |-> "bytes", data |-> <<>>]
    BY <2>1 DEF BytesTyped
  <2>2. ASSUME input.kind \in {"reply", "frame", "query"} PROVE BytesTyped
    BY <2>2 DEF BytesTyped
  <2>3. Init => \/ input = [kind |-> "bytes", data |-> <<>>]
                \/ input.kind \in {"reply", "frame", "query"}
    BY DEF Init
  <2> QED
    BY <2>1, <2>2, <2>3
<1>2. BytesTyped /\ [Next]_input => BytesTyped'
  <2> SUFFICES ASSUME BytesTyped, [Next]_input PROVE BytesTyped'
    OBVIOUS
  <2>1. ASSUME NEW b \in Byte, AddByte(b) PROVE BytesTyped'
    <3>1. input \in [kind : {"bytes"}, data : Seq(Byte)]
      BY <2>1 DEF AddByte, BytesTyped
    <3>2. Append(input.data, b) \in Seq(Byte)
      BY <3>1
    <3>3. input' = [input EXCEPT !.data = Append(input.data, b)]
      BY <2>1 DEF AddByte
    <3> HIDE DEF AddByte
    <3>4. input' \in [kind : {"bytes"}, data : Seq(Byte)]
      BY <3>1, <3>2, <3>3
    <3> QED
      BY <3>4 DEF BytesTyped
  <2>2. ASSUME NEW device \in ListedDevice, ListDevice(device) PROVE BytesTyped'
    BY <2>2 DEF ListDevice, BytesTyped
  <2>3. ASSUME NEW header, AddUnit(header) PROVE BytesTyped'
    BY <2>3 DEF AddUnit, BytesTyped
  <2>4. ASSUME NEW param \in Param, AddParam(param) PROVE BytesTyped'
    BY <2>4 DEF AddParam, BytesTyped
  <2>5. CASE UNCHANGED input
    BY <2>5 DEF BytesTyped
  <2> QED
    BY <2>1, <2>2, <2>3, <2>4, <2>5 DEF Next
<1> QED
  BY <1>1, <1>2, PTL DEF Spec

\* pkcs7_unpad takes off what pkcs7_pad has put on, for plain texts of any length and
\* any block size of up to 255.
THEOREM UnpadIsInverse == Spec => []UnpadInvertsPad
<1>1. BytesTyped => UnpadInvertsPad
  <2> SUFFICES ASSUME BytesTyped, input.kind = "bytes"
               PROVE  /\ Unpad(Pad(input.data)) = input.data
                      /\ Len(Pad(input.data)) % Block = 0
    BY DEF UnpadInvertsPad
  <2>1. input.data \in Seq(Byte)
    BY DEF BytesTyped
  <2>2. Unpad(Pad(input.data)) = input.data
    BY <2>1, PaddingComesOff
  <2>3. Len(Pad(input.data)) = Len(input.data) + Padding(Len(input.data))
    BY <2>1, PadLength
  <2>4. Len(input.data) \in Nat
    BY <2>1
  <2> QED
    BY <2>2, <2>3, <2>4, PaddingRange
<1> QED
  BY <1>1, BytesStayTyped, PTL

\* The same, whatever the bytes of a frame may be.
LEMMA FirstUnit ==
    ASSUME NEW S, {0, 1} \subseteq S, NEW codec, NEW header \in S, NEW rest \in Seq(S),
           NEW code \in {<<0, 0, 1>>, <<0, 0, 0, 1>>}
    PROVE  IsKeyframe(codec, code \o <<header>> \o rest)
               <=> NalUnitType(codec, header) \in KeyType(codec)
<1> DEFINE data == code \o <<header>> \o rest
<1>1. Len(code) \in {3, 4} /\ code \in Seq(S) /\ Len(rest) \in Nat
  <2>1. CASE code = <<0, 0, 1>>
    BY <2>1
  <2>2. CASE code = <<0, 0, 0, 1>>
    BY <2>2
  <2> QED
    BY <2>1, <2>2
<1>2. /\ data \in Seq(S)
      /\ Len(data) = Len(code) + 1 + Len(rest)
      /\ data[Len(code) + 1] = header
      /\ \A i \in 1..Len(code) : data[i] = code[i]
  BY <1>1
<1> HIDE DEF data
<1>3. StartCode(data) = Len(code)
  <2>1. CASE code = <<0, 0, 1>>
    BY <1>2, <2>1 DEF StartCode, ShortCode, ZeroZero
  <2>2. CASE code = <<0, 0, 0, 1>>
    BY <1>2, <2>2 DEF StartCode, ShortCode, LongCode, ZeroZero
  <2> QED
    BY <2>1, <2>2
<1>4. Header(data) = header
  BY <1>1, <1>2, <1>3 DEF Header
<1>5. Len(data) >= 4
  BY <1>1, <1>2
<1> QED
  BY <1>4, <1>5 DEF IsKeyframe, data

\* is_h265_keyframe and is_h264_keyframe: of a frame that begins with a start code of
\* either length, the type of the first NAL unit decides and nothing after it does.
THEOREM FirstUnitDecides ==
    ASSUME NEW codec \in Codec, NEW header \in 0..255, NEW rest \in Seq(0..255),
           NEW code \in {<<0, 0, 1>>, <<0, 0, 0, 1>>}
    PROVE  IsKeyframe(codec, code \o <<header>> \o rest)
               <=> NalUnitType(codec, header) \in KeyType(codec)
<1> DEFINE B == 0..255
<1>1. {0, 1} \subseteq B /\ header \in B /\ rest \in Seq(B)
  OBVIOUS
<1> HIDE DEF B
<1> QED
  BY <1>1, FirstUnit

--------------------------------------------------------------------------------
(* A frame of any number of NAL units.                                       *)

\* What FlattenSeq(s) takes the last value of.
Flattens(f, s) == f = [i \in 1..Len(s) |-> IF i = 1 THEN s[i] ELSE f[i-1] \o s[i]]

\* Flattening s is defined, and gives a sequence that starts with the first part.
FlattensFrom(S, s) ==
    /\ \E f : Flattens(f, s)
    /\ \A f : Flattens(f, s) /\ s # <<>> => \E r \in Seq(S) : f[Len(s)] = s[1] \o r

\* A frame without units yet.
LEMMA EmptyFlattens == ASSUME NEW S PROVE FlattensFrom(S, <<>>)
<1>1. Flattens([i \in 1..0 |-> <<>>], <<>>)
  BY DEF Flattens
<1> QED
  BY <1>1 DEF FlattensFrom

\* One more part changes nothing about what was there before.
LEMMA FlattensOneMore ==
    ASSUME NEW S, NEW s \in Seq(Seq(S)), NEW x \in Seq(S), FlattensFrom(S, s)
    PROVE  FlattensFrom(S, Append(s, x))
<1> DEFINE n == Len(s)
           more == Append(s, x)
<1>1. /\ n \in Nat /\ Len(more) = n + 1 /\ more[n + 1] = x
      /\ \A i \in 1..n : more[i] = s[i]
  OBVIOUS
<1>2. s # <<>> => n >= 1 /\ more[1] = s[1] /\ s[1] \in Seq(S)
  BY <1>1
<1>3. s = <<>> => n = 0
  OBVIOUS
<1> HIDE DEF n, more
<1>4. \E f : Flattens(f, more)
  <2>1. PICK g : Flattens(g, s)
    BY DEF FlattensFrom
  <2> DEFINE f == [i \in 1..(n + 1) |->
                      IF i <= n THEN g[i] ELSE IF i = 1 THEN x ELSE g[n] \o x]
  <2>2. \A i \in 1..n : g[i] = IF i = 1 THEN s[i] ELSE g[i-1] \o s[i]
    BY <2>1 DEF Flattens, n
  <2>3. \A i \in 1..(n + 1) : f[i] = IF i = 1 THEN more[i] ELSE f[i-1] \o more[i]
    <3> SUFFICES ASSUME NEW i \in 1..(n + 1)
                 PROVE  f[i] = IF i = 1 THEN more[i] ELSE f[i-1] \o more[i]
      OBVIOUS
    <3>1. CASE i <= n
      <4>1. i \in 1..n /\ f[i] = g[i] /\ more[i] = s[i]
        BY <1>1, <3>1
      <4>2. i # 1 => f[i-1] = g[i-1]
        BY <1>1, <3>1
      <4> HIDE DEF f
      <4> QED
        BY <2>2, <4>1, <4>2
    <3>2. CASE i = n + 1
      <4>1. more[i] = x /\ f[i] = IF i = 1 THEN x ELSE g[n] \o x
        BY <1>1, <3>2
      <4>2. i # 1 => f[i-1] = g[n]
        BY <1>1, <3>2
      <4> HIDE DEF f
      <4> QED
        BY <4>1, <4>2
    <3> QED
      BY <1>1, <3>1, <3>2
  <2>4. f = [i \in 1..(n + 1) |-> f[i]]
    OBVIOUS
  <2> HIDE DEF f
  <2>5. f = [i \in 1..(n + 1) |-> IF i = 1 THEN more[i] ELSE f[i-1] \o more[i]]
    BY <2>3, <2>4
  <2> QED
    BY <1>1, <2>5 DEF Flattens
<1>5. ASSUME NEW f, Flattens(f, more)
      PROVE  \E r \in Seq(S) : f[Len(more)] = more[1] \o r
  <2>1. \A i \in 1..(n + 1) : f[i] = IF i = 1 THEN more[i] ELSE f[i-1] \o more[i]
    BY <1>1, <1>5 DEF Flattens
  <2>2. CASE s = <<>>
    <3>1. f[Len(more)] = x /\ more[1] = x
      BY <1>1, <1>3, <2>1, <2>2
    <3>2. x = x \o <<>> /\ <<>> \in Seq(S)
      OBVIOUS
    <3> QED
      BY <3>1, <3>2
  <2>3. CASE s # <<>>
    <3> DEFINE g == [i \in 1..n |-> f[i]]
    <3>1. \A i \in 1..n : g[i] = IF i = 1 THEN s[i] ELSE g[i-1] \o s[i]
      <4> SUFFICES ASSUME NEW i \in 1..n
                   PROVE  g[i] = IF i = 1 THEN s[i] ELSE g[i-1] \o s[i]
        OBVIOUS
      <4>1. g[i] = f[i] /\ (i # 1 => g[i-1] = f[i-1]) /\ i \in 1..(n + 1)
        BY <1>1
      <4> HIDE DEF g
      <4> QED
        BY <1>1, <2>1, <4>1
    <3>2. g = [i \in 1..n |-> g[i]] /\ g[n] = f[n]
      BY <1>1, <1>2, <2>3
    <3> HIDE DEF g
    <3>3. Flattens(g, s)
      BY <3>1, <3>2 DEF Flattens, n
    <3>4. PICK r \in Seq(S) : g[n] = s[1] \o r
      BY <2>3, <3>3 DEF FlattensFrom, n
    <3>5. n + 1 \in 1..(n + 1) /\ n + 1 # 1 /\ (n + 1) - 1 = n
      BY <1>1, <1>2, <2>3
    <3>6. f[Len(more)] = (s[1] \o r) \o x
      BY <1>1, <2>1, <3>2, <3>4, <3>5
    <3> DEFINE a == s[1]
    <3>7. a \in Seq(S) /\ r \in Seq(S) /\ x \in Seq(S)
      BY <1>2, <2>3, <3>4
    <3>8. f[Len(more)] = (a \o r) \o x /\ more[1] = a
      BY <1>2, <2>3, <3>6
    <3> HIDE DEF a
    <3>9. (a \o r) \o x = a \o (r \o x) /\ r \o x \in Seq(S)
      BY <3>7
    <3> QED
      BY <3>8, <3>9
  <2> QED
    BY <2>2, <2>3
<1> QED
  BY <1>4, <1>5 DEF FlattensFrom, more

\* So FlattenSeq begins as its first part does.
LEMMA FlattenBegins ==
    ASSUME NEW S, NEW s \in Seq(Seq(S)), s # <<>>, FlattensFrom(S, s)
    PROVE  \E r \in Seq(S) : FlattenSeq(s) = s[1] \o r
<1> DEFINE f == CHOOSE f : Flattens(f, s)
<1>1. Flattens(f, s)
  BY DEF FlattensFrom
<1>2. Len(s) # 0
  OBVIOUS
<1>3. FlattenSeq(s) = f[Len(s)]
  BY <1>2, Zenon DEF FlattenSeq, Flattens
<1> QED
  BY <1>1, <1>3 DEF FlattensFrom

\* What a frame of NAL units is made of, with the bytes it may contain.
Part(code, header) == code \o <<header, 128, 128, 128>>
Parts(code, units) == [i \in DOMAIN units |-> Part(code, units[i])]
FrameByte(codec) == UnitHeader[codec] \cup {0, 1, 128}

\* A frame without start codes is one unit; slices of a picture are all of one type,
\* so a key unit stands at the front or behind what Leads calls a lead.
FrameShape(codec, code, units) ==
    /\ code \in {<<>>, <<0, 0, 1>>, <<0, 0, 0, 1>>}
    /\ units \in Seq(UnitHeader[codec])
    /\ (units # <<>> /\ Rank(codec, units[1]) = 2)
          => \A i \in DOMAIN units : units[i] = units[1]
    /\ FlattensFrom(FrameByte(codec), Parts(code, units))

FramesShaped ==
    /\ input.kind \in {"bytes", "reply", "frame", "query"}
    /\ input.kind = "frame" =>
          \E codec, code, units :
              /\ codec \in Codec
              /\ input = [kind |-> "frame", codec |-> codec, code |-> code, units |-> units]
              /\ FrameShape(codec, code, units)

\* A start code and a unit are made of the bytes of the frame.
LEMMA UnitBytes ==
    ASSUME NEW codec, NEW code \in {<<>>, <<0, 0, 1>>, <<0, 0, 0, 1>>},
           NEW header \in UnitHeader[codec]
    PROVE  Part(code, header) \in Seq(FrameByte(codec))
<1> DEFINE B == FrameByte(codec)
<1>1. 0 \in B /\ 1 \in B /\ 128 \in B /\ header \in B
  BY DEF FrameByte
<1> HIDE DEF B
<1>2. code \in Seq(B)
  <2>1. CASE code = <<>>
    BY <2>1
  <2>2. CASE code = <<0, 0, 1>>
    BY <1>1, <2>2
  <2>3. CASE code = <<0, 0, 0, 1>>
    BY <1>1, <2>3
  <2> QED
    BY <2>1, <2>2, <2>3
<1>3. <<header, 128, 128, 128>> \in Seq(B)
  BY <1>1
<1> QED
  BY <1>2, <1>3, ConcatProperties DEF B, Part

\* What AddUnit allows keeps the shape.
LEMMA OneMoreUnit ==
    ASSUME NEW codec, NEW code, NEW units, NEW header \in UnitHeader[codec],
           FrameShape(codec, code, units),
           units # <<>> =>
              /\ code # <<>>
              /\ LET last == units[Len(units)] IN
                    \/ Rank(codec, last) < Rank(codec, header)
                    \/ Rank(codec, last) = Rank(codec, header) /\ Rank(codec, header) = 1
                    \/ last = header /\ Rank(codec, header) = 2
    PROVE  FrameShape(codec, code, Append(units, header))
<1> DEFINE n == Len(units)
           more == Append(units, header)
           B == FrameByte(codec)
           x == Part(code, header)
<1>1. /\ units \in Seq(UnitHeader[codec]) /\ n \in Nat
      /\ more \in Seq(UnitHeader[codec]) /\ Len(more) = n + 1 /\ more[n + 1] = header
      /\ \A i \in 1..n : more[i] = units[i]
      /\ DOMAIN units = 1..n /\ DOMAIN more = 1..(n + 1)
      /\ units # <<>> => n >= 1 /\ more[1] = units[1]
      /\ units = <<>> => n = 0
      /\ code \in {<<>>, <<0, 0, 1>>, <<0, 0, 0, 1>>}
  BY DEF FrameShape
<1> HIDE DEF n, more
<1>3. \A h : Rank(codec, h) \in {0, 1, 2}
  BY DEF Rank
<1>4. Rank(codec, more[1]) = 2 => \A i \in DOMAIN more : more[i] = more[1]
  <2> SUFFICES ASSUME Rank(codec, more[1]) = 2, NEW i \in 1..(n + 1)
               PROVE  more[i] = more[1]
    BY <1>1
  <2>1. CASE units = <<>>
    BY <1>1, <2>1
  <2>2. CASE units # <<>>
    <3>1. \A j \in 1..n : units[j] = units[1]
      BY <1>1, <2>2 DEF FrameShape
    <3>2. n \in 1..n /\ Rank(codec, units[n]) = 2
      BY <1>1, <2>2, <3>1
    <3>3. units[n] = header
      BY <1>3, <2>2, <3>2 DEF n
    <3>4. i \in 1..n \/ i = n + 1
      BY <1>1
    <3> QED
      BY <1>1, <2>2, <3>1, <3>2, <3>3, <3>4
  <2> QED
    BY <2>1, <2>2
<1>5. FlattensFrom(B, Parts(code, more))
  <2>1. x \in Seq(B)
    BY <1>1, UnitBytes
  <2>2. Parts(code, units) \in Seq(Seq(B))
    <3>1. \A i \in 1..n : Part(code, units[i]) \in Seq(B)
      <4>1. \A i \in 1..n : units[i] \in UnitHeader[codec]
        BY <1>1
      <4> QED
        BY <1>1, <4>1, UnitBytes
    <3>2. Parts(code, units) = [i \in 1..n |-> Part(code, units[i])]
      BY <1>1 DEF Parts
    <3> HIDE DEF B
    <3> QED
      BY <1>1, <3>1, <3>2
  <2>3. Parts(code, more) = Append(Parts(code, units), x)
    <3>1. Parts(code, more) = [i \in 1..(n + 1) |-> Part(code, more[i])]
      BY <1>1 DEF Parts
    <3>2. Parts(code, units) = [i \in 1..n |-> Part(code, units[i])]
      BY <1>1 DEF Parts
    <3>3. /\ Append(Parts(code, units), x) \in Seq(Seq(B))
          /\ Len(Append(Parts(code, units), x)) = n + 1
          /\ Append(Parts(code, units), x)[n + 1] = x
          /\ \A i \in 1..n : Append(Parts(code, units), x)[i] = Parts(code, units)[i]
      <4>1. Len(Parts(code, units)) = n
        BY <1>1, <3>2
      <4> HIDE DEF x, B
      <4> QED
        BY <2>1, <2>2, <4>1
    <3>4. Parts(code, more) \in Seq(Seq(B)) /\ Len(Parts(code, more)) = n + 1
      <4>1. \A i \in 1..(n + 1) : Part(code, more[i]) \in Seq(B)
        <5>1. \A i \in 1..(n + 1) : more[i] \in UnitHeader[codec]
          BY <1>1
        <5> QED
          BY <1>1, <5>1, UnitBytes
      <4> HIDE DEF x, B
      <4> QED
        BY <1>1, <3>1, <4>1
    <3>5. \A i \in 1..(n + 1) : Parts(code, more)[i] = Append(Parts(code, units), x)[i]
      <4> SUFFICES ASSUME NEW i \in 1..(n + 1)
                   PROVE  Parts(code, more)[i] = Append(Parts(code, units), x)[i]
        OBVIOUS
      <4>1. CASE i = n + 1
        BY <1>1, <3>1, <3>3, <4>1
      <4>2. CASE i \in 1..n
        BY <1>1, <3>1, <3>2, <3>3, <4>2
      <4>3. i = n + 1 \/ i \in 1..n
        BY <1>1
      <4> QED
        BY <4>1, <4>2, <4>3
    <3> HIDE DEF x, B
    <3> QED
      BY <3>3, <3>4, <3>5, SeqEqual
  <2>4. FlattensFrom(B, Parts(code, units))
    BY DEF FrameShape
  <2> HIDE DEF x, B
  <2> QED
    BY <2>1, <2>2, <2>3, <2>4, FlattensOneMore
<1> QED
  BY <1>1, <1>4, <1>5 DEF FrameShape, more

\* Every frame that grows unit by unit has that shape.
LEMMA FramesStayShaped == Spec => []FramesShaped
<1>1. Init => FramesShaped
  <2> SUFFICES ASSUME Init PROVE FramesShaped
    OBVIOUS
  <2>1. CASE input.kind = "frame"
    <3>1. PICK codec \in Codec, code \in {<<>>, <<0, 0, 1>>, <<0, 0, 0, 1>>} :
             input = [kind |-> "frame", codec |-> codec, code |-> code, units |-> <<>>]
      BY <2>1 DEF Init
    <3>2. Parts(code, <<>>) = <<>>
      BY DEF Parts
    <3>3. FrameShape(codec, code, <<>>)
      BY <3>2, EmptyFlattens DEF FrameShape
    <3> QED
      BY <2>1, <3>1, <3>3 DEF FramesShaped
  <2>2. CASE input.kind # "frame"
    BY <2>2 DEF Init, FramesShaped
  <2> QED
    BY <2>1, <2>2
<1>2. FramesShaped /\ [Next]_input => FramesShaped'
  <2> SUFFICES ASSUME FramesShaped, [Next]_input PROVE FramesShaped'
    OBVIOUS
  <2>1. ASSUME input.kind = "frame", NEW header \in UnitHeader[input.codec], AddUnit(header)
        PROVE  FramesShaped'
    <3>1. PICK codec, code, units :
             /\ codec \in Codec
             /\ input = [kind |-> "frame", codec |-> codec, code |-> code, units |-> units]
             /\ FrameShape(codec, code, units)
      BY <2>1 DEF FramesShaped
    <3>2. input.codec = codec /\ input.code = code /\ input.units = units
      BY <3>1
    <3>3. FrameShape(codec, code, Append(units, header))
      BY <2>1, <3>1, <3>2, OneMoreUnit DEF AddUnit
    <3>4. input' = [kind |-> "frame", codec |-> codec, code |-> code,
                    units |-> Append(units, header)]
      BY <2>1, <3>1, <3>2 DEF AddUnit
    <3>5. input'.kind = "frame"
      BY <3>4
    <3>6. codec \in Codec
      BY <3>1
    <3> QED
      BY <3>3, <3>4, <3>5, <3>6 DEF FramesShaped
  <2>2. ASSUME NEW b \in Byte, AddByte(b) PROVE FramesShaped'
    BY <2>2 DEF AddByte, FramesShaped
  <2>3. ASSUME NEW device \in ListedDevice, ListDevice(device) PROVE FramesShaped'
    BY <2>3 DEF ListDevice, FramesShaped
  <2>4. ASSUME NEW param \in Param, AddParam(param) PROVE FramesShaped'
    BY <2>4 DEF AddParam, FramesShaped
  <2>5. CASE UNCHANGED input
    BY <2>5 DEF FramesShaped
  <2> QED
    BY <2>1, <2>2, <2>3, <2>4, <2>5 DEF Next
<1> QED
  BY <1>1, <1>2, PTL DEF Spec

\* Of a frame with a start code, or of one unit without, the first unit decides.
\* The fields of an input that is a frame.
LEMMA FrameFields ==
    ASSUME FramesShaped, input.kind = "frame"
    PROVE  input.codec \in Codec /\ FrameShape(input.codec, input.code, input.units)
<1>1. PICK codec, code, units :
         /\ codec \in Codec
         /\ input = [kind |-> "frame", codec |-> codec, code |-> code, units |-> units]
         /\ FrameShape(codec, code, units)
  BY DEF FramesShaped
<1>2. input.codec = codec /\ input.code = code /\ input.units = units
  BY <1>1
<1> QED
  BY <1>1, <1>2

LEMMA FirstOfFrame ==
    ASSUME FramesShaped, input.kind = "frame", input.units # <<>>
    PROVE  IsKeyframe(input.codec, Frame)
              <=> NalUnitType(input.codec, input.units[1]) \in KeyType(input.codec)
<1> DEFINE codec == input.codec
           code == input.code
           units == input.units
           B == FrameByte(codec)
           tail == <<128, 128, 128>>
<1>1. /\ code \in {<<>>, <<0, 0, 1>>, <<0, 0, 0, 1>>}
      /\ units \in Seq(UnitHeader[codec]) /\ units # <<>>
      /\ FlattensFrom(B, Parts(code, units))
  BY FrameFields DEF FrameShape
<1>2. Frame = FlattenSeq(Parts(code, units))
  BY DEF Frame, Parts, Part
<1> HIDE DEF codec, code, units
<1>3. Len(units) \in Nat \ {0} /\ DOMAIN units = 1..Len(units) /\ units[1] \in UnitHeader[codec]
  BY <1>1
<1>4. /\ Parts(code, units) \in Seq(Seq(B)) /\ Parts(code, units) # <<>>
      /\ Parts(code, units)[1] = Part(code, units[1])
      /\ Len(Parts(code, units)) = Len(units)
  <2>1. \A i \in 1..Len(units) : Part(code, units[i]) \in Seq(B)
    <3>1. \A i \in 1..Len(units) : units[i] \in UnitHeader[codec]
      BY <1>1
    <3> QED
      BY <1>1, <3>1, UnitBytes
  <2>2. Parts(code, units) = [i \in 1..Len(units) |-> Part(code, units[i])]
    BY <1>3 DEF Parts
  <2> HIDE DEF B
  <2> QED
    BY <1>3, <2>1, <2>2
<1>5. 0 \in B /\ 1 \in B /\ 128 \in B /\ units[1] \in B
  BY <1>3 DEF FrameByte
<1> HIDE DEF B
<1>6. PICK r \in Seq(B) : Frame = Part(code, units[1]) \o r
  BY <1>1, <1>2, <1>4, FlattenBegins
<1>7. tail \in Seq(B) /\ <<units[1], 128, 128, 128>> = <<units[1]>> \o tail
  BY <1>5
<1>8. CASE code # <<>>
  <2>1. tail \o r \in Seq(B)
    BY <1>6, <1>7, ConcatProperties
  <2>2. Frame = code \o <<units[1]>> \o (tail \o r)
    <3> DEFINE head == <<units[1]>>
    <3>1. code \in Seq(B)
      <4>1. CASE code = <<0, 0, 1>>
        BY <1>5, <4>1
      <4>2. CASE code = <<0, 0, 0, 1>>
        BY <1>5, <4>2
      <4> QED
        BY <1>1, <1>8, <4>1, <4>2
    <3>2. head \in Seq(B)
      BY <1>5
    <3>3. Frame = (code \o (head \o tail)) \o r
      BY <1>6, <1>7 DEF Part
    <3> HIDE DEF tail, head
    <3>4. code \o (head \o tail) = (code \o head) \o tail
      BY <1>7, <3>1, <3>2
    <3>5. ((code \o head) \o tail) \o r = (code \o head) \o (tail \o r)
      <4> DEFINE begun == code \o head
      <4>1. begun \in Seq(B) /\ tail \in Seq(B) /\ r \in Seq(B)
        BY <1>6, <1>7, <3>1, <3>2, ConcatProperties
      <4> HIDE DEF begun
      <4>2. (begun \o tail) \o r = begun \o (tail \o r)
        BY ONLY <4>1, ConcatAssociative
      <4> QED
        BY <4>2 DEF begun
    <3> QED
      BY <3>3, <3>4, <3>5 DEF head
  <2> HIDE DEF tail
  <2> QED
    BY <1>1, <1>5, <1>8, <2>1, <2>2, FirstUnit DEF codec, units
<1>9. CASE code = <<>>
  <2>1. Part(code, units[1]) = <<units[1], 128, 128, 128>>
    BY <1>5, <1>9 DEF Part
  <2>2. /\ Len(Frame) >= 4 /\ Frame[1] = units[1] /\ Frame[2] = 128
    BY <1>5, <1>6, <2>1
  <2>3. StartCode(Frame) = 0
    BY <2>2 DEF StartCode, ShortCode, LongCode, ZeroZero
  <2>4. Header(Frame) = units[1]
    BY <2>2, <2>3 DEF Header
  <2> QED
    BY <2>2, <2>4 DEF IsKeyframe, codec, units
<1> QED
  BY <1>8, <1>9

\* A frame that is_h265_keyframe or is_h264_keyframe marks has a unit of the types they
\* list, and one that has such a unit is marked unless a delimiter or supplemental
\* information comes first: for frames of any number of units, any headers and either
\* start code.
THEOREM KeyframesAreMarked == Spec => []KeyframesMarked
<1>1. FramesShaped => KeyframesMarked
  <2> SUFFICES ASSUME FramesShaped, input.kind = "frame"
               PROVE  /\ (input.units # <<>> /\ IsKeyframe(input.codec, Frame)) => HasKeyUnit
                      /\ (HasKeyUnit /\ ~Leads(input.codec, input.units[1]))
                           => IsKeyframe(input.codec, Frame)
    BY DEF KeyframesMarked
  <2>1. input.units \in Seq(UnitHeader[input.codec])
    BY FrameFields DEF FrameShape
  <2>2. HasKeyUnit => input.units # <<>>
    BY <2>1 DEF HasKeyUnit
  <2>3. CASE input.units # <<>>
    <3>1. 1 \in DOMAIN input.units
      BY <2>1, <2>3
    <3>2. IsKeyframe(input.codec, Frame)
              <=> NalUnitType(input.codec, input.units[1]) \in KeyType(input.codec)
      BY <2>3, FirstOfFrame
    <3>3. ASSUME HasKeyUnit, ~Leads(input.codec, input.units[1])
          PROVE  NalUnitType(input.codec, input.units[1]) \in KeyType(input.codec)
      <4>1. CASE Rank(input.codec, input.units[1]) = 2
        <5>1. \A i \in DOMAIN input.units : input.units[i] = input.units[1]
          BY <2>3, <4>1, FrameFields DEF FrameShape
        <5> QED
          BY <3>3, <5>1 DEF HasKeyUnit
      <4>2. CASE Rank(input.codec, input.units[1]) # 2
        BY <3>3, <4>2, FrameFields DEF Codec, Rank, Leads, KeyType
      <4> QED
        BY <4>1, <4>2
    <3> QED
      BY <3>1, <3>2, <3>3 DEF HasKeyUnit
  <2> QED
    BY <2>2, <2>3
<1> QED
  BY <1>1, FramesStayShaped, PTL

--------------------------------------------------------------------------------
(* FlattenSeq, for any number of parts.                                      *)

LEMMA FlattenExists == ASSUME NEW S, NEW s \in Seq(Seq(S)) PROVE \E f : Flattens(f, s)
<1> DEFINE P == {t \in Seq(Seq(S)) : FlattensFrom(S, t)}
<1>1. <<>> \in P
  BY EmptyFlattens
<1>2. \A t \in Seq(Seq(S)) : \A x \in Seq(S) : t \in P => Append(t, x) \in P
  <2> SUFFICES ASSUME NEW t \in Seq(Seq(S)), NEW x \in Seq(S), FlattensFrom(S, t)
               PROVE  Append(t, x) \in P
    OBVIOUS
  <2>1. Append(t, x) \in Seq(Seq(S))
    BY AppendProperties
  <2> QED
    BY <2>1, FlattensOneMore
<1>3. s \in P
  <2> HIDE DEF P
  <2> QED
    BY <1>1, <1>2, SequenceInduction
<1> QED
  BY <1>3 DEF FlattensFrom

\* What the function is at each place does not depend on what comes later.
LEMMA FlattensAt ==
    \A s, f : Flattens(f, s) =>
        \A i \in 1..Len(s) : f[i] = IF i = 1 THEN s[i] ELSE f[i-1] \o s[i]
BY DEF Flattens

LEMMA FlattensUnique ==
    ASSUME NEW s, NEW t, NEW f, NEW g, Flattens(f, s), Flattens(g, t),
           Len(s) \in Nat, Len(t) \in Nat, NEW n \in (0..Len(s)) \cap (0..Len(t)),
           \A i \in 1..n : s[i] = t[i]
    PROVE  \A i \in 1..n : f[i] = g[i]
<1> DEFINE P == {i \in Nat : i \in 1..n => f[i] = g[i]}
<1>1. 0 \in P
  OBVIOUS
<1>2. ASSUME NEW i \in Nat, i \in P PROVE i + 1 \in P
  <2> SUFFICES ASSUME i + 1 \in 1..n PROVE f[i + 1] = g[i + 1]
    OBVIOUS
  <2>1. i + 1 \in 1..Len(s) /\ i + 1 \in 1..Len(t) /\ (i + 1) - 1 = i /\ s[i + 1] = t[i + 1]
    OBVIOUS
  <2>2. f[i + 1] = IF i + 1 = 1 THEN s[i + 1] ELSE f[i] \o s[i + 1]
    <3>1. f[i + 1] = IF i + 1 = 1 THEN s[i + 1] ELSE f[(i + 1) - 1] \o s[i + 1]
      BY <2>1, FlattensAt
    <3> HIDE DEF P
    <3> QED
      BY <2>1, <3>1
  <2>3. g[i + 1] = IF i + 1 = 1 THEN t[i + 1] ELSE g[i] \o t[i + 1]
    <3>1. g[i + 1] = IF i + 1 = 1 THEN t[i + 1] ELSE g[(i + 1) - 1] \o t[i + 1]
      BY <2>1, FlattensAt
    <3> HIDE DEF P
    <3> QED
      BY <2>1, <3>1
  <2>4. i + 1 # 1 => f[i] = g[i]
    BY <1>2
  <2> HIDE DEF P
  <2> QED
    BY <2>1, <2>2, <2>3, <2>4
<1>3. \A i \in Nat : i \in P
  <2> HIDE DEF P
  <2> QED
    BY <1>1, <1>2, NumberInduction
<1> QED
  BY <1>3

LEMMA FlattenIs ==
    ASSUME NEW S, NEW s \in Seq(Seq(S)), s # <<>>, NEW f, Flattens(f, s)
    PROVE  FlattenSeq(s) = f[Len(s)]
<1> DEFINE g == CHOOSE g : Flattens(g, s)
<1>1. Flattens(g, s)
  BY FlattenExists
<1>2. Len(s) # 0 /\ Len(s) \in Nat
  OBVIOUS
<1>3. FlattenSeq(s) = g[Len(s)]
  BY <1>2, Zenon DEF FlattenSeq, Flattens
<1> HIDE DEF g
<1>4. f[Len(s)] = g[Len(s)]
  <2>1. \A i \in 1..Len(s) : f[i] = g[i]
    BY <1>1, <1>2, FlattensUnique
  <2> QED
    BY <1>2, <2>1
<1> QED
  BY <1>3, <1>4

LEMMA FlattenNone == FlattenSeq(<<>>) = <<>>
BY DEF FlattenSeq

LEMMA FlattenAppend ==
    ASSUME NEW S, NEW s \in Seq(Seq(S)), NEW x \in Seq(S)
    PROVE  FlattenSeq(Append(s, x)) = FlattenSeq(s) \o x
<1> DEFINE n == Len(s)
           more == Append(s, x)
<1>1. /\ n \in Nat /\ Len(more) = n + 1 /\ more[n + 1] = x /\ more \in Seq(Seq(S))
      /\ \A i \in 1..n : s[i] = more[i]
      /\ more # <<>>
      /\ s = <<>> <=> n = 0
  BY AppendProperties
<1> HIDE DEF n, more
<1>2. PICK f : Flattens(f, more)
  BY <1>1, FlattenExists
<1>3. FlattenSeq(more) = f[n + 1]
  BY <1>1, <1>2, FlattenIs
<1>4. f[n + 1] = IF n + 1 = 1 THEN x ELSE f[n] \o x
  <2>1. n + 1 \in 1..(n + 1) /\ (n + 1) - 1 = n
    BY <1>1
  <2> QED
    BY <1>1, <1>2, <2>1 DEF Flattens
<1>5. CASE n = 0
  <2>1. s = <<>> /\ f[n + 1] = x
    BY <1>1, <1>4, <1>5
  <2>2. <<>> \o x = x
    BY ConcatEmptySeq
  <2> QED
    BY <1>3, <2>1, <2>2, FlattenNone DEF more
<1>6. CASE n # 0
  <2>1. PICK g : Flattens(g, s)
    BY FlattenExists
  <2>2. FlattenSeq(s) = g[n]
    BY <1>1, <1>6, <2>1, FlattenIs DEF n
  <2>3. \A i \in 1..n : g[i] = f[i]
    <3>1. n \in (0..Len(s)) \cap (0..Len(more)) /\ Len(s) \in Nat /\ Len(more) \in Nat
      BY <1>1 DEF n
    <3>2. \A i \in 1..n : s[i] = more[i]
      BY <1>1
    <3> QED
      BY ONLY <1>2, <2>1, <3>1, <3>2, FlattensUnique
  <2>4. n \in 1..n /\ n + 1 # 1
    BY <1>1, <1>6
  <2> QED
    BY <1>3, <1>4, <2>2, <2>3, <2>4 DEF more
<1> QED
  BY <1>5, <1>6

\* The same, of parts that are given by their places.
LEMMA FlattenLonger ==
    \A S : \A s, t \in Seq(Seq(S)) :
        (Len(t) = Len(s) + 1 /\ \A i \in 1..Len(s) : t[i] = s[i])
            => FlattenSeq(t) = FlattenSeq(s) \o t[Len(t)]
<1> SUFFICES ASSUME NEW S, NEW s \in Seq(Seq(S)), NEW t \in Seq(Seq(S)),
                    Len(t) = Len(s) + 1, \A i \in 1..Len(s) : t[i] = s[i]
             PROVE  FlattenSeq(t) = FlattenSeq(s) \o t[Len(t)]
  OBVIOUS
<1> DEFINE n == Len(s)
           x == t[Len(t)]
           more == Append(s, x)
<1>1. n \in Nat /\ Len(t) = n + 1 /\ x \in Seq(S) /\ x = t[n + 1] /\ \A i \in 1..n : t[i] = s[i]
  OBVIOUS
<1> HIDE DEF x
<1>2. /\ more \in Seq(Seq(S)) /\ Len(more) = n + 1
      /\ more[n + 1] = x /\ \A i \in 1..n : more[i] = s[i]
  BY <1>1, AppendProperties
<1> HIDE DEF n, more
<1>3. \A i \in 1..(n + 1) : more[i] = t[i]
  <2> SUFFICES ASSUME NEW i \in 1..(n + 1) PROVE more[i] = t[i]
    OBVIOUS
  <2>1. i = n + 1 \/ i \in 1..n
    BY <1>1
  <2> QED
    BY <1>1, <1>2, <2>1
<1>4. t = more
  BY <1>1, <1>2, <1>3, SeqEqual
<1> QED
  BY <1>1, <1>4, FlattenAppend DEF more, x

LEMMA FlattenTyped ==
    ASSUME NEW S, NEW s \in Seq(Seq(S)) PROVE FlattenSeq(s) \in Seq(S)
<1> DEFINE P == {t \in Seq(Seq(S)) : FlattenSeq(t) \in Seq(S)}
<1>1. <<>> \in P
  <2>1. <<>> \in Seq(Seq(S)) /\ <<>> \in Seq(S)
    OBVIOUS
  <2> QED
    BY <2>1, FlattenNone
<1>2. \A t \in Seq(Seq(S)) : \A x \in Seq(S) : t \in P => Append(t, x) \in P
  <2> SUFFICES ASSUME NEW t \in Seq(Seq(S)), NEW x \in Seq(S), FlattenSeq(t) \in Seq(S)
               PROVE  Append(t, x) \in P
    OBVIOUS
  <2>1. Append(t, x) \in Seq(Seq(S))
    BY AppendProperties
  <2>2. FlattenSeq(t) \o x \in Seq(S)
    BY ConcatProperties
  <2> QED
    BY <2>1, <2>2, FlattenAppend
<1>3. \A t \in Seq(Seq(S)) : t \in P
  <2> HIDE DEF P
  <2> QED
    BY <1>1, <1>2, SequenceInduction
<1> QED
  BY <1>3

--------------------------------------------------------------------------------
(* url_decode undoes what the service did to a value.                       *)

\* What url_decode writes for the character at i.
Decoded(str, i) ==
    CASE str[i] = "%" -> Character(str, i + 1)
      [] str[i] = "+" -> " "
      [] OTHER -> str[i]

\* What UrlDecode(str) takes the first value of.
Decodes(f, str) ==
    f = [i \in 1..(Len(str) + 3) |->
            IF i > Len(str) THEN <<>> ELSE <<Decoded(str, i)>> \o f[i + Width(str[i])]]

LEMMA DecodesAt ==
    \A str, f : Decodes(f, str) =>
        \A i \in 1..(Len(str) + 3) :
            f[i] = IF i > Len(str) THEN <<>> ELSE <<Decoded(str, i)>> \o f[i + Width(str[i])]
BY DEF Decodes

LEMMA WidthRange == \A c : Width(c) \in {1, 3}
BY DEF Width

\* A text behind one more character is decoded as it was alone.
LEMMA DecodedBehind ==
    ASSUME NEW S, NEW str \in Seq(S), NEW rest \in Seq(S), NEW k \in Nat,
           Len(str) = Len(rest) + k, \A i \in 1..Len(rest) : str[i + k] = rest[i]
    PROVE  \A i \in 1..Len(rest) : Decoded(str, i + k) = Decoded(rest, i)
<1> SUFFICES ASSUME NEW i \in 1..Len(rest) PROVE Decoded(str, i + k) = Decoded(rest, i)
  OBVIOUS
<1>1. str[i + k] = rest[i]
  OBVIOUS
<1>2. Character(str, (i + k) + 1) = Character(rest, i + 1)
  <2>1. (i + k) + 1 < Len(str) <=> i + 1 < Len(rest)
    OBVIOUS
  <2>2. ASSUME i + 1 < Len(rest)
        PROVE  str[(i + k) + 1] = rest[i + 1] /\ str[((i + k) + 1) + 1] = rest[(i + 1) + 1]
    <3>1. i + 1 \in 1..Len(rest) /\ (i + 1) + 1 \in 1..Len(rest)
      BY <2>2
    <3>2. (i + k) + 1 = (i + 1) + k /\ ((i + k) + 1) + 1 = ((i + 1) + 1) + k
      OBVIOUS
    <3> QED
      BY <3>1, <3>2
  <2> DEFINE A == {c \in DOMAIN Digits : (i + k) + 1 < Len(str)
                       /\ <<str[(i + k) + 1], str[((i + k) + 1) + 1]>> = Digits[c]}
             B == {c \in DOMAIN Digits : i + 1 < Len(rest)
                       /\ <<rest[i + 1], rest[(i + 1) + 1]>> = Digits[c]}
  <2>3. A = B
    BY <2>1, <2>2
  <2>4. Character(str, (i + k) + 1) = IF A = {} THEN "junk" ELSE CHOOSE c \in A : TRUE
    BY DEF Character
  <2>5. Character(rest, i + 1) = IF B = {} THEN "junk" ELSE CHOOSE c \in B : TRUE
    BY DEF Character
  <2> HIDE DEF A, B
  <2> QED
    BY <2>3, <2>4, <2>5
<1> QED
  BY <1>1, <1>2 DEF Decoded

LEMMA DecodeExists == ASSUME NEW S, NEW str \in Seq(S) PROVE \E f : Decodes(f, str)
<1> DEFINE P == {n \in Nat : \A s \in Seq(S) : Len(s) = n => \E f : Decodes(f, s)}
<1>1. 0 \in P
  <2> SUFFICES ASSUME NEW s \in Seq(S), Len(s) = 0 PROVE \E f : Decodes(f, s)
    OBVIOUS
  <2> DEFINE f == [i \in 1..3 |-> <<>>]
  <2>1. f = [i \in 1..(Len(s) + 3) |->
                IF i > Len(s) THEN <<>> ELSE <<Decoded(s, i)>> \o f[i + Width(s[i])]]
    OBVIOUS
  <2> QED
    BY <2>1 DEF Decodes
<1>2. ASSUME NEW n \in Nat, n \in P PROVE n + 1 \in P
  <2> SUFFICES ASSUME NEW s \in Seq(S), Len(s) = n + 1 PROVE \E f : Decodes(f, s)
    OBVIOUS
  <2> DEFINE rest == Tail(s)
  <2>1. /\ rest \in Seq(S) /\ Len(rest) = n
        /\ \A i \in 1..n : s[i + 1] = rest[i]
    BY HeadTailProperties
  <2>2. PICK g : Decodes(g, rest)
    BY <1>2, <2>1
  <2>3. \A i \in 1..n : Decoded(s, i + 1) = Decoded(rest, i)
    <3>1. s \in Seq(S) /\ rest \in Seq(S) /\ Len(s) = Len(rest) + 1 /\ 1 \in Nat
      BY <2>1
    <3>2. \A i \in 1..Len(rest) : s[i + 1] = rest[i]
      BY <2>1
    <3> HIDE DEF rest, P
    <3>3. \A i \in 1..Len(rest) : Decoded(s, i + 1) = Decoded(rest, i)
      BY ONLY <3>1, <3>2, DecodedBehind
    <3> QED
      BY <2>1, <3>3
  <2> HIDE DEF rest
  <2>4. \A i \in 1..(n + 3) :
           g[i] = IF i > n THEN <<>> ELSE <<Decoded(rest, i)>> \o g[i + Width(rest[i])]
    BY <2>1, <2>2, DecodesAt
  <2> DEFINE f == [i \in 1..(n + 4) |->
                      IF i = 1 THEN <<Decoded(s, 1)>> \o g[Width(s[1])] ELSE g[i - 1]]
  <2>5. \A i \in 1..(n + 4) :
           f[i] = IF i > n + 1 THEN <<>> ELSE <<Decoded(s, i)>> \o f[i + Width(s[i])]
    <3> SUFFICES ASSUME NEW i \in 1..(n + 4)
                 PROVE  f[i] = IF i > n + 1 THEN <<>>
                               ELSE <<Decoded(s, i)>> \o f[i + Width(s[i])]
      OBVIOUS
    <3>1. CASE i = 1
      <4>1. f[i] = <<Decoded(s, 1)>> \o g[Width(s[1])]
        BY <3>1
      <4>2. f[1 + Width(s[1])] = g[Width(s[1])]
        <5> DEFINE w == Width(s[1])
        <5>1. w \in {1, 3}
          BY WidthRange
        <5> HIDE DEF w
        <5>2. 1 + w \in 1..(n + 4) /\ 1 + w # 1 /\ (1 + w) - 1 = w
          BY <5>1
        <5>3. f[1 + w] = g[w]
          BY <5>2
        <5> QED
          BY <5>3 DEF w
      <4> HIDE DEF f
      <4> QED
        BY <3>1, <4>1, <4>2
    <3>2. CASE i > n + 1
      <4>1. f[i] = g[i - 1] /\ i - 1 \in 1..(n + 3) /\ i - 1 > n
        BY <3>2
      <4> HIDE DEF f
      <4> QED
        BY <2>4, <3>2, <4>1
    <3>3. CASE i # 1 /\ i <= n + 1
      <4>1. f[i] = g[i - 1] /\ i - 1 \in 1..n /\ i - 1 \in 1..(n + 3) /\ (i - 1) + 1 = i
        BY <3>3
      <4>2. s[i] = rest[i - 1] /\ Decoded(s, i) = Decoded(rest, i - 1)
        BY <2>1, <2>3, <4>1
      <4> DEFINE w == Width(s[i])
      <4>3. w \in {1, 3}
        BY WidthRange
      <4> HIDE DEF w
      <4>4. i + w \in 1..(n + 4) /\ i + w # 1 /\ (i + w) - 1 = (i - 1) + w
        BY <3>3, <4>3
      <4>5. f[i + w] = g[(i - 1) + w]
        BY <4>4
      <4> HIDE DEF f
      <4>6. f[i] = <<Decoded(rest, i - 1)>> \o g[(i - 1) + Width(rest[i - 1])]
        <5> DEFINE j == i - 1
        <5>1. j \in 1..n /\ j \in 1..(n + 3) /\ f[i] = g[j] /\ ~(j > n)
          BY <4>1
        <5> HIDE DEF j
        <5>2. f[i] = <<Decoded(rest, j)>> \o g[j + Width(rest[j])]
          BY <2>4, <5>1
        <5> QED
          BY <5>2 DEF j
      <4> QED
        BY <3>3, <4>2, <4>5, <4>6 DEF w
    <3> QED
      BY <3>1, <3>2, <3>3
  <2>6. f = [i \in 1..(n + 4) |-> f[i]]
    OBVIOUS
  <2> HIDE DEF f
  <2>7. f = [i \in 1..(n + 4) |->
                IF i > n + 1 THEN <<>> ELSE <<Decoded(s, i)>> \o f[i + Width(s[i])]]
    BY <2>5, <2>6
  <2>8. Len(s) + 3 = n + 4
    OBVIOUS
  <2> QED
    BY <2>7, <2>8 DEF Decodes
<1>3. \A n \in Nat : n \in P
  <2> HIDE DEF P
  <2> QED
    BY <1>1, <1>2, NumberInduction
<1> QED
  BY <1>3

LEMMA DecodeBehind ==
    ASSUME NEW S, NEW str \in Seq(S), NEW rest \in Seq(S), NEW k \in Nat,
           Len(str) = Len(rest) + k, \A i \in 1..Len(rest) : str[i + k] = rest[i],
           NEW f, NEW g, Decodes(f, str), Decodes(g, rest)
    PROVE  \A i \in 1..(Len(rest) + 3) : f[i + k] = g[i]
<1> DEFINE L == Len(rest)
           P == {m \in Nat : \A i \in 1..(L + 3) : i + m >= L + 1 => f[i + k] = g[i]}
<1>1. L \in Nat /\ Len(str) = L + k
  OBVIOUS
<1>2. \A i \in 1..L : Decoded(str, i + k) = Decoded(rest, i)
  BY DecodedBehind
<1>3. \A i \in 1..L : str[i + k] = rest[i]
  OBVIOUS
<1> HIDE DEF L
<1>4. \A i \in 1..(L + 3) :
         g[i] = IF i > L THEN <<>> ELSE <<Decoded(rest, i)>> \o g[i + Width(rest[i])]
  BY DecodesAt DEF L
<1>5. \A i \in 1..(L + 3) :
         f[i + k] = IF i > L THEN <<>>
                    ELSE <<Decoded(str, i + k)>> \o f[(i + k) + Width(str[i + k])]
  <2> SUFFICES ASSUME NEW i \in 1..(L + 3)
               PROVE  f[i + k] = IF i > L THEN <<>>
                         ELSE <<Decoded(str, i + k)>> \o f[(i + k) + Width(str[i + k])]
    OBVIOUS
  <2>1. i + k \in 1..(Len(str) + 3) /\ (i + k > Len(str) <=> i > L)
    BY <1>1
  <2>2. \A j \in 1..(Len(str) + 3) :
           f[j] = IF j > Len(str) THEN <<>> ELSE <<Decoded(str, j)>> \o f[j + Width(str[j])]
    BY DecodesAt
  <2> DEFINE j == i + k
  <2>3. j \in 1..(Len(str) + 3) /\ (j > Len(str) <=> i > L)
    BY <2>1
  <2> HIDE DEF j
  <2>4. f[j] = IF i > L THEN <<>> ELSE <<Decoded(str, j)>> \o f[j + Width(str[j])]
    BY <2>2, <2>3
  <2> QED
    BY <2>4 DEF j
<1>6. 0 \in P
  <2> SUFFICES ASSUME NEW i \in 1..(L + 3), i + 0 >= L + 1 PROVE f[i + k] = g[i]
    OBVIOUS
  <2>1. i > L
    BY <1>1
  <2> QED
    BY <1>4, <1>5, <2>1
<1>7. ASSUME NEW m \in Nat, m \in P PROVE m + 1 \in P
  <2> SUFFICES ASSUME NEW i \in 1..(L + 3), i + (m + 1) >= L + 1 PROVE f[i + k] = g[i]
    OBVIOUS
  <2>1. CASE i > L
    BY <1>4, <1>5, <2>1
  <2>2. CASE ~(i > L)
    <3> DEFINE w == Width(rest[i])
    <3>1. w \in {1, 3}
      BY WidthRange
    <3>2. i \in 1..L
      BY <1>1, <2>2
    <3>3. str[i + k] = rest[i] /\ Decoded(str, i + k) = Decoded(rest, i)
      BY <1>2, <1>3, <3>2
    <3>4. g[i] = <<Decoded(rest, i)>> \o g[i + w]
      BY <1>4, <2>2
    <3>5. f[i + k] = <<Decoded(rest, i)>> \o f[(i + k) + w]
      <4>1. f[i + k] = <<Decoded(str, i + k)>> \o f[(i + k) + Width(str[i + k])]
        BY <1>5, <2>2
      <4> QED
        BY <3>3, <4>1
    <3> HIDE DEF w
    <3>6. i + w \in 1..(L + 3) /\ (i + w) + m >= L + 1 /\ (i + k) + w = (i + w) + k
      BY <1>1, <3>1, <3>2
    <3>7. f[(i + w) + k] = g[i + w]
      BY <1>7, <3>6
    <3> HIDE DEF P
    <3> QED
      BY <3>4, <3>5, <3>6, <3>7
  <2> QED
    BY <2>1, <2>2
<1>8. \A m \in Nat : m \in P
  <2> HIDE DEF P
  <2> QED
    BY <1>6, <1>7, NumberInduction
<1> SUFFICES ASSUME NEW i \in 1..(L + 3) PROVE f[i + k] = g[i]
  BY DEF L
<1>9. L + 1 \in P /\ i + (L + 1) >= L + 1
  <2>1. L + 1 \in Nat /\ i + (L + 1) >= L + 1
    BY <1>1
  <2> HIDE DEF P
  <2> QED
    BY <1>8, <2>1
<1> QED
  BY <1>9

LEMMA UrlDecodeIs ==
    ASSUME NEW S, NEW str \in Seq(S), NEW f, Decodes(f, str)
    PROVE  UrlDecode(str) = f[1]
<1> DEFINE g == CHOOSE g : Decodes(g, str)
<1>1. Decodes(g, str)
  BY DecodeExists
<1>2. UrlDecode(str) = g[1]
  BY DEF UrlDecode, Decodes, Decoded
<1> HIDE DEF g
<1>3. /\ 0 \in Nat /\ Len(str) = Len(str) + 0
      /\ \A i \in 1..Len(str) : str[i + 0] = str[i]
  OBVIOUS
<1>4. \A i \in 1..(Len(str) + 3) : f[i + 0] = g[i]
  BY <1>1, <1>3, DecodeBehind
<1>5. 1 \in 1..(Len(str) + 3) /\ 1 + 0 = 1
  OBVIOUS
<1> QED
  BY <1>2, <1>4, <1>5

LEMMA DecodeNone == UrlDecode(<<>>) = <<>>
<1>1. <<>> \in Seq(Char)
  OBVIOUS
<1>2. PICK f : Decodes(f, <<>>)
  BY <1>1, DecodeExists
<1>3. f[1] = <<>>
  <2>1. 1 \in 1..(Len(<<>>) + 3) /\ 1 > Len(<<>>)
    OBVIOUS
  <2> QED
    BY <1>2, <2>1, DecodesAt
<1> QED
  BY <1>1, <1>2, <1>3, UrlDecodeIs

\* What the query may consist of.
TextChar == Char \cup {"&", "=", "%", "0", "2", "3", "5", "6", "B", "D"}

\* What the service writes for a character.
Encoded(c) == IF c \in DOMAIN Digits THEN <<"%">> \o Digits[c] ELSE <<c>>

LEMMA DigitsOf ==
    /\ DOMAIN Digits = {"&", "=", "%", "+", " "}
    /\ Digits["&"] = <<"2", "6">> /\ Digits["="] = <<"3", "D">> /\ Digits["%"] = <<"2", "5">>
    /\ Digits["+"] = <<"2", "B">> /\ Digits[" "] = <<"2", "0">>
BY DEF Digits

LEMMA DigitsDiffer ==
    ASSUME NEW c \in DOMAIN Digits, NEW d \in DOMAIN Digits, Digits[c] = Digits[d] PROVE c = d
<1>1. \A p, a, b : p = <<a, b>> => p[2] = b
  OBVIOUS
<1>2. Digits["&"][2] = "6"
  <2>1. Digits["&"] = <<"2", "6">>
    BY DigitsOf
  <2> QED
    BY ONLY <1>1, <2>1
<1>3. Digits["="][2] = "D"
  <2>1. Digits["="] = <<"3", "D">>
    BY DigitsOf
  <2> QED
    BY ONLY <1>1, <2>1
<1>4. Digits["%"][2] = "5"
  <2>1. Digits["%"] = <<"2", "5">>
    BY DigitsOf
  <2> QED
    BY ONLY <1>1, <2>1
<1>5. Digits["+"][2] = "B"
  <2>1. Digits["+"] = <<"2", "B">>
    BY DigitsOf
  <2> QED
    BY ONLY <1>1, <2>1
<1>6. Digits[" "][2] = "0"
  <2>1. Digits[" "] = <<"2", "0">>
    BY DigitsOf
  <2> QED
    BY ONLY <1>1, <2>1
<1>7. Digits[c][2] = Digits[d][2]
  OBVIOUS
<1>8. c \in {"&", "=", "%", "+", " "} /\ d \in {"&", "=", "%", "+", " "}
  BY DigitsOf
<1> QED
  BY <1>2, <1>3, <1>4, <1>5, <1>6, <1>7, <1>8

LEMMA TwoDigits ==
    ASSUME NEW c \in DOMAIN Digits
    PROVE  \E a, b \in {"0", "2", "3", "5", "6", "B", "D"} : Digits[c] = <<a, b>>
<1>1. CASE c = "&"
  BY <1>1, DigitsOf
<1>2. CASE c = "="
  BY <1>2, DigitsOf
<1>3. CASE c = "%"
  BY <1>3, DigitsOf
<1>4. CASE c = "+"
  BY <1>4, DigitsOf
<1>5. CASE c = " "
  BY <1>5, DigitsOf
<1> QED
  BY <1>1, <1>2, <1>3, <1>4, <1>5, DigitsOf

\* What is written for a character is one to three of them, none with a meaning of
\* its own in a query.
LEMMA EncodedShape ==
    ASSUME NEW c \in TextChar
    PROVE  /\ Encoded(c) \in Seq(TextChar)
           /\ Len(Encoded(c)) = Width(Encoded(c)[1])
           /\ \A i \in 1..Len(Encoded(c)) : Encoded(c)[i] \notin {"&", "="}
           /\ c \notin DOMAIN Digits => Encoded(c) = <<c>>
           /\ c \in DOMAIN Digits =>
                 /\ Len(Encoded(c)) = 3 /\ Encoded(c)[1] = "%"
                 /\ <<Encoded(c)[2], Encoded(c)[3]>> = Digits[c]
<1>1. CASE c \notin DOMAIN Digits
  <2>1. Encoded(c) = <<c>>
    BY <1>1 DEF Encoded
  <2>2. c \notin {"&", "=", "%"}
    BY <1>1, DigitsOf
  <2> QED
    BY <1>1, <2>1, <2>2 DEF Width
<1>2. CASE c \in DOMAIN Digits
  <2>1. PICK a \in {"0", "2", "3", "5", "6", "B", "D"}, b \in {"0", "2", "3", "5", "6", "B", "D"} :
           Digits[c] = <<a, b>>
    BY <1>2, TwoDigits
  <2>2. Encoded(c) = <<"%">> \o <<a, b>>
    BY <1>2, <2>1 DEF Encoded
  <2> DEFINE e == Encoded(c)
  <2>3. /\ e \in Seq(TextChar) /\ Len(e) = 3
        /\ e[1] = "%" /\ e[2] = a /\ e[3] = b
    <3>1. <<"%">> \in Seq(TextChar) /\ <<a, b>> \in Seq(TextChar)
      <4>1. "%" \in TextChar /\ a \in TextChar /\ b \in TextChar
        BY DEF TextChar
      <4> QED
        BY ONLY <4>1
    <3>2. Len(<<"%">>) = 1 /\ Len(<<a, b>>) = 2
      OBVIOUS
    <3> QED
      BY <2>2, <3>1, <3>2
  <2> HIDE DEF e
  <2>4. \A i \in 1..Len(e) : e[i] \notin {"&", "="}
    BY <2>3
  <2>5. Len(e) = Width(e[1])
    BY <2>3 DEF Width
  <2>6. <<e[2], e[3]>> = Digits[c]
    BY <2>1, <2>3
  <2> QED
    BY <1>2, <2>3, <2>4, <2>5, <2>6 DEF e
<1> QED
  BY <1>1, <1>2

LEMMA DecodeFirst ==
    ASSUME NEW c \in TextChar, NEW rest \in Seq(TextChar)
    PROVE  UrlDecode(Encoded(c) \o rest) = <<c>> \o UrlDecode(rest)
<1> DEFINE enc == Encoded(c)
           str == enc \o rest
           k == Len(enc)
<1>1. enc \in Seq(TextChar) /\ k = Width(enc[1]) /\ k \in {1, 3}
  BY EncodedShape, WidthRange
<1>2. /\ c \notin DOMAIN Digits => enc = <<c>>
      /\ c \in DOMAIN Digits => k = 3 /\ enc[1] = "%" /\ <<enc[2], enc[3]>> = Digits[c]
  BY EncodedShape
<1> HIDE DEF enc
<1>3. /\ str \in Seq(TextChar) /\ Len(str) = Len(rest) + k
      /\ \A i \in 1..k : str[i] = enc[i]
      /\ \A i \in 1..Len(rest) : str[i + k] = rest[i]
  BY <1>1
<1> HIDE DEF str, k
<1>4. PICK f : Decodes(f, str)
  BY <1>3, DecodeExists
<1>5. PICK g : Decodes(g, rest)
  BY DecodeExists
<1>6. f[1 + k] = g[1]
  <2>1. \A i \in 1..(Len(rest) + 3) : f[i + k] = g[i]
    <3>1. str \in Seq(TextChar) /\ rest \in Seq(TextChar) /\ k \in Nat
      BY <1>1, <1>3
    <3>2. Len(str) = Len(rest) + k /\ \A i \in 1..Len(rest) : str[i + k] = rest[i]
      BY <1>3
    <3> QED
      BY ONLY <1>4, <1>5, <3>1, <3>2, DecodeBehind
  <2>2. 1 \in 1..(Len(rest) + 3)
    OBVIOUS
  <2> QED
    BY <2>1, <2>2
<1>7. f[1] = <<Decoded(str, 1)>> \o f[1 + Width(str[1])]
  <2>1. Len(rest) \in Nat
    OBVIOUS
  <2>2. 1 \in 1..(Len(str) + 3) /\ ~(1 > Len(str))
    BY <1>1, <1>3, <2>1
  <2> QED
    BY <1>4, <2>2, DecodesAt
<1>8. str[1] = enc[1] /\ Width(str[1]) = k
  BY <1>1, <1>3
<1>9. Decoded(str, 1) = c
  <2>1. CASE c \notin DOMAIN Digits
    <3>1. str[1] = c
      BY <1>2, <1>8, <2>1
    <3>2. c # "%" /\ c # "+"
      BY <2>1, DigitsOf
    <3> QED
      BY <3>1, <3>2 DEF Decoded
  <2>2. CASE c \in DOMAIN Digits
    <3>1. k = 3 /\ str[1] = "%" /\ str[2] = enc[2] /\ str[3] = enc[3]
      BY <1>2, <1>3, <1>8, <2>2
    <3>2. 2 < Len(str) /\ 1 + 1 = 2 /\ 2 + 1 = 3
      <4>1. Len(rest) \in Nat
        OBVIOUS
      <4> QED
        BY <1>3, <3>1, <4>1
    <3>3. <<str[2], str[3]>> = Digits[c]
      BY <1>2, <2>2, <3>1
    <3> DEFINE A == {d \in DOMAIN Digits : 2 < Len(str) /\ <<str[2], str[2 + 1]>> = Digits[d]}
    <3>4. A = {d \in DOMAIN Digits : Digits[c] = Digits[d]}
      BY <3>2, <3>3
    <3>5. \A d \in DOMAIN Digits : Digits[c] = Digits[d] => d = c
      BY <2>2, DigitsDiffer
    <3>6. A = {c}
      BY <2>2, <3>4, <3>5
    <3>7. Character(str, 2) = IF A = {} THEN "junk" ELSE CHOOSE d \in A : TRUE
      BY DEF Character
    <3> HIDE DEF A
    <3>8. Character(str, 2) = c
      BY <3>6, <3>7
    <3> QED
      BY <3>1, <3>2, <3>8 DEF Decoded
  <2> QED
    BY <2>1, <2>2
<1>10. UrlDecode(str) = f[1] /\ UrlDecode(rest) = g[1]
  BY <1>3, <1>4, <1>5, UrlDecodeIs
<1> QED
  BY <1>6, <1>7, <1>8, <1>9, <1>10 DEF str, enc

LEMMA UrlEncodeNone == UrlEncode(<<>>) = <<>>
<1>1. [i \in DOMAIN <<>> |-> IF <<>>[i] \in DOMAIN Digits
                                THEN <<"%">> \o Digits[<<>>[i]] ELSE <<<<>>[i]>>] = <<>>
  OBVIOUS
<1> QED
  BY <1>1, FlattenNone DEF UrlEncode

LEMMA UrlEncodeAppend ==
    ASSUME NEW v \in Seq(TextChar), NEW c \in TextChar
    PROVE  UrlEncode(Append(v, c)) = UrlEncode(v) \o Encoded(c)
<1> DEFINE n == Len(v)
           more == Append(v, c)
           old == [i \in 1..n |-> Encoded(v[i])]
           new == [i \in 1..(n + 1) |-> Encoded(more[i])]
<1>1. /\ n \in Nat /\ DOMAIN v = 1..n /\ DOMAIN more = 1..(n + 1)
      /\ more[n + 1] = c /\ \A i \in 1..n : more[i] = v[i] /\ v[i] \in TextChar
  BY AppendProperties
<1>2. UrlEncode(v) = FlattenSeq(old) /\ UrlEncode(more) = FlattenSeq(new)
  BY <1>1 DEF UrlEncode, Encoded
<1> HIDE DEF n, more
<1>3. Encoded(c) \in Seq(TextChar) /\ \A i \in 1..n : Encoded(v[i]) \in Seq(TextChar)
  BY <1>1, EncodedShape
<1>4. old \in Seq(Seq(TextChar)) /\ Len(old) = n
  BY <1>1, <1>3
<1>5. /\ new \in Seq(Seq(TextChar)) /\ Len(new) = n + 1 /\ new[n + 1] = Encoded(c)
      /\ \A i \in 1..n : new[i] = old[i]
  <2>1. \A i \in 1..(n + 1) : i \in 1..n \/ i = n + 1
    BY <1>1
  <2>2. \A i \in 1..(n + 1) : Encoded(more[i]) \in Seq(TextChar)
    BY <1>1, <1>3, <2>1
  <2> QED
    BY <1>1, <2>2
<1> HIDE DEF old, new
<1>6. FlattenSeq(new) = FlattenSeq(old) \o new[Len(new)]
  BY <1>4, <1>5, FlattenLonger
<1> QED
  BY <1>2, <1>5, <1>6 DEF more

\* What is written for a value has no character that ends it.
LEMMA UrlEncodeShape ==
    ASSUME NEW v \in Seq(TextChar)
    PROVE  /\ UrlEncode(v) \in Seq(TextChar)
           /\ \A i \in 1..Len(UrlEncode(v)) : UrlEncode(v)[i] \notin {"&", "="}
<1> DEFINE Plain(e) == e \in Seq(TextChar) /\ \A i \in 1..Len(e) : e[i] \notin {"&", "="}
           P == {w \in Seq(TextChar) : Plain(UrlEncode(w))}
<1>1. <<>> \in P
  <2>1. <<>> \in Seq(TextChar) /\ Len(<<>>) = 0
    OBVIOUS
  <2>2. Plain(<<>>)
    BY <2>1
  <2> QED
    BY <2>1, <2>2, UrlEncodeNone
<1>2. \A w \in Seq(TextChar) : \A c \in TextChar : w \in P => Append(w, c) \in P
  <2> SUFFICES ASSUME NEW w \in Seq(TextChar), NEW c \in TextChar, Plain(UrlEncode(w))
               PROVE  Append(w, c) \in Seq(TextChar) /\ Plain(UrlEncode(Append(w, c)))
    OBVIOUS
  <2>1. Append(w, c) \in Seq(TextChar)
    BY AppendProperties
  <2>2. Plain(Encoded(c))
    BY EncodedShape
  <2> DEFINE a == UrlEncode(w)
             b == Encoded(c)
  <2>3. Plain(a) /\ Plain(b)
    BY <2>2
  <2>4. UrlEncode(Append(w, c)) = a \o b
    BY UrlEncodeAppend
  <2> HIDE DEF a, b
  <2>5. Plain(a \o b)
    BY <2>3, ConcatProperties
  <2> QED
    BY <2>1, <2>4, <2>5
<1>3. \A w \in Seq(TextChar) : w \in P
  <2> HIDE DEF P
  <2> QED
    BY <1>1, <1>2, SequenceInduction
<1> QED
  BY <1>3

\* In front of anything that decodes, what was written for a value decodes to it.
LEMMA DecodeFront ==
    ASSUME NEW v \in Seq(TextChar)
    PROVE  \A rest \in Seq(TextChar) : UrlDecode(rest) \in Seq(TextChar) =>
               UrlDecode(UrlEncode(v) \o rest) = v \o UrlDecode(rest)
<1> DEFINE InFront(w) ==
        \A rest \in Seq(TextChar) : UrlDecode(rest) \in Seq(TextChar) =>
               UrlDecode(UrlEncode(w) \o rest) = w \o UrlDecode(rest)
           P == {w \in Seq(TextChar) : InFront(w)}
<1>1. <<>> \in P
  <2> SUFFICES ASSUME NEW rest \in Seq(TextChar), UrlDecode(rest) \in Seq(TextChar)
               PROVE  UrlDecode(UrlEncode(<<>>) \o rest) = <<>> \o UrlDecode(rest)
    OBVIOUS
  <2> QED
    BY UrlEncodeNone, ConcatEmptySeq
<1>2. \A w \in Seq(TextChar) : \A c \in TextChar : w \in P => Append(w, c) \in P
  <2> SUFFICES ASSUME NEW w \in Seq(TextChar), NEW c \in TextChar, InFront(w),
                      NEW rest \in Seq(TextChar), UrlDecode(rest) \in Seq(TextChar)
               PROVE  UrlDecode(UrlEncode(Append(w, c)) \o rest)
                          = Append(w, c) \o UrlDecode(rest)
    BY AppendProperties
  <2> DEFINE a == UrlEncode(w)
             b == Encoded(c)
             d == UrlDecode(rest)
  <2>1. a \in Seq(TextChar) /\ b \in Seq(TextChar) /\ <<c>> \in Seq(TextChar)
    BY UrlEncodeShape, EncodedShape
  <2>2. UrlEncode(Append(w, c)) \o rest = a \o (b \o rest)
    <3>1. UrlEncode(Append(w, c)) = a \o b
      BY UrlEncodeAppend
    <3> HIDE DEF a, b
    <3> QED
      <4>1. rest \in Seq(TextChar)
        OBVIOUS
      <4> QED
        BY ONLY <2>1, <3>1, <4>1, ConcatAssociative
  <2>3. UrlDecode(b \o rest) = <<c>> \o d
    BY DecodeFirst
  <2>4. b \o rest \in Seq(TextChar) /\ <<c>> \o d \in Seq(TextChar)
    <3> HIDE DEF b, d
    <3>1. d \in Seq(TextChar)
      BY DEF d
    <3> QED
      BY <2>1, <3>1, ConcatProperties
  <2>5. UrlDecode(a \o (b \o rest)) = w \o (<<c>> \o d)
    <3> DEFINE t == b \o rest
    <3>1. t \in Seq(TextChar) /\ UrlDecode(t) = <<c>> \o d /\ UrlDecode(t) \in Seq(TextChar)
      BY <2>3, <2>4
    <3> HIDE DEF t, d, b
    <3>2. UrlDecode(a \o t) = w \o UrlDecode(t)
      BY <3>1
    <3> QED
      BY <3>1, <3>2 DEF t
  <2>6. w \o (<<c>> \o d) = Append(w, c) \o d
    <3> HIDE DEF d
    <3>1. d \in Seq(TextChar)
      BY DEF d
    <3>2. Append(w, c) = w \o <<c>>
      BY AppendIsConcat
    <3> QED
      <4>1. w \in Seq(TextChar)
        OBVIOUS
      <4>2. (w \o <<c>>) \o d = w \o (<<c>> \o d)
        BY ONLY <2>1, <3>1, <4>1, ConcatAssociative
      <4> QED
        BY <3>2, <4>2
  <2> QED
    BY <2>2, <2>5, <2>6
<1>3. \A w \in Seq(TextChar) : w \in P
  <2> HIDE DEF P
  <2> QED
    BY <1>1, <1>2, SequenceInduction
<1> QED
  BY <1>3

LEMMA DecodeEncoded ==
    ASSUME NEW v \in Seq(TextChar) PROVE UrlDecode(UrlEncode(v)) = v
<1>1. <<>> \in Seq(TextChar)
  OBVIOUS
<1>2. UrlDecode(UrlEncode(v) \o <<>>) = v \o <<>>
  BY <1>1, DecodeFront, DecodeNone
<1> QED
  BY <1>2, UrlEncodeShape, ConcatEmptySeq

--------------------------------------------------------------------------------
(* parse_query_param finds the first parameter with the name.                *)

LEMMA MinIs ==
    ASSUME NEW S \in SUBSET Nat, NEW x \in S, \A y \in S : x <= y PROVE Min(S) = x
<1> DEFINE m == CHOOSE z \in S : \A y \in S : z =< y
<1>1. m \in S /\ \A y \in S : m =< y
  OBVIOUS
<1>2. Min(S) = m
  BY DEF Min
<1> HIDE DEF m
<1>3. m <= x /\ x <= m /\ m \in Nat /\ x \in Nat
  BY <1>1
<1> QED
  BY <1>2, <1>3

\* No key= begins before at.
NotBefore(q, key, at) == \A j \in 1..(at - 1) : ~(q[j] = key /\ q[j + 1] = "=")

\* The first key= is at at, followed by v up to the next & or the end.
PlacedAt(q, key, at, v) ==
    /\ at \in Nat \ {0}
    /\ q[at] = key /\ q[at + 1] = "="
    /\ NotBefore(q, key, at)
    /\ at + 1 + Len(v) <= Len(q)
    /\ \A j \in 1..Len(v) : q[at + 1 + j] = v[j]
    /\ at + 1 + Len(v) < Len(q) => q[at + 2 + Len(v)] = "&"

LEMMA ParseNothing ==
    ASSUME NEW S, NEW q \in Seq(S), NEW key, NotBefore(q, key, Len(q))
    PROVE  ParseQueryParam(q, key) = <<>>
<1>1. {i \in 1..(Len(q) - 1) : <<q[i], q[i + 1]>> = <<key, "=">>} = {}
  BY DEF NotBefore
<1> QED
  BY <1>1 DEF ParseQueryParam

LEMMA ParsePlaced ==
    ASSUME NEW S, NEW q \in Seq(S), NEW key, NEW at, NEW v \in Seq(S),
           PlacedAt(q, key, at, v), \A i \in 1..Len(v) : v[i] # "&"
    PROVE  ParseQueryParam(q, key) = UrlDecode(v)
<1> DEFINE L == Len(q)
           n == Len(v)
           P == {i \in 1..(L - 1) : <<q[i], q[i + 1]>> = <<key, "=">>}
           pos == Min(P) + 2
           ends == {i \in pos..L : q[i] = "&"}
           end == IF ends = {} THEN L + 1 ELSE Min(ends)
<1>1. L \in Nat /\ n \in Nat
  OBVIOUS
<1>2. /\ at \in Nat \ {0} /\ q[at] = key /\ q[at + 1] = "=" /\ NotBefore(q, key, at)
      /\ at + 1 + n <= L
      /\ \A j \in 1..n : q[at + 1 + j] = v[j]
      /\ at + 1 + n < L => q[at + 2 + n] = "&"
  BY DEF PlacedAt
<1> HIDE DEF L, n
<1>3. Min(P) = at
  <2>1. P \in SUBSET Nat /\ at \in P
    BY <1>1, <1>2
  <2>2. \A y \in P : at <= y
    <3> SUFFICES ASSUME NEW y \in 1..(L - 1), q[y] = key, q[y + 1] = "=" PROVE at <= y
      OBVIOUS
    <3> QED
      BY <1>1, <1>2 DEF NotBefore
  <2> HIDE DEF P
  <2> QED
    BY <2>1, <2>2, MinIs
<1>4. P # {}
  <2>1. at \in P
    BY <1>1, <1>2
  <2> QED
    BY <2>1
<1>5. ParseQueryParam(q, key) = UrlDecode(SubSeq(q, pos, end - 1))
  <2> HIDE DEF L
  <2>1. P = {i \in 1..(Len(q) - 1) : <<q[i], q[i + 1]>> = <<key, "=">>}
    BY DEF L
  <2> HIDE DEF P
  <2> QED
    BY <1>4, <2>1 DEF ParseQueryParam, L
<1> HIDE DEF P
<1>6. pos = at + 2
  BY <1>3
<1> HIDE DEF pos
<1>7. end = at + 2 + n
  <2>1. \A i \in pos..L : i < at + 2 + n => q[i] # "&"
    <3> SUFFICES ASSUME NEW i \in (at + 2)..L, i < at + 2 + n PROVE q[i] # "&"
      BY <1>6
    <3>1. (i - at - 1) \in 1..n /\ at + 1 + (i - at - 1) = i
      BY <1>1, <1>2
    <3> DEFINE j == i - at - 1
    <3>2. j \in 1..n /\ at + 1 + j = i
      BY <3>1
    <3> HIDE DEF j
    <3>3. q[i] = v[j] /\ v[j] # "&"
      BY <1>2, <3>2 DEF n
    <3> QED
      BY <3>3
  <2>2. CASE at + 1 + n < L
    <3>1. ends \in SUBSET Nat /\ at + 2 + n \in ends
      BY <1>1, <1>2, <1>6, <2>2
    <3>2. \A y \in ends : at + 2 + n <= y
      BY <1>1, <1>2, <1>6, <2>1
    <3> HIDE DEF ends
    <3>3. Min(ends) = at + 2 + n
      BY <3>1, <3>2, MinIs
    <3> QED
      BY <3>1, <3>3
  <2>3. CASE ~(at + 1 + n < L)
    <3>1. ends = {}
      BY <1>1, <1>2, <1>6, <2>1, <2>3
    <3>2. L + 1 = at + 2 + n
      BY <1>1, <1>2, <2>3
    <3> QED
      BY <3>1, <3>2
  <2> QED
    BY <2>2, <2>3
<1> HIDE DEF end
<1>8. SubSeq(q, pos, end - 1) = v
  <2> DEFINE lo == at + 2
             hi == at + 1 + n
  <2>1. /\ pos = lo /\ end - 1 = hi /\ lo \in Int /\ hi \in Int
        /\ hi - lo + 1 = n /\ (lo <= hi => hi - lo + 1 = n) /\ (~(lo <= hi) => n = 0)
    BY <1>1, <1>2, <1>6, <1>7
  <2>2. \A i \in lo..hi : q[i] \in S
    <3>1. \A i \in lo..hi : i \in 1..Len(q)
      BY <1>1, <1>2 DEF L
    <3> QED
      BY <3>1
  <2>3. \A i \in 1..n : q[lo + i - 1] = v[i]
    <3> SUFFICES ASSUME NEW i \in 1..n PROVE q[lo + i - 1] = v[i]
      OBVIOUS
    <3>1. lo + i - 1 = at + 1 + i
      BY <1>1, <1>2
    <3> QED
      BY <1>2, <3>1
  <2> HIDE DEF lo, hi
  <2>4. /\ SubSeq(q, lo, hi) \in Seq(S)
        /\ Len(SubSeq(q, lo, hi)) = IF lo <= hi THEN hi - lo + 1 ELSE 0
        /\ \A i \in 1..(hi - lo + 1) : SubSeq(q, lo, hi)[i] = q[lo + i - 1]
    BY <2>1, <2>2, SubSeqProperties
  <2>5. Len(SubSeq(q, lo, hi)) = n
    BY <2>1, <2>4
  <2>6. \A i \in 1..n : SubSeq(q, lo, hi)[i] = v[i]
    BY <2>1, <2>3, <2>4
  <2> DEFINE w == SubSeq(q, lo, hi)
  <2>7. w \in Seq(S) /\ Len(w) = Len(v) /\ \A i \in 1..Len(v) : w[i] = v[i]
    BY <2>4, <2>5, <2>6 DEF n
  <2> HIDE DEF w
  <2>8. w = v
    BY <2>7, SeqEqual
  <2> QED
    BY <2>1, <2>8 DEF w
<1> QED
  BY <1>5, <1>8

LEMMA ParamShape ==
    ASSUME NEW p \in Param
    PROVE  /\ p.name \in Seq(TextChar) /\ p.value \in Seq(TextChar)
           /\ Len(p.name) \in Nat \ {0}
           /\ \A i \in 1..Len(p.name) : p.name[i] \notin {"&", "="}
<1>1. p.name \in Seq(Char) /\ p.value \in Seq(Char) /\ p.name # <<>>
  BY ParamAssumption
<1>2. p.name \in Seq(TextChar) /\ p.value \in Seq(TextChar)
  <2>1. Char \subseteq TextChar
    BY DEF TextChar
  <2> QED
    BY <1>1, <2>1, SeqMonotonic
<1>3. Len(p.name) \in Nat \ {0} /\ DOMAIN p.name = 1..Len(p.name)
  BY <1>1
<1> QED
  BY <1>2, <1>3, ParamAssumption

\* What stands before a parameter that is not the first.
Separator(params) == IF params = <<>> THEN <<>> ELSE <<"&">>

\* The places of a parameter and the separator in front of it: name, =, value.
LEMMA PartShape ==
    ASSUME NEW p \in Param, NEW sep \in {<<>>, <<"&">>}
    PROVE  LET r == sep \o WriteParam(p)
               n == Len(sep) + Len(p.name)
               enc == UrlEncode(p.value)
           IN  /\ r \in Seq(TextChar)
               /\ Len(r) = n + 1 + Len(enc)
               /\ r[n] = p.name[Len(p.name)]
               /\ r[n + 1] = "="
               /\ \A i \in 1..Len(enc) : r[n + 1 + i] = enc[i]
               /\ \A i \in 1..n : r[i] # "="
               /\ sep # <<>> => r[1] = "&"
<1> DEFINE m == Len(p.name)
           s == Len(sep)
           enc == UrlEncode(p.value)
           e == Len(enc)
           a == p.name \o <<"=">>
           b == a \o enc
           r == sep \o b
<1>1. /\ p.name \in Seq(TextChar) /\ m \in Nat \ {0}
      /\ \A i \in 1..m : p.name[i] \notin {"&", "="}
  BY ParamShape
<1>2. enc \in Seq(TextChar) /\ e \in Nat
  BY ParamShape, UrlEncodeShape
<1>3. <<"=">> \in Seq(TextChar) /\ Len(<<"=">>) = 1 /\ <<"=">>[1] = "="
  <2>1. "=" \in TextChar
    BY DEF TextChar
  <2> QED
    BY ONLY <2>1
<1>4. sep \in Seq(TextChar) /\ s \in {0, 1} /\ (s = 1 => sep[1] = "&") /\ (sep # <<>> => s = 1)
  <2>1. "&" \in TextChar
    BY DEF TextChar
  <2>2. <<>> \in Seq(TextChar) /\ <<"&">> \in Seq(TextChar)
    BY ONLY <2>1
  <2>3. CASE sep = <<>>
    BY <2>2, <2>3
  <2>4. CASE sep = <<"&">>
    BY <2>2, <2>4
  <2> QED
    BY <2>3, <2>4
<1>5. /\ a \in Seq(TextChar) /\ Len(a) = m + 1 /\ a[m + 1] = "="
      /\ \A i \in 1..m : a[i] = p.name[i]
  <2>1. /\ a \in Seq(TextChar) /\ Len(a) = Len(p.name) + Len(<<"=">>)
        /\ \A i \in 1..(Len(p.name) + Len(<<"=">>)) :
              a[i] = IF i <= Len(p.name) THEN p.name[i] ELSE <<"=">>[i - Len(p.name)]
    BY <1>1, <1>3, ConcatProperties
  <2> HIDE DEF a, m
  <2>2. /\ Len(a) = m + 1
        /\ \A i \in 1..(m + 1) : a[i] = IF i <= m THEN p.name[i] ELSE <<"=">>[i - m]
    BY <1>3, <2>1 DEF m
  <2>3. m + 1 \in 1..(m + 1) /\ ~(m + 1 <= m) /\ (m + 1) - m = 1
    BY <1>1
  <2>4. a[m + 1] = "="
    BY <1>3, <2>2, <2>3
  <2> QED
    BY <1>1, <2>1, <2>2, <2>4
<1> HIDE DEF a, enc
<1>6. /\ b \in Seq(TextChar) /\ Len(b) = m + 1 + e
      /\ \A i \in 1..(m + 1) : b[i] = a[i]
      /\ \A i \in 1..e : b[m + 1 + i] = enc[i]
  <2>1. /\ b \in Seq(TextChar) /\ Len(b) = Len(a) + Len(enc)
        /\ \A i \in 1..(Len(a) + Len(enc)) :
              b[i] = IF i <= Len(a) THEN a[i] ELSE enc[i - Len(a)]
    BY <1>2, <1>5, ConcatProperties
  <2> HIDE DEF b, m
  <2>2. /\ Len(b) = m + 1 + e
        /\ \A i \in 1..(m + 1 + e) : b[i] = IF i <= m + 1 THEN a[i] ELSE enc[i - (m + 1)]
    BY <1>5, <2>1
  <2> HIDE DEF e
  <2>3. \A i \in 1..(m + 1) : b[i] = a[i]
    BY <1>1, <1>2, <2>2
  <2>4. ASSUME NEW i \in 1..e PROVE b[m + 1 + i] = enc[i]
    <3>1. m + 1 + i \in 1..(m + 1 + e) /\ ~(m + 1 + i <= m + 1) /\ (m + 1 + i) - (m + 1) = i
      BY <1>1, <1>2
    <3> QED
      BY <2>2, <3>1
  <2> QED
    BY <2>1, <2>2, <2>3, <2>4
<1>7. b = WriteParam(p)
  BY DEF WriteParam, a, enc
<1> HIDE DEF b
<1>8. /\ r \in Seq(TextChar) /\ Len(r) = s + (m + 1 + e)
      /\ \A i \in 1..s : r[i] = sep[i]
      /\ \A i \in 1..(m + 1 + e) : r[s + i] = b[i]
  <2> HIDE DEF s, m, e
  <2>1. /\ r \in Seq(TextChar) /\ Len(r) = s + (m + 1 + e)
        /\ \A i \in 1..(s + (m + 1 + e)) : r[i] = IF i <= s THEN sep[i] ELSE b[i - s]
    <3>1. /\ r \in Seq(TextChar) /\ Len(r) = Len(sep) + Len(b)
          /\ \A i \in 1..(Len(sep) + Len(b)) :
                r[i] = IF i <= Len(sep) THEN sep[i] ELSE b[i - Len(sep)]
      BY <1>4, <1>6, ConcatProperties
    <3> HIDE DEF r
    <3> QED
      BY <1>6, <3>1 DEF s
  <2> HIDE DEF r
  <2>2. \A i \in 1..s : r[i] = sep[i]
    BY <1>1, <1>2, <1>4, <2>1
  <2>3. ASSUME NEW i \in 1..(m + 1 + e) PROVE r[s + i] = b[i]
    <3>1. s + i \in 1..(s + (m + 1 + e)) /\ ~(s + i <= s) /\ (s + i) - s = i
      BY <1>1, <1>2, <1>4
    <3> QED
      BY <2>1, <3>1
  <2> QED
    BY <2>1, <2>2, <2>3
<1> HIDE DEF m, e, s, r
<1>9. Len(r) = (s + m) + 1 + e
  BY <1>1, <1>2, <1>4, <1>8
<1>10. r[s + m] = p.name[m]
  <2>1. m \in 1..(m + 1 + e) /\ m \in 1..(m + 1) /\ m \in 1..m
    BY <1>1, <1>2
  <2> QED
    BY <1>5, <1>6, <1>8, <2>1
<1>11. r[(s + m) + 1] = "="
  <2>1. m + 1 \in 1..(m + 1 + e) /\ m + 1 \in 1..(m + 1) /\ s + (m + 1) = (s + m) + 1
    BY <1>1, <1>2, <1>4
  <2> QED
    BY <1>5, <1>6, <1>8, <2>1
<1>12. ASSUME NEW i \in 1..e PROVE r[(s + m) + 1 + i] = enc[i]
  <2>1. m + 1 + i \in 1..(m + 1 + e) /\ s + (m + 1 + i) = (s + m) + 1 + i
    BY <1>1, <1>2, <1>4
  <2> QED
    BY <1>6, <1>8, <2>1
<1>13. ASSUME NEW i \in 1..(s + m) PROVE r[i] # "="
  <2>1. CASE i <= s
    BY <1>4, <1>8, <2>1
  <2>2. CASE ~(i <= s)
    <3> DEFINE j == i - s
    <3>1. j \in 1..m /\ j \in 1..(m + 1) /\ j \in 1..(m + 1 + e) /\ s + j = i
      BY <1>1, <1>2, <1>4, <2>2
    <3> HIDE DEF j
    <3>2. r[i] = p.name[j]
      BY <1>5, <1>6, <1>8, <3>1
    <3> QED
      BY <1>1, <3>1, <3>2
  <2> QED
    BY <2>1, <2>2
<1>14. sep # <<>> => r[1] = "&"
  BY <1>4, <1>8
<1> QED
  BY <1>7, <1>8, <1>9, <1>10, <1>11, <1>12, <1>13, <1>14 DEF m, s, e, enc, r

QueryPart(params, i) == (IF i = 1 THEN <<>> ELSE <<"&">>) \o WriteParam(params[i])

LEMMA QueryNone == WriteQuery(<<>>) = <<>>
<1>1. [i \in DOMAIN <<>> |-> (IF i = 1 THEN <<>> ELSE <<"&">>) \o WriteParam(<<>>[i])] = <<>>
  OBVIOUS
<1> QED
  BY <1>1, FlattenNone DEF WriteQuery

LEMMA QueryAppend ==
    ASSUME NEW params \in Seq(Param), NEW p \in Param
    PROVE  /\ WriteQuery(params) \in Seq(TextChar)
           /\ WriteQuery(Append(params, p))
                  = WriteQuery(params) \o (Separator(params) \o WriteParam(p))
<1> DEFINE n == Len(params)
           more == Append(params, p)
           old == [i \in 1..n |-> QueryPart(params, i)]
           new == [i \in 1..(n + 1) |-> QueryPart(more, i)]
<1>1. /\ n \in Nat /\ DOMAIN params = 1..n /\ DOMAIN more = 1..(n + 1)
      /\ more[n + 1] = p /\ \A i \in 1..n : more[i] = params[i] /\ params[i] \in Param
      /\ params = <<>> <=> n = 0
  BY AppendProperties
<1>2. WriteQuery(params) = FlattenSeq(old) /\ WriteQuery(more) = FlattenSeq(new)
  BY <1>1 DEF WriteQuery, QueryPart
<1> HIDE DEF n, more
<1>3. \A q \in Seq(Param), i \in Nat : q[i] \in Param => QueryPart(q, i) \in Seq(TextChar)
  BY PartShape DEF QueryPart
<1>4. old \in Seq(Seq(TextChar)) /\ Len(old) = n
  <2>1. \A i \in 1..n : QueryPart(params, i) \in Seq(TextChar)
    BY <1>1, <1>3
  <2> QED
    BY <1>1, <2>1
<1>5. /\ new \in Seq(Seq(TextChar)) /\ Len(new) = n + 1
      /\ new[n + 1] = Separator(params) \o WriteParam(p)
      /\ \A i \in 1..n : new[i] = old[i]
  <2>1. \A i \in 1..(n + 1) : i \in 1..n \/ i = n + 1
    BY <1>1
  <2>2. \A i \in 1..(n + 1) : more[i] \in Param /\ i \in Nat
    BY <1>1, <2>1
  <2>3. \A i \in 1..(n + 1) : QueryPart(more, i) \in Seq(TextChar)
    <3>1. more \in Seq(Param)
      BY AppendProperties DEF more
    <3> QED
      BY <1>3, <2>2, <3>1
  <2>4. QueryPart(more, n + 1) = Separator(params) \o WriteParam(p)
    <3>1. n + 1 = 1 <=> params = <<>>
      BY <1>1
    <3> QED
      BY <1>1, <3>1 DEF QueryPart, Separator
  <2>5. \A i \in 1..n : QueryPart(more, i) = QueryPart(params, i)
    BY <1>1 DEF QueryPart
  <2> QED
    BY <1>1, <2>3, <2>4, <2>5
<1> HIDE DEF old, new
<1>6. FlattenSeq(new) = FlattenSeq(old) \o new[Len(new)]
  BY <1>4, <1>5, FlattenLonger
<1>7. FlattenSeq(old) \in Seq(TextChar)
  BY <1>4, FlattenTyped
<1> QED
  BY <1>2, <1>5, <1>6, <1>7 DEF more

\* The parameters whose name ends in key.
Ending(params, key) == {i \in DOMAIN params : params[i].name[Len(params[i].name)] = key}

\* The first of them is where the text has its first key=, with its value.
FoundFirst(params, key) ==
    \/ Ending(params, key) = {} /\ NotBefore(WriteQuery(params), key, Len(WriteQuery(params)))
    \/ \E m \in Ending(params, key), at \in Nat :
          /\ \A i \in Ending(params, key) : m <= i
          /\ PlacedAt(WriteQuery(params), key, at, UrlEncode(params[m].value))

LEMMA FoundMore ==
    ASSUME NEW params \in Seq(Param), NEW p \in Param, NEW key, FoundFirst(params, key)
    PROVE  FoundFirst(Append(params, p), key)
<1> DEFINE n == Len(params)
           more == Append(params, p)
           q == WriteQuery(params)
           r == Separator(params) \o WriteParam(p)
           L == Len(q)
           E == Ending(params, key)
           E2 == Ending(more, key)
           enc == UrlEncode(p.value)
           e == Len(enc)
           k == Len(Separator(params)) + Len(p.name)
           last == p.name[Len(p.name)]
<1>1. /\ n \in Nat /\ DOMAIN params = 1..n /\ DOMAIN more = 1..(n + 1)
      /\ more[n + 1] = p /\ \A i \in 1..n : more[i] = params[i] /\ params[i] \in Param
      /\ params = <<>> <=> n = 0
  BY AppendProperties
<1>2. q \in Seq(TextChar) /\ WriteQuery(more) = q \o r
  BY QueryAppend
<1>3. Separator(params) \in {<<>>, <<"&">>} /\ (n # 0 => Separator(params) # <<>>)
  BY <1>1 DEF Separator
<1>4. /\ r \in Seq(TextChar) /\ Len(r) = k + 1 + e
      /\ r[k] = last /\ r[k + 1] = "="
      /\ \A i \in 1..e : r[k + 1 + i] = enc[i]
      /\ \A i \in 1..k : r[i] # "="
      /\ n # 0 => r[1] = "&"
  BY <1>3, PartShape
<1>5. k \in Nat \ {0} /\ e \in Nat /\ L \in Nat
  <2>1. Len(Separator(params)) \in Nat
    BY DEF Separator
  <2>2. Len(p.name) \in Nat \ {0} /\ enc \in Seq(TextChar)
    BY ParamShape, UrlEncodeShape
  <2> HIDE DEF enc
  <2> QED
    BY <1>2, <2>1, <2>2
<1>6. \A i \in 1..e : enc[i] # "="
  BY ParamShape, UrlEncodeShape
<1>7. n = 0 => L = 0
  <2>1. n = 0 => q = <<>>
    BY <1>1, QueryNone
  <2> QED
    BY <2>1
<1>8. E2 = E \cup (IF last = key THEN {n + 1} ELSE {})
  <2>1. \A i \in 1..(n + 1) : i \in 1..n \/ i = n + 1
    BY <1>1
  <2>2. \A i \in 1..n : i \in 1..(n + 1) /\ i # n + 1
    BY <1>1
  <2>3. n + 1 \in 1..(n + 1)
    BY <1>1
  <2> HIDE DEF n, more
  <2> QED
    BY <1>1, <2>1, <2>2, <2>3 DEF Ending
<1>9. E \subseteq 1..n
  BY <1>1 DEF Ending
<1> HIDE DEF n, r, e, k, last, E, E2
<1> DEFINE t == q \o r
<1>10. /\ Len(t) = L + (k + 1 + e)
       /\ \A i \in 1..L : t[i] = q[i]
       /\ \A i \in 1..(k + 1 + e) : t[L + i] = r[i]
  <2> HIDE DEF q
  <2>1. /\ Len(t) = Len(q) + Len(r)
        /\ \A i \in 1..(Len(q) + Len(r)) : t[i] = IF i <= Len(q) THEN q[i] ELSE r[i - Len(q)]
    BY <1>2, <1>4, ConcatProperties
  <2> HIDE DEF t
  <2>2. /\ Len(t) = L + (k + 1 + e)
        /\ \A i \in 1..(L + (k + 1 + e)) : t[i] = IF i <= L THEN q[i] ELSE r[i - L]
    BY <1>4, <2>1 DEF L
  <2> HIDE DEF L
  <2>3. \A i \in 1..L : t[i] = q[i]
    BY <1>5, <2>2
  <2>4. ASSUME NEW i \in 1..(k + 1 + e) PROVE t[L + i] = r[i]
    <3>1. L + i \in 1..(L + (k + 1 + e)) /\ ~(L + i <= L) /\ (L + i) - L = i
      BY <1>5
    <3> QED
      BY <2>2, <3>1
  <2> QED
    BY <2>2, <2>3, <2>4
<1> HIDE DEF L, t, q
\* The one new = is behind the name.
<1>11. \A j \in (L + 1)..(L + (k + 1 + e)) : t[j] = "=" => j = L + (k + 1)
  <2> SUFFICES ASSUME NEW j \in (L + 1)..(L + (k + 1 + e)), t[j] = "="
               PROVE  j = L + (k + 1)
    OBVIOUS
  <2> DEFINE i == j - L
  <2>1. i \in 1..(k + 1 + e) /\ L + i = j
    BY <1>5
  <2> HIDE DEF i
  <2>2. r[i] = "="
    BY <1>10, <2>1
  <2>3. ~(i \in 1..k)
    BY <1>4, <2>2
  <2>4. i = k + 1 \/ i - (k + 1) \in 1..e
    BY <1>5, <2>1, <2>3
  <2>5. ~(i - (k + 1) \in 1..e)
    <3> SUFFICES ASSUME i - (k + 1) \in 1..e PROVE FALSE
      OBVIOUS
    <3> DEFINE h == i - (k + 1)
    <3>1. h \in 1..e /\ k + 1 + h = i
      BY <1>5, <2>1
    <3> HIDE DEF h
    <3>2. r[i] = enc[h] /\ enc[h] # "="
      BY <1>4, <1>6, <3>1
    <3> QED
      BY <2>2, <3>2
  <2> QED
    BY <1>5, <2>1, <2>4, <2>5
\* A place that is there already stays the first.
<1>12. ASSUME NEW m \in E, NEW at \in Nat, \A i \in E : m <= i,
              PlacedAt(q, key, at, UrlEncode(params[m].value))
       PROVE  FoundFirst(more, key)
  <2> DEFINE v == UrlEncode(params[m].value)
  <2>1. m \in 1..n /\ m \in E2 /\ more[m] = params[m] /\ n # 0
    BY <1>1, <1>8, <1>9
  <2>2. ASSUME NEW i \in E2 PROVE m <= i
    <3>1. i \in E \/ i = n + 1
      BY <1>8
    <3>2. m <= n + 1
      BY <1>1, <2>1
    <3> QED
      BY <1>12, <3>1, <3>2
  <2>3. v \in Seq(TextChar) /\ Len(v) \in Nat
    <3>1. v \in Seq(TextChar)
      BY <1>1, <2>1, ParamShape, UrlEncodeShape
    <3> QED
      BY <3>1
  <2> HIDE DEF v
  <2>4. PlacedAt(t, key, at, v)
    <3>1. /\ at \in Nat \ {0} /\ q[at] = key /\ q[at + 1] = "=" /\ NotBefore(q, key, at)
          /\ at + 1 + Len(v) <= L
          /\ \A j \in 1..Len(v) : q[at + 1 + j] = v[j]
          /\ at + 1 + Len(v) < L => q[at + 2 + Len(v)] = "&"
      BY <1>12 DEF PlacedAt, L, v
    <3>2. t[at] = key /\ t[at + 1] = "="
      BY <1>5, <1>10, <2>3, <3>1
    <3>3. NotBefore(t, key, at)
      BY <1>5, <1>10, <2>3, <3>1 DEF NotBefore
    <3>4. at + 1 + Len(v) < Len(t)
      BY <1>5, <1>10, <2>3, <3>1
    <3>5. ASSUME NEW j \in 1..Len(v) PROVE t[at + 1 + j] = v[j]
      <4>1. at + 1 + j \in 1..L
        BY <1>5, <2>3, <3>1
      <4> QED
        BY <1>10, <3>1, <4>1
    <3>6. t[at + 2 + Len(v)] = "&"
      <4>1. CASE at + 1 + Len(v) < L
        <5>1. at + 2 + Len(v) \in 1..L
          BY <1>5, <2>3, <3>1, <4>1
        <5> QED
          BY <1>10, <3>1, <4>1, <5>1
      <4>2. CASE ~(at + 1 + Len(v) < L)
        <5> DEFINE len == Len(v)
        <5>1. len \in Nat /\ at + 1 + len <= L /\ ~(at + 1 + len < L)
          BY <2>3, <3>1, <4>2
        <5> HIDE DEF len
        <5>2. at + 2 + len = L + 1
          BY <1>5, <3>1, <5>1
        <5>3. 1 \in 1..(k + 1 + e)
          BY <1>5
        <5>4. t[L + 1] = "&"
          BY <1>4, <1>10, <2>1, <5>3
        <5> QED
          BY <5>2, <5>4 DEF len
      <4> QED
        BY <4>1, <4>2
    <3> QED
      BY <3>1, <3>2, <3>3, <3>4, <3>5, <3>6 DEF PlacedAt
  <2> QED
    BY <1>2, <2>1, <2>2, <2>4 DEF FoundFirst, E2, t, v
<1>13. CASE E = {}
  <2>1. NotBefore(q, key, L)
    BY <1>13 DEF FoundFirst, E, q, L, PlacedAt
  \* What precedes the new = is the last letter of the new name.
  <2>2. ASSUME NEW j \in 1..(L + (k + e)), t[j] = key, t[j + 1] = "=" PROVE j = L + k
    <3>1. CASE j + 1 <= L
      <4>1. j \in 1..(L - 1) /\ j \in 1..L /\ j + 1 \in 1..L
        BY <1>5, <3>1
      <4>2. q[j] = key /\ q[j + 1] = "="
        BY <1>10, <2>2, <4>1
      <4> QED
        BY <2>1, <4>1, <4>2 DEF NotBefore
    <3>2. CASE ~(j + 1 <= L)
      <4>1. j + 1 \in (L + 1)..(L + (k + 1 + e))
        BY <1>5, <3>2
      <4>2. j + 1 = L + (k + 1)
        BY <1>11, <2>2, <4>1
      <4> QED
        BY <1>5, <4>2
    <3> QED
      BY <3>1, <3>2
  <2>3. t[L + k] = last /\ t[L + k + 1] = "="
    <3>1. k \in 1..(k + 1 + e) /\ k + 1 \in 1..(k + 1 + e) /\ L + k + 1 = L + (k + 1)
      BY <1>5
    <3> QED
      BY <1>4, <1>10, <3>1
  <2>4. CASE last = key
    <3> DEFINE at == L + k
    <3>1. at \in Nat \ {0} /\ at + 1 + e = Len(t)
      BY <1>5, <1>10
    <3>2. NotBefore(t, key, at)
      <4> SUFFICES ASSUME NEW j \in 1..(at - 1), t[j] = key, t[j + 1] = "=" PROVE FALSE
        BY DEF NotBefore
      <4>1. j \in 1..(L + (k + e)) /\ j # L + k
        BY <1>5
      <4> QED
        BY <2>2, <4>1
    <3>3. ASSUME NEW j \in 1..e PROVE t[at + 1 + j] = enc[j]
      <4>1. k + 1 + j \in 1..(k + 1 + e) /\ L + (k + 1 + j) = at + 1 + j
        BY <1>5
      <4> QED
        BY <1>4, <1>10, <4>1
    <3>4. t[at] = key /\ t[at + 1] = "="
      BY <2>3, <2>4
    <3> HIDE DEF at, enc
    <3>5. PlacedAt(t, key, at, enc)
      BY <3>1, <3>2, <3>3, <3>4 DEF PlacedAt, e
    <3>6. E2 = {n + 1} /\ n + 1 \in Nat
      BY <1>1, <1>8, <1>13, <2>4
    <3>7. UrlEncode(more[n + 1].value) = enc
      BY <1>1 DEF enc
    <3>8. n + 1 \in Ending(more, key)
      BY <3>6 DEF E2
    <3>9. \A i \in Ending(more, key) : n + 1 <= i
      BY <3>6 DEF E2
    <3>10. PlacedAt(WriteQuery(more), key, at, UrlEncode(more[n + 1].value))
      BY <1>2, <3>5, <3>7 DEF t
    <3>11. at \in Nat
      BY <3>1
    <3> HIDE DEF more
    <3> QED
      BY ONLY <3>8, <3>9, <3>10, <3>11 DEF FoundFirst, more
  <2>5. CASE last # key
    <3>1. E2 = {}
      BY <1>8, <1>13, <2>5
    <3>2. NotBefore(t, key, Len(t))
      <4> SUFFICES ASSUME NEW j \in 1..(Len(t) - 1), t[j] = key, t[j + 1] = "=" PROVE FALSE
        BY DEF NotBefore
      <4>1. j \in 1..(L + (k + e))
        BY <1>5, <1>10
      <4>2. j = L + k
        BY <2>2, <4>1
      <4> QED
        BY <2>3, <2>5, <4>2
    <3> QED
      BY <1>2, <3>1, <3>2 DEF FoundFirst, E2, t
  <2> QED
    BY <2>4, <2>5
<1>14. CASE E # {}
  BY <1>12, <1>14 DEF FoundFirst, E, q
<1> QED
  BY <1>13, <1>14

LEMMA FirstFound == ASSUME NEW key PROVE \A params \in Seq(Param) : FoundFirst(params, key)
<1> DEFINE P == {params \in Seq(Param) : FoundFirst(params, key)}
<1>1. FoundFirst(<<>>, key)
  <2>1. Ending(<<>>, key) = {}
    BY DEF Ending
  <2>2. NotBefore(<<>>, key, Len(<<>>))
    BY DEF NotBefore
  <2> QED
    BY <2>1, <2>2, QueryNone DEF FoundFirst
<1>2. <<>> \in P
  BY <1>1
<1>3. \A params \in Seq(Param) : \A p \in Param : params \in P => Append(params, p) \in P
  <2> SUFFICES ASSUME NEW params \in Seq(Param), NEW p \in Param, FoundFirst(params, key)
               PROVE  Append(params, p) \in Seq(Param) /\ FoundFirst(Append(params, p), key)
    OBVIOUS
  <2> QED
    BY FoundMore
<1>4. \A params \in Seq(Param) : params \in P
  <2> HIDE DEF P
  <2> QED
    BY ONLY <1>2, <1>3, SequenceInduction
<1> QED
  BY <1>4

\* Places with this very name.
Named(params, key) == {i \in DOMAIN params : params[i].name = <<key>>}

\* parse_query_param finds the value that was sent under the name, and nothing if there
\* is no such name, where no longer name with that ending comes first.
LEMMA NamedIsFound ==
    ASSUME NEW params \in Seq(Param), NEW key,
           \A i \in Ending(params, key) : \E j \in 1..i : params[j].name = <<key>>
    PROVE  ParseQueryParam(WriteQuery(params), key)
               = IF Named(params, key) = {} THEN <<>>
                 ELSE params[Min(Named(params, key))].value
<1> DEFINE q == WriteQuery(params)
           E == Ending(params, key)
           N == Named(params, key)
<1>1. /\ Len(params) \in Nat /\ DOMAIN params = 1..Len(params)
      /\ \A i \in DOMAIN params : params[i] \in Param
  OBVIOUS
<1>2. q \in Seq(TextChar)
  <2>1. \A ps \in Seq(Param) : \A p \in Param : WriteQuery(ps) \in Seq(TextChar)
    BY QueryAppend
  <2>2. CASE params = <<>>
    <3>1. q = <<>>
      BY <2>2, QueryNone
    <3>2. <<>> \in Seq(TextChar)
      OBVIOUS
    <3> QED
      BY ONLY <3>1, <3>2
  <2>3. CASE params # <<>>
    <3>1. params[1] \in Param
      BY <1>1, <2>3
    <3> QED
      BY <2>1, <3>1
  <2> QED
    BY <2>2, <2>3
<1>3. N \subseteq E
  <2> SUFFICES ASSUME NEW i \in DOMAIN params, params[i].name = <<key>> PROVE i \in E
    BY DEF Named
  <2>1. Len(params[i].name) = 1 /\ params[i].name[1] = key
    OBVIOUS
  <2> QED
    BY <2>1 DEF Ending
<1>4. \A i \in E : \E j \in N : j <= i
  <2> SUFFICES ASSUME NEW i \in E PROVE \E j \in N : j <= i
    OBVIOUS
  <2>1. i \in 1..Len(params)
    BY <1>1 DEF Ending
  <2>2. PICK j \in 1..i : params[j].name = <<key>>
    OBVIOUS
  <2>3. j \in DOMAIN params /\ j <= i
    BY <1>1, <2>1, <2>2
  <2> QED
    BY <2>2, <2>3 DEF Named
<1>5. E \subseteq 1..Len(params)
  BY <1>1 DEF Ending
<1>6. FoundFirst(params, key)
  BY FirstFound
<1>7. CASE N = {}
  <2>1. E = {}
    BY <1>4, <1>7
  <2>2. NotBefore(q, key, Len(q))
    BY <1>6, <2>1 DEF FoundFirst
  <2>3. ParseQueryParam(q, key) = <<>>
    <3> HIDE DEF q
    <3> QED
      BY <1>2, <2>2, ParseNothing
  <2> QED
    BY <1>7, <2>3
<1>8. CASE N # {}
  <2>1. E # {}
    BY <1>3, <1>8
  <2>2. PICK m \in E, at \in Nat :
          /\ \A i \in E : m <= i
          /\ PlacedAt(q, key, at, UrlEncode(params[m].value))
    BY <1>6, <2>1 DEF FoundFirst
  <2>3. m \in N
    <3>1. PICK j \in N : j <= m
      BY <1>4, <2>2
    <3>2. j \in E /\ m <= j
      BY <1>3, <2>2, <3>1
    <3>3. j = m
      BY <1>1, <1>5, <3>1, <3>2
    <3> QED
      BY <3>1, <3>3
  <2>4. Min(N) = m
    <3>1. N \in SUBSET Nat
      BY <1>1, <1>3, <1>5
    <3>2. \A y \in N : m <= y
      BY <1>3, <2>2
    <3> HIDE DEF N
    <3> QED
      BY <2>3, <3>1, <3>2, MinIs
  <2> DEFINE v == UrlEncode(params[m].value)
  <2>5. params[m] \in Param
    BY <1>1, <1>5, <2>2
  <2>6. params[m].value \in Seq(TextChar)
    BY <2>5, ParamShape
  <2>7. v \in Seq(TextChar) /\ \A i \in 1..Len(v) : v[i] # "&"
    BY <2>6, UrlEncodeShape
  <2>8. ParseQueryParam(q, key) = UrlDecode(v)
    <3> HIDE DEF q, v
    <3>1. PlacedAt(q, key, at, v)
      BY <2>2 DEF v
    <3> QED
      BY <1>2, <2>7, <3>1, ParsePlaced
  <2>9. UrlDecode(v) = params[m].value
    BY <2>6, DecodeEncoded
  <2> QED
    BY <1>8, <2>4, <2>8, <2>9
<1> QED
  BY <1>7, <1>8

\* A redirect carries parameters of the service.
QueryTyped ==
    /\ input.kind \in {"bytes", "reply", "frame", "query"}
    /\ input.kind = "query" => input \in [kind : {"query"}, params : Seq(Param)]

LEMMA QueriesStayTyped == Spec => []QueryTyped
<1>1. Init => QueryTyped
  <2>1. CASE input = [kind |-> "query", params |-> <<>>]
    <3>1. <<>> \in Seq(Param)
      OBVIOUS
    <3> QED
      BY <2>1, <3>1 DEF QueryTyped
  <2>2. ASSUME input.kind \in {"bytes", "reply", "frame"} PROVE QueryTyped
    BY <2>2 DEF QueryTyped
  <2>3. Init => \/ input = [kind |-> "query", params |-> <<>>]
                \/ input.kind \in {"bytes", "reply", "frame"}
    BY DEF Init
  <2> QED
    BY <2>1, <2>2, <2>3
<1>2. QueryTyped /\ [Next]_input => QueryTyped'
  <2> SUFFICES ASSUME QueryTyped, [Next]_input PROVE QueryTyped'
    OBVIOUS
  <2>1. ASSUME NEW b \in Byte, AddByte(b) PROVE QueryTyped'
    BY <2>1 DEF AddByte, QueryTyped
  <2>2. ASSUME NEW device \in ListedDevice, ListDevice(device) PROVE QueryTyped'
    BY <2>2 DEF ListDevice, QueryTyped
  <2>3. ASSUME NEW header, AddUnit(header) PROVE QueryTyped'
    BY <2>3 DEF AddUnit, QueryTyped
  <2>4. ASSUME NEW param \in Param, AddParam(param) PROVE QueryTyped'
    <3>1. input \in [kind : {"query"}, params : Seq(Param)]
      BY <2>4 DEF AddParam, QueryTyped
    <3>2. Append(input.params, param) \in Seq(Param)
      BY <3>1
    <3>3. input' = [input EXCEPT !.params = Append(input.params, param)]
      BY <2>4 DEF AddParam
    <3> HIDE DEF AddParam
    <3>4. input' \in [kind : {"query"}, params : Seq(Param)]
      BY <3>1, <3>2, <3>3
    <3> QED
      BY <3>4 DEF QueryTyped
  <2>5. CASE UNCHANGED input
    BY <2>5 DEF QueryTyped
  <2> QED
    BY <2>1, <2>2, <2>3, <2>4, <2>5 DEF Next
<1> QED
  BY <1>1, <1>2, PTL DEF Spec

LEMMA SentIsFound ==
    ASSUME QueryTyped, input.kind = "query", NEW name, NotShadowed(name)
    PROVE  ParseQueryParam(WriteQuery(input.params), name) = Sent(name)
<1> DEFINE params == input.params
<1>1. params \in Seq(Param)
  BY DEF QueryTyped
<1>2. ASSUME NEW i \in Ending(params, name)
      PROVE  \E j \in 1..i : params[j].name = <<name>>
  <2>1. i \in DOMAIN params /\ params[i].name[Len(params[i].name)] = name /\ i \in 1..i
    BY <1>1, <1>2 DEF Ending
  <2>2. params[i] \in Param
    BY <1>1, <2>1
  <2>3. params[i].name \in Seq(TextChar) /\ Len(params[i].name) \in Nat \ {0}
    BY <2>2, ParamShape
  <2>4. CASE Len(params[i].name) > 1
    BY <2>1, <2>4 DEF NotShadowed, Last
  <2>5. CASE ~(Len(params[i].name) > 1)
    <3>1. Len(params[i].name) = 1
      <4> DEFINE len == Len(params[i].name)
      <4>1. len \in Nat \ {0} /\ ~(len > 1)
        BY <2>3, <2>5
      <4> HIDE DEF len
      <4>2. len = 1
        BY <4>1
      <4> QED
        BY <4>2 DEF len
    <3>2. params[i].name = <<name>>
      BY <2>1, <2>3, <3>1
    <3> QED
      BY <2>1, <3>2
  <2> QED
    BY <2>4, <2>5
<1>3. Sent(name) = IF Named(params, name) = {} THEN <<>> ELSE params[Min(Named(params, name))].value
  BY DEF Sent, Named, Min
<1> QED
  BY <1>1, <1>2, <1>3, NamedIsFound

\* handle_request gives the callback the code and the state that the account service
\* has sent, for parameters of any number, in any order, with any values.
THEOREM CallbackIsExact == Spec => []CallbackGetsWhatWasSent
<1>1. QueryTyped => CallbackGetsWhatWasSent
  <2> SUFFICES ASSUME QueryTyped, input.kind = "query",
                      NotShadowed("code"), NotShadowed("state")
               PROVE  CallbackArguments(WriteQuery(input.params)) =
                          IF Sent("code") = <<>> \/ Sent("state") = <<>> THEN <<>>
                          ELSE <<Sent("code"), Sent("state")>>
    BY DEF CallbackGetsWhatWasSent
  <2>1. /\ ParseQueryParam(WriteQuery(input.params), "code") = Sent("code")
        /\ ParseQueryParam(WriteQuery(input.params), "state") = Sent("state")
    BY SentIsFound
  <2> QED
    BY <2>1 DEF CallbackArguments
<1> QED
  BY <1>1, QueriesStayTyped, PTL

--------------------------------------------------------------------------------
(* The scanner of the device list.                                          *)

\* What a reply is written in.
Lexeme == Word \cup Quote \cup {"{", "}", "list"}

\* A property of texts that joining two of them keeps.
LEMMA FlattenClosed ==
    ASSUME NEW S, NEW C, C \subseteq Seq(S), <<>> \in C, \A s, t \in C : s \o t \in C
    PROVE  \A s \in Seq(C) : FlattenSeq(s) \in C
<1> DEFINE P == {s \in Seq(C) : FlattenSeq(s) \in C}
<1>1. <<>> \in P
  BY FlattenNone
<1>2. \A s \in Seq(C) : \A x \in C : s \in P => Append(s, x) \in P
  <2> SUFFICES ASSUME NEW s \in Seq(C), NEW x \in C, FlattenSeq(s) \in C
               PROVE  Append(s, x) \in Seq(C) /\ FlattenSeq(Append(s, x)) \in C
    OBVIOUS
  <2>1. s \in Seq(Seq(S)) /\ x \in Seq(S)
    BY SeqMonotonic
  <2>2. FlattenSeq(Append(s, x)) = FlattenSeq(s) \o x
    BY <2>1, FlattenAppend
  <2>3. Append(s, x) \in Seq(C)
    BY AppendProperties
  <2> QED
    BY <2>2, <2>3
<1>3. \A s \in Seq(C) : s \in P
  <2> HIDE DEF P
  <2> QED
    BY ONLY <1>1, <1>2, SequenceInduction
<1> QED
  BY <1>3

\* Whatever stands in a part stands in the whole.
LEMMA FlattenKeeps ==
    ASSUME NEW S, NEW x
    PROVE  \A s \in Seq(Seq(S)) :
              (\E i \in 1..Len(s) : \E j \in 1..Len(s[i]) : s[i][j] = x)
                 => \E j \in 1..Len(FlattenSeq(s)) : FlattenSeq(s)[j] = x
<1> DEFINE In(t) == \E j \in 1..Len(t) : t[j] = x
           P == {s \in Seq(Seq(S)) : (\E i \in 1..Len(s) : In(s[i])) => In(FlattenSeq(s))}
<1>1. <<>> \in P
  <2>1. <<>> \in Seq(Seq(S)) /\ ~(\E i \in 1..Len(<<>>) : In(<<>>[i]))
    OBVIOUS
  <2> QED
    BY <2>1
<1>2. \A s \in Seq(Seq(S)) : \A y \in Seq(S) : s \in P => Append(s, y) \in P
  <2> SUFFICES ASSUME NEW s \in Seq(Seq(S)), NEW y \in Seq(S),
                      (\E i \in 1..Len(s) : In(s[i])) => In(FlattenSeq(s)),
                      NEW k \in 1..Len(Append(s, y)), In(Append(s, y)[k])
               PROVE  In(FlattenSeq(Append(s, y)))
    <3>1. \A s \in Seq(Seq(S)) : \A y \in Seq(S) : Append(s, y) \in Seq(Seq(S))
      BY AppendProperties
    <3> HIDE DEF In
    <3> QED
      BY <3>1
  <2> DEFINE f == FlattenSeq(s)
             t == f \o y
  <2>1. f \in Seq(S) /\ FlattenSeq(Append(s, y)) = t
    BY FlattenTyped, FlattenAppend
  <2> HIDE DEF f
  <2>2. /\ t \in Seq(S) /\ Len(t) = Len(f) + Len(y)
        /\ \A i \in 1..(Len(f) + Len(y)) :
              t[i] = IF i <= Len(f) THEN f[i] ELSE y[i - Len(f)]
    BY <2>1, ConcatProperties
  <2> HIDE DEF t
  <2>3. Len(f) \in Nat /\ Len(y) \in Nat
    BY <2>1
  <2>4. In(f) => In(t)
    <3> SUFFICES ASSUME NEW j \in 1..Len(f), f[j] = x PROVE In(t)
      OBVIOUS
    <3>1. j \in 1..Len(t) /\ t[j] = x
      BY <2>2, <2>3
    <3> QED
      BY <3>1
  <2>5. In(y) => In(t)
    <3> SUFFICES ASSUME NEW j \in 1..Len(y), y[j] = x PROVE In(t)
      OBVIOUS
    <3> DEFINE l == Len(f) + j
    <3>1. l \in 1..(Len(f) + Len(y)) /\ ~(l <= Len(f)) /\ l - Len(f) = j
      BY <2>3
    <3> HIDE DEF l
    <3>2. l \in 1..Len(t) /\ t[l] = x
      BY <2>2, <3>1
    <3> QED
      BY <3>2
  <2>6. CASE k = Len(s) + 1
    <3>1. Append(s, y)[k] = y
      BY <2>6, AppendProperties
    <3> QED
      BY <2>1, <2>5, <3>1
  <2>7. CASE k # Len(s) + 1
    <3>1. k \in 1..Len(s) /\ Append(s, y)[k] = s[k]
      BY <2>7, AppendProperties
    <3>2. In(s[k])
      BY <3>1
    <3> HIDE DEF In
    <3> QED
      BY <2>1, <2>4, <3>1, <3>2 DEF f
  <2> QED
    BY <2>6, <2>7
<1>3. \A s \in Seq(Seq(S)) : s \in P
  <2> HIDE DEF P
  <2> QED
    BY ONLY <1>1, <1>2, SequenceInduction
<1> QED
  BY <1>3

LEMMA FindIs ==
    ASSUME NEW text, Len(text) \in Nat, NEW X, NEW from \in Nat, NEW x \in from..Len(text),
           text[x] \in X, \A i \in from..Len(text) : text[i] \in X => x <= i
    PROVE  Find(text, X, from) = x
<1> DEFINE at == {i \in from..Len(text) : text[i] \in X}
<1>1. at \in SUBSET Nat /\ x \in at /\ at # {}
  OBVIOUS
<1>2. \A y \in at : x <= y
  OBVIOUS
<1>3. Find(text, X, from) = IF at = {} THEN 0 ELSE Min(at)
  BY DEF Find
<1> HIDE DEF at
<1>4. Min(at) = x
  BY <1>1, <1>2, MinIs
<1> QED
  BY <1>1, <1>3, <1>4

LEMMA FindNone ==
    ASSUME NEW text, NEW X, NEW from, \A i \in from..Len(text) : text[i] \notin X
    PROVE  Find(text, X, from) = 0
<1>1. {i \in from..Len(text) : text[i] \in X} = {}
  OBVIOUS
<1> QED
  BY <1>1 DEF Find

\* What find gives is the first one, or 0 if there is none.
LEMMA FindFirst ==
    ASSUME NEW text, Len(text) \in Nat, NEW X, NEW from \in Nat
    PROVE  \/ Find(text, X, from) = 0 /\ \A i \in from..Len(text) : text[i] \notin X
           \/ \E x \in from..Len(text) :
                 Find(text, X, from) = x /\ text[x] \in X
                     /\ \A i \in from..Len(text) : text[i] \in X => x <= i
<1> DEFINE at == {i \in from..Len(text) : text[i] \in X}
<1>1. CASE at = {}
  BY <1>1, FindNone
<1>2. CASE at # {}
  <2>1. at \subseteq Nat
    OBVIOUS
  <2>2. PICK x \in at : \A y \in at : x <= y
    <3> HIDE DEF at
    <3> QED
      BY <1>2, <2>1, LeastNumber
  <2>3. x \in from..Len(text) /\ text[x] \in X /\ \A i \in from..Len(text) : text[i] \in X => x <= i
    BY <2>2
  <2>4. Find(text, X, from) = x
    BY <2>3, FindIs
  <2> QED
    BY <2>3, <2>4
<1> QED
  BY <1>1, <1>2

\* Wherever key stands v follows it, and then a quote.
Followed(t, key, v) ==
    \A i \in 1..Len(t) : t[i] = key =>
        /\ i + 1 + Len(v) <= Len(t)
        /\ \A j \in 1..Len(v) : t[i + j] = v[j]
        /\ t[i + 1 + Len(v)] \in Quote

LEMMA FollowedConcat ==
    ASSUME NEW S, NEW s \in Seq(S), NEW t \in Seq(S), NEW key, NEW v, Len(v) \in Nat,
           Followed(s, key, v), Followed(t, key, v)
    PROVE  Followed(s \o t, key, v)
<1> DEFINE r == s \o t
           m == Len(s)
           n == Len(t)
           l == Len(v)
<1>1. /\ r \in Seq(S) /\ Len(r) = m + n
      /\ \A i \in 1..(m + n) : r[i] = IF i <= m THEN s[i] ELSE t[i - m]
  BY ConcatProperties
<1>2. m \in Nat /\ n \in Nat /\ l \in Nat
  OBVIOUS
<1> HIDE DEF r
<1>3. \A i \in 1..m : r[i] = s[i]
  BY <1>1, <1>2
<1>4. ASSUME NEW i \in 1..n PROVE r[m + i] = t[i]
  <2>1. m + i \in 1..(m + n) /\ ~(m + i <= m) /\ (m + i) - m = i
    BY <1>2
  <2> QED
    BY <1>1, <2>1
<1>5. \A i \in 1..m : s[i] = key =>
          /\ i + 1 + l <= m /\ \A j \in 1..l : s[i + j] = v[j] /\ s[i + 1 + l] \in Quote
  BY DEF Followed
<1>6. \A i \in 1..n : t[i] = key =>
          /\ i + 1 + l <= n /\ \A j \in 1..l : t[i + j] = v[j] /\ t[i + 1 + l] \in Quote
  BY DEF Followed
<1> DEFINE Closed(x, i) == x[i + 1 + l] \in Quote
<1>7. ASSUME NEW i \in 1..m, s[i] = key PROVE Closed(s, i)
  BY <1>7 DEF Followed
<1>8. ASSUME NEW i \in 1..n, t[i] = key PROVE Closed(t, i)
  BY <1>8 DEF Followed
<1> HIDE DEF m, n, l
<1>9. ASSUME NEW i \in 1..(m + n), r[i] = key
      PROVE  /\ i + 1 + l <= m + n
             /\ \A j \in 1..l : r[i + j] = v[j]
             /\ r[i + 1 + l] \in Quote
  <2>1. CASE i <= m
    <3>1. i \in 1..m /\ s[i] = key
      BY <1>2, <1>3, <1>9, <2>1
    <3>2. i + 1 + l <= m /\ s[i + 1 + l] \in Quote
      <4>1. i + 1 + l <= m
        BY <1>5, <3>1
      <4>2. s[i + 1 + l] \in Quote
        <5>1. Closed(s, i)
          <6> HIDE DEF Closed
          <6> QED
            BY <1>7, <3>1
        <5> QED
          BY ONLY <5>1
      <4> QED
        BY <4>1, <4>2
    <3>3. ASSUME NEW j \in 1..l PROVE r[i + j] = v[j]
      <4>1. \A h \in 1..l : s[i + h] = v[h]
        BY <1>5, <3>1
      <4>2. i + j \in 1..m
        BY <1>2, <3>1, <3>2
      <4> QED
        BY <1>3, <4>1, <4>2
    <3>4. i + 1 + l \in 1..m
      BY <1>2, <3>1, <3>2
    <3> QED
      BY <1>2, <1>3, <3>2, <3>3, <3>4
  <2>2. CASE ~(i <= m)
    <3> DEFINE k == i - m
    <3>1. k \in 1..n /\ m + k = i
      BY <1>2, <2>2
    <3> HIDE DEF k
    <3>2. t[k] = key
      BY <1>4, <1>9, <3>1
    <3>3. k + 1 + l <= n /\ t[k + 1 + l] \in Quote
      <4>1. k + 1 + l <= n
        BY <1>6, <3>1, <3>2
      <4>2. t[k + 1 + l] \in Quote
        <5>1. Closed(t, k)
          <6> HIDE DEF Closed
          <6> QED
            BY <1>8, <3>1, <3>2
        <5> QED
          BY ONLY <5>1
      <4> QED
        BY <4>1, <4>2
    <3>4. ASSUME NEW j \in 1..l PROVE r[i + j] = v[j]
      <4>1. \A h \in 1..l : t[k + h] = v[h]
        BY <1>6, <3>1, <3>2
      <4>2. k + j \in 1..n /\ m + (k + j) = i + j
        BY <1>2, <3>1, <3>3
      <4> QED
        BY <1>4, <4>1, <4>2
    <3>5. k + 1 + l \in 1..n /\ m + (k + 1 + l) = i + 1 + l
      BY <1>2, <3>1, <3>3
    <3>6. r[i + 1 + l] \in Quote
      BY <1>4, <3>3, <3>5
    <3> QED
      BY <1>2, <3>1, <3>3, <3>4, <3>6
  <2> QED
    BY <2>1, <2>2
<1> QED
  BY <1>1, <1>9 DEF Followed, r, l

LEMMA FollowedNowhere ==
    ASSUME NEW t, NEW key, NEW v, \A i \in 1..Len(t) : t[i] # key PROVE Followed(t, key, v)
BY DEF Followed

\* extract_string takes out what stands between the key and the next quote.
LEMMA ExtractAt ==
    ASSUME NEW S, NEW o \in Seq(S), NEW key, NEW v \in Seq(S),
           NEW pos \in 1..Len(o), Find(o, {key}, 1) = pos, pos + 1 + Len(v) <= Len(o),
           \A j \in 1..Len(v) : o[pos + j] = v[j] /\ v[j] \notin Quote,
           o[pos + 1 + Len(v)] \in Quote
    PROVE  Extract(o, key) = v
<1> DEFINE n == Len(o)
           l == Len(v)
           lo == pos + 1
           hi == pos + l
           end == Find(o, Quote, lo)
<1>1. n \in Nat /\ l \in Nat /\ pos \in 1..n /\ pos # 0
  OBVIOUS
<1>2. lo \in Nat /\ hi \in Int /\ hi - lo + 1 = l /\ (~(lo <= hi) => l = 0)
  BY <1>1
<1>3. Extract(o, key) = IF end = 0 THEN <<>> ELSE SubSeq(o, lo, end - 1)
  BY <1>1 DEF Extract
<1>4. end = hi + 1
  <2> DEFINE x == hi + 1
  <2>1. x \in lo..Len(o)
    BY <1>1
  <2>2. o[x] \in Quote
    <3>1. x = pos + 1 + Len(v)
      BY <1>1
    <3> QED
      BY ONLY <3>1, o[pos + 1 + Len(v)] \in Quote
  <2>3. ASSUME NEW k \in lo..Len(o), k < x PROVE o[k] \notin Quote
    <3> DEFINE j == k - pos
    <3>1. j \in 1..Len(v) /\ pos + j = k
      BY <1>1, <2>3
    <3> HIDE DEF j
    <3> QED
      BY <3>1
  <2>4. \A k \in lo..Len(o) : o[k] \in Quote => x <= k
    BY <1>1, <2>3
  <2> HIDE DEF lo, x
  <2>5. Find(o, Quote, lo) = x
    BY <1>1, <1>2, <2>1, <2>2, <2>4, FindIs
  <2> QED
    BY <2>5 DEF x
<1> HIDE DEF end
<1>5. end # 0 /\ end - 1 = hi
  BY <1>1, <1>4
<1>6. \A k \in lo..hi : o[k] \in S
  BY <1>1
<1>7. ASSUME NEW j \in 1..l PROVE o[lo + j - 1] = v[j]
  <2>1. lo + j - 1 = pos + j
    BY <1>1
  <2> QED
    BY <2>1
<1> HIDE DEF lo, hi
<1>8. /\ SubSeq(o, lo, hi) \in Seq(S)
      /\ Len(SubSeq(o, lo, hi)) = IF lo <= hi THEN hi - lo + 1 ELSE 0
      /\ \A k \in 1..(hi - lo + 1) : SubSeq(o, lo, hi)[k] = o[lo + k - 1]
  BY <1>2, <1>6, SubSeqProperties
<1> DEFINE u == SubSeq(o, lo, hi)
<1>9. Len(u) = l
  BY <1>1, <1>2, <1>8
<1>10. u \in Seq(S) /\ \A j \in 1..l : u[j] = v[j]
  BY <1>2, <1>7, <1>8
<1> HIDE DEF u
<1>11. u = v
  BY <1>9, <1>10, SeqEqual
<1> QED
  BY <1>3, <1>5, <1>11 DEF u

\* extract_string takes v, or nothing, out of any piece of such a text.
LEMMA ExtractPiece ==
    ASSUME NEW S, NEW t \in Seq(S), NEW key, NEW v \in Seq(S), Followed(t, key, v),
           \A j \in 1..Len(v) : v[j] \notin Quote,
           NEW a \in Nat \ {0}, NEW b \in Nat, b <= Len(t)
    PROVE  Extract(SubSeq(t, a, b), key) \in {<<>>, v}
<1> DEFINE o == SubSeq(t, a, b)
           l == Len(v)
           n == Len(o)
           pos == Find(o, {key}, 1)
           end == Find(o, Quote, pos + 1)
<1>1. /\ o \in Seq(S) /\ n \in Nat
      /\ \A i \in 1..n : o[i] = t[a + i - 1] /\ a + i - 1 \in 1..Len(t)
      /\ n <= b - a + 1 \/ n = 0
  <2>1. \A i \in a..b : t[i] \in S /\ i \in 1..Len(t)
    OBVIOUS
  <2>2. /\ o \in Seq(S) /\ Len(o) = IF a <= b THEN b - a + 1 ELSE 0
        /\ \A i \in 1..(b - a + 1) : o[i] = t[a + i - 1]
    BY <2>1, SubSeqProperties
  <2> HIDE DEF o
  <2>3. n \in Nat /\ n = IF a <= b THEN b - a + 1 ELSE 0
    BY <2>2
  <2> HIDE DEF n
  <2>4. ASSUME NEW i \in 1..n PROVE o[i] = t[a + i - 1] /\ a + i - 1 \in 1..Len(t)
    <3>1. i \in 1..(b - a + 1) /\ a + i - 1 \in a..b
      BY <2>3
    <3> QED
      BY <2>1, <2>2, <3>1
  <2> QED
    BY <2>2, <2>3, <2>4
<1>2. l \in Nat
  OBVIOUS
<1> HIDE DEF o
<1>3. Extract(o, key) = IF pos = 0 \/ end = 0 THEN <<>> ELSE SubSeq(o, pos + 1, end - 1)
  BY DEF Extract
<1>4. CASE pos = 0
  BY <1>3, <1>4 DEF o
<1>5. CASE pos # 0
  <2>1. pos \in 1..n /\ o[pos] = key
    BY <1>1, <1>5, FindFirst
  <2> HIDE DEF pos
  <2> DEFINE i == a + pos - 1
  <2>2. i \in 1..Len(t) /\ t[i] = key
    BY <1>1, <2>1
  <2>3. /\ \A j \in 1..l : t[i + j] = v[j]
        /\ t[i + 1 + l] \in Quote
    BY <2>2 DEF Followed
  <2>4. ASSUME NEW j \in 1..l, pos + j \in 1..n PROVE o[pos + j] = v[j]
    <3>1. a + (pos + j) - 1 = i + j
      BY <1>2, <2>1
    <3> QED
      BY <1>1, <2>3, <2>4, <3>1
  <2>5. ASSUME pos + 1 + l \in 1..n PROVE o[pos + 1 + l] \in Quote
    <3>1. a + (pos + 1 + l) - 1 = i + 1 + l
      BY <1>2, <2>1
    <3> QED
      BY <1>1, <2>3, <2>5, <3>1
  <2>6. \A k \in (pos + 1)..n : o[k] \in Quote => pos + 1 + l <= k
    <3> SUFFICES ASSUME NEW k \in (pos + 1)..n, k < pos + 1 + l PROVE o[k] \notin Quote
      BY <1>1, <1>2, <2>1
    <3> DEFINE j == k - pos
    <3>1. j \in 1..l /\ pos + j = k /\ pos + j \in 1..n
      BY <1>1, <1>2, <2>1
    <3> HIDE DEF j
    <3>2. o[k] = v[j]
      BY <2>4, <3>1
    <3> QED
      BY <3>1, <3>2
  <2> HIDE DEF i
  <2>7. CASE pos + 1 + l <= n
    <3>1. o[pos + 1 + l] \in Quote
      BY <1>1, <1>2, <2>1, <2>5, <2>7
    <3>2. ASSUME NEW j \in 1..l PROVE o[pos + j] = v[j] /\ v[j] \notin Quote
      <4>1. pos + j \in 1..n
        BY <1>1, <1>2, <2>1, <2>7
      <4> QED
        BY <2>4, <4>1
    <3>3. Find(o, {key}, 1) = pos
      BY DEF pos
    <3>4. o \in Seq(S) /\ v \in Seq(S) /\ pos \in 1..n /\ pos + 1 + l <= n
      BY <1>1, <2>1, <2>7
    <3>5. Extract(o, key) = v
      BY ONLY <3>1, <3>2, <3>3, <3>4, ExtractAt
    <3> QED
      BY <3>5 DEF o
  <2>8. CASE ~(pos + 1 + l <= n)
    <3>1. \A k \in (pos + 1)..n : o[k] \notin Quote
      BY <1>1, <1>2, <2>1, <2>6, <2>8
    <3>2. end = 0
      BY <3>1, FindNone
    <3> QED
      BY <1>3, <3>2 DEF o
  <2> QED
    BY <2>7, <2>8
<1> QED
  BY <1>4, <1>5

\* It takes v out of the whole text if the key is there.
LEMMA ExtractWhole ==
    ASSUME NEW S, NEW t \in Seq(S), NEW key, NEW v \in Seq(S), Followed(t, key, v),
           \A j \in 1..Len(v) : v[j] \notin Quote,
           v = <<>> \/ \E i \in 1..Len(t) : t[i] = key
    PROVE  Extract(t, key) = v
<1> DEFINE pos == Find(t, {key}, 1)
<1>1. Len(t) \in Nat
  OBVIOUS
<1>2. CASE pos = 0
  <2>1. \A i \in 1..Len(t) : t[i] # key
    BY <1>1, <1>2, FindFirst
  <2>2. v = <<>> /\ Extract(t, key) = <<>>
    BY <1>2, <2>1 DEF Extract
  <2> QED
    BY <2>2
<1>3. CASE pos # 0
  <2>1. pos \in 1..Len(t) /\ t[pos] = key
    BY <1>1, <1>3, FindFirst
  <2>2. Find(t, {key}, 1) = pos
    OBVIOUS
  <2> HIDE DEF pos
  <2>3. /\ pos + 1 + Len(v) <= Len(t)
        /\ \A j \in 1..Len(v) : t[pos + j] = v[j]
        /\ t[pos + 1 + Len(v)] \in Quote
    BY <2>1 DEF Followed
  <2> QED
    BY <2>1, <2>2, <2>3, ExtractAt
<1> QED
  BY <1>2, <1>3

Brace(x) == IF x = "{" THEN 1 ELSE IF x = "}" THEN 0 - 1 ELSE 0

LEMMA DepthStep ==
    ASSUME NEW text, NEW a \in Int, NEW b \in Int, a <= b + 1
    PROVE  /\ Depth(text, a, b) \in Int
           /\ Depth(text, a, b + 1) = Depth(text, a, b) + Brace(text[b + 1])
<1> DEFINE C(x) == {i \in Int : text[i] = x}
<1>1. ASSUME NEW x
      PROVE  /\ Cardinality({i \in a..b : text[i] = x}) \in Nat
             /\ Cardinality({i \in a..(b + 1) : text[i] = x})
                   = Cardinality({i \in a..b : text[i] = x})
                        + (IF text[b + 1] = x THEN 1 ELSE 0)
  <2>1. /\ {i \in a..b : text[i] = x} = {i \in a..b : i \in C(x)}
        /\ {i \in a..(b + 1) : text[i] = x} = {i \in a..(b + 1) : i \in C(x)}
        /\ b + 1 \in C(x) <=> text[b + 1] = x
    OBVIOUS
  <2> HIDE DEF C
  <2> QED
    BY <2>1, CountOneMore
<1> DEFINE N(k, x) == Cardinality({i \in a..k : text[i] = x})
<1>2. Depth(text, a, b) = N(b, "{") - N(b, "}")
  BY DEF Depth
<1>3. Depth(text, a, b + 1) = N(b + 1, "{") - N(b + 1, "}")
  BY DEF Depth
<1>4. \A x : N(b, x) \in Nat /\ N(b + 1, x) = N(b, x) + (IF text[b + 1] = x THEN 1 ELSE 0)
  BY <1>1
<1> HIDE DEF N
<1>5. N(b, "{") \in Nat /\ N(b, "}") \in Nat
  BY <1>4
<1>6. /\ N(b + 1, "{") = N(b, "{") + (IF text[b + 1] = "{" THEN 1 ELSE 0)
      /\ N(b + 1, "}") = N(b, "}") + (IF text[b + 1] = "}" THEN 1 ELSE 0)
  BY <1>4
<1> DEFINE x == text[b + 1]
           p == N(b, "{")
           q == N(b, "}")
           d == Depth(text, a, b)
           e == Depth(text, a, b + 1)
           opens == IF x = "{" THEN 1 ELSE 0
           closes == IF x = "}" THEN 1 ELSE 0
<1>7. p \in Nat /\ q \in Nat /\ d = p - q /\ e = (p + opens) - (q + closes)
  BY <1>2, <1>3, <1>5, <1>6
<1>8. \/ opens = 1 /\ closes = 0 /\ Brace(x) = 1
      \/ opens = 0 /\ closes = 1 /\ Brace(x) = 0 - 1
      \/ opens = 0 /\ closes = 0 /\ Brace(x) = 0
  BY DEF Brace
<1> HIDE DEF x, p, q, d, e, opens, closes
<1>9. d \in Int /\ e = d + Brace(x)
  BY <1>7, <1>8
<1> QED
  BY <1>9 DEF x, d, e

LEMMA DepthNone == \A text : \A a \in Int : Depth(text, a, a - 1) = 0
<1> SUFFICES ASSUME NEW text, NEW a \in Int PROVE Depth(text, a, a - 1) = 0
  OBVIOUS
<1>1. a..(a - 1) = {}
  OBVIOUS
<1>2. {i \in a..(a - 1) : text[i] = "{"} = {} /\ {i \in a..(a - 1) : text[i] = "}"} = {}
  BY <1>1
<1>3. Depth(text, a, a - 1) = Cardinality({}) - Cardinality({})
  BY <1>2 DEF Depth
<1> QED
  BY <1>3, CountNone

\* Depth depends on nothing but the lexemes it counts.
LEMMA DepthAlike ==
    ASSUME NEW t, NEW w, NEW k \in Nat, NEW n \in Nat, \A i \in 1..n : t[k + i] = w[i]
    PROVE  \A j \in 0..n : Depth(t, k + 1, k + j) = Depth(w, 1, j)
<1> DEFINE P == {j \in Nat : j <= n => Depth(t, k + 1, k + j) = Depth(w, 1, j)}
<1>1. 0 \in P
  <2>1. k + 1 \in Int /\ 1 \in Int /\ k + 0 = (k + 1) - 1 /\ 0 = 1 - 1
    OBVIOUS
  <2>2. Depth(t, k + 1, (k + 1) - 1) = 0 /\ Depth(w, 1, 1 - 1) = 0
    BY <2>1, DepthNone
  <2> QED
    BY <2>1, <2>2
<1>2. ASSUME NEW j \in Nat, j \in P PROVE j + 1 \in P
  <2> SUFFICES ASSUME j + 1 <= n PROVE Depth(t, k + 1, k + (j + 1)) = Depth(w, 1, j + 1)
    OBVIOUS
  <2>1. Depth(t, k + 1, k + j) = Depth(w, 1, j)
    BY <1>2
  <2>2. t[k + (j + 1)] = w[j + 1]
    <3>1. j + 1 \in 1..n
      OBVIOUS
    <3> QED
      BY <3>1
  <2>3. Depth(t, k + 1, (k + j) + 1) = Depth(t, k + 1, k + j) + Brace(t[(k + j) + 1])
    <3>1. k + 1 \in Int /\ k + j \in Int /\ k + 1 <= (k + j) + 1
      OBVIOUS
    <3> QED
      BY ONLY <3>1, DepthStep
  <2>4. Depth(w, 1, j + 1) = Depth(w, 1, j) + Brace(w[j + 1])
    <3>1. 1 \in Int /\ j \in Int /\ 1 <= j + 1
      OBVIOUS
    <3> QED
      BY ONLY <3>1, DepthStep
  <2>5. (k + j) + 1 = k + (j + 1)
    OBVIOUS
  <2> QED
    BY ONLY <2>1, <2>2, <2>3, <2>4, <2>5
<1>3. \A j \in Nat : j \in P
  <2> HIDE DEF P
  <2> QED
    BY ONLY <1>1, <1>2, NumberInduction
<1> QED
  BY <1>3

LEMMA DepthType ==
    ASSUME NEW t, NEW a \in Int, NEW b \in Int, a <= b + 1 PROVE Depth(t, a, b) \in Int
BY DepthStep

LEMMA DepthSplit ==
    ASSUME NEW t, NEW k \in Nat
    PROVE  \A j \in Nat : Depth(t, 1, k + j) = Depth(t, 1, k) + Depth(t, k + 1, k + j)
<1> DEFINE P == {j \in Nat : Depth(t, 1, k + j) = Depth(t, 1, k) + Depth(t, k + 1, k + j)}
<1>1. Depth(t, 1, k) \in Int
  BY DepthType
<1>2. 0 \in P
  <2>1. k + 1 \in Int /\ k + 0 = (k + 1) - 1 /\ k + 0 = k
    OBVIOUS
  <2>2. Depth(t, k + 1, (k + 1) - 1) = 0
    BY <2>1, DepthNone
  <2> QED
    BY <1>1, <2>1, <2>2
<1>3. ASSUME NEW j \in Nat, j \in P PROVE j + 1 \in P
  <2>1. Depth(t, 1, k + j) = Depth(t, 1, k) + Depth(t, k + 1, k + j)
    BY <1>3
  <2>2. /\ k + 1 \in Int /\ k + j \in Int /\ 1 \in Int
        /\ 1 <= (k + j) + 1 /\ k + 1 <= (k + j) + 1
    OBVIOUS
  <2>3. /\ Depth(t, k + 1, k + j) \in Int
        /\ Depth(t, k + 1, (k + j) + 1) = Depth(t, k + 1, k + j) + Brace(t[(k + j) + 1])
    BY ONLY <2>2, DepthStep
  <2>4. Depth(t, 1, (k + j) + 1) = Depth(t, 1, k + j) + Brace(t[(k + j) + 1])
    BY ONLY <2>2, DepthStep
  <2>5. Brace(t[(k + j) + 1]) \in Int
    BY DEF Brace
  <2>6. Depth(t, 1, (k + j) + 1) = Depth(t, 1, k) + Depth(t, k + 1, (k + j) + 1)
    BY ONLY <1>1, <2>1, <2>3, <2>4, <2>5
  <2>7. (k + j) + 1 = k + (j + 1)
    OBVIOUS
  <2> QED
    BY <2>6, <2>7
<1>4. \A j \in Nat : j \in P
  <2> HIDE DEF P
  <2> QED
    BY ONLY <1>2, <1>3, NumberInduction
<1> QED
  BY <1>4

\* Braces that match in two texts match in both together.
DepthsAdd(s, t) ==
    /\ \A i \in 0..Len(s) : Depth(s \o t, 1, i) = Depth(s, 1, i)
    /\ \A i \in 0..Len(t) : Depth(s \o t, 1, Len(s) + i)
                               = Depth(s, 1, Len(s)) + Depth(t, 1, i)

LEMMA DepthConcat == \A S : \A s, t \in Seq(S) : DepthsAdd(s, t)
<1> SUFFICES ASSUME NEW S, NEW s \in Seq(S), NEW t \in Seq(S) PROVE DepthsAdd(s, t)
  OBVIOUS
<1> DEFINE r == s \o t
           m == Len(s)
           n == Len(t)
<1>1. /\ m \in Nat /\ n \in Nat
      /\ \A i \in 1..(m + n) : r[i] = IF i <= m THEN s[i] ELSE t[i - m]
  BY ConcatProperties
<1> HIDE DEF r, m, n
<1>2. \A i \in 1..m : r[0 + i] = s[i]
  BY <1>1
<1>3. ASSUME NEW i \in 1..n PROVE r[m + i] = t[i]
  <2>1. m + i \in 1..(m + n) /\ ~(m + i <= m) /\ (m + i) - m = i
    BY <1>1
  <2> QED
    BY <1>1, <2>1
<1>4. \A i \in 0..m : Depth(r, 1, i) = Depth(s, 1, i)
  <2>1. \A i \in 0..m : Depth(r, 0 + 1, 0 + i) = Depth(s, 1, i)
    <3>1. 0 \in Nat /\ m \in Nat
      BY <1>1
    <3> QED
      BY ONLY <1>2, <3>1, DepthAlike
  <2>2. 0 + 1 = 1 /\ \A i \in 0..m : 0 + i = i
    BY <1>1
  <2> QED
    BY <2>1, <2>2
<1>5. \A i \in 0..n : Depth(r, m + 1, m + i) = Depth(t, 1, i)
  BY ONLY <1>1, <1>3, DepthAlike
<1>6. \A i \in Nat : Depth(r, 1, m + i) = Depth(r, 1, m) + Depth(r, m + 1, m + i)
  BY ONLY <1>1, DepthSplit
<1>7. m \in 0..m /\ \A i \in 0..n : i \in Nat
  BY <1>1
<1>8. \A i \in 0..n : Depth(r, 1, m + i) = Depth(s, 1, m) + Depth(t, 1, i)
  BY ONLY <1>4, <1>5, <1>6, <1>7
<1> QED
  BY <1>4, <1>8 DEF DepthsAdd, r, m, n

LEMMA BalancedConcat ==
    ASSUME NEW S, NEW s \in Seq(S), NEW t \in Seq(S), Balanced(s), Balanced(t)
    PROVE  Balanced(s \o t)
<1> DEFINE r == s \o t
           m == Len(s)
           n == Len(t)
<1>1. m \in Nat /\ n \in Nat /\ Len(r) = m + n
  OBVIOUS
<1>2. /\ \A i \in 0..m : Depth(r, 1, i) = Depth(s, 1, i)
      /\ \A i \in 0..n : Depth(r, 1, m + i) = Depth(s, 1, m) + Depth(t, 1, i)
  BY DepthConcat DEF DepthsAdd
<1>3. /\ \A i \in 0..m : Depth(s, 1, i) >= 0
      /\ Depth(s, 1, m) = 0
      /\ \A i \in 0..n : Depth(t, 1, i) >= 0
      /\ Depth(t, 1, n) = 0
  BY DEF Balanced
<1>4. \A i \in 0..n : Depth(t, 1, i) \in Int
  BY <1>1, DepthType
<1> HIDE DEF r, m, n
<1>5. \A i \in 0..n : Depth(r, 1, m + i) = Depth(t, 1, i)
  <2> SUFFICES ASSUME NEW i \in 0..n PROVE Depth(r, 1, m + i) = Depth(t, 1, i)
    OBVIOUS
  <2>1. Depth(r, 1, m + i) = Depth(s, 1, m) + Depth(t, 1, i)
    BY <1>2
  <2> QED
    BY <1>3, <1>4, <2>1
<1>6. ASSUME NEW i \in 0..(m + n) PROVE Depth(r, 1, i) >= 0
  <2>1. CASE i \in 0..m
    BY <1>2, <1>3, <2>1
  <2>2. CASE i \notin 0..m
    <3> DEFINE j == i - m
    <3>1. j \in 0..n /\ m + j = i
      BY <1>1, <2>2
    <3> HIDE DEF j
    <3>2. Depth(r, 1, m + j) >= 0
      BY <1>3, <1>5, <3>1
    <3> QED
      BY <3>1, <3>2
  <2> QED
    BY <2>1, <2>2
<1>7. Depth(r, 1, m + n) = 0
  BY <1>1, <1>3, <1>5
<1> QED
  BY <1>1, <1>6, <1>7 DEF Balanced, r

Plain(t) == \A i \in 1..Len(t) : t[i] \notin {"{", "}"}

LEMMA PlainIsBalanced == ASSUME NEW S, NEW t \in Seq(S), Plain(t) PROVE Balanced(t)
<1> DEFINE n == Len(t)
<1>1. n \in Nat
  OBVIOUS
<1>2. ASSUME NEW i \in 0..n
      PROVE  {j \in 1..i : t[j] = "{"} = {} /\ {j \in 1..i : t[j] = "}"} = {}
  <2>1. \A j \in 1..i : j \in 1..Len(t)
    BY <1>1
  <2> QED
    BY <2>1 DEF Plain
<1>3. ASSUME NEW i \in 0..n PROVE Depth(t, 1, i) = 0
  <2>1. Depth(t, 1, i) = Cardinality({}) - Cardinality({})
    BY <1>2 DEF Depth
  <2> QED
    BY <2>1, CountNone
<1>4. n \in 0..n /\ 0 >= 0
  BY <1>1
<1> QED
  BY <1>3, <1>4 DEF Balanced

LEMMA BraceIs == Brace("{") = 1 /\ Brace("}") = 0 - 1
BY DEF Brace

LEMMA DepthOne ==
    ASSUME NEW x PROVE Depth(<<x>>, 1, 0) = 0 /\ Depth(<<x>>, 1, 1) = Brace(x)
<1>1. Depth(<<x>>, 1, 1 - 1) = 0
  BY DepthNone
<1>2. Depth(<<x>>, 1, 0 + 1) = Depth(<<x>>, 1, 0) + Brace(<<x>>[0 + 1])
  <2>1. 1 \in Int /\ 0 \in Int /\ 1 <= 0 + 1
    OBVIOUS
  <2> QED
    BY ONLY <2>1, DepthStep
<1>3. 0 + 1 = 1 /\ 1 - 1 = 0 /\ <<x>>[1] = x /\ Brace(x) \in Int
  BY DEF Brace
<1> QED
  BY <1>1, <1>2, <1>3

\* Inside of a text that matches, between a brace and its counterpart, the depth is not 0.
Encloses(w, x, b, y) ==
    /\ Len(w) = Len(b) + 2 /\ w[1] = x /\ w[Len(b) + 2] = y
    /\ \A i \in 1..Len(b) : w[1 + i] = b[i]
    /\ \A i \in 1..(Len(b) + 1) : Depth(w, 1, i) >= 1
    /\ Depth(w, 1, Len(b) + 2) = 0

LEMMA Enclosed ==
    \A S : \A x, y \in S : \A b \in Seq(S) :
        (Brace(x) = 1 /\ Brace(y) = 0 - 1 /\ Balanced(b))
            => Encloses((<<x>> \o b) \o <<y>>, x, b, y)
<1> SUFFICES ASSUME NEW S, NEW x \in S, NEW y \in S, NEW b \in Seq(S),
                    Brace(x) = 1, Brace(y) = 0 - 1, Balanced(b)
             PROVE  Encloses((<<x>> \o b) \o <<y>>, x, b, y)
  OBVIOUS
<1> DEFINE m == Len(b)
           u == <<x>> \o b
           w == u \o <<y>>
<1>1. /\ m \in Nat /\ <<x>> \in Seq(S) /\ <<y>> \in Seq(S)
      /\ Len(<<x>>) = 1 /\ Len(<<y>>) = 1 /\ <<x>>[1] = x /\ <<y>>[1] = y
  OBVIOUS
<1>2. /\ u \in Seq(S) /\ Len(u) = 1 + m /\ u[1] = x
      /\ \A i \in 1..m : u[1 + i] = b[i]
  OBVIOUS
<1>3. /\ \A i \in 0..1 : Depth(u, 1, i) = Depth(<<x>>, 1, i)
      /\ \A i \in 0..m : Depth(u, 1, 1 + i) = Depth(<<x>>, 1, 1) + Depth(b, 1, i)
  <2> DEFINE o == <<x>>
  <2>1. o \in Seq(S) /\ b \in Seq(S) /\ Len(o) = 1
    BY <1>1
  <2> HIDE DEF o
  <2>2. DepthsAdd(o, b)
    BY ONLY <2>1, DepthConcat
  <2>3. /\ \A i \in 0..Len(o) : Depth(o \o b, 1, i) = Depth(o, 1, i)
        /\ \A i \in 0..Len(b) : Depth(o \o b, 1, Len(o) + i) = Depth(o, 1, Len(o)) + Depth(b, 1, i)
    BY ONLY <2>2 DEF DepthsAdd
  <2> QED
    BY <2>1, <2>3 DEF o
<1> HIDE DEF u
<1>4. /\ w \in Seq(S) /\ Len(w) = m + 2 /\ w[m + 2] = y
      /\ \A i \in 1..(1 + m) : w[i] = u[i]
  BY <1>1, <1>2
<1>5. /\ \A i \in 0..Len(u) : Depth(w, 1, i) = Depth(u, 1, i)
      /\ \A i \in 0..1 : Depth(w, 1, Len(u) + i) = Depth(u, 1, Len(u)) + Depth(<<y>>, 1, i)
  <2> DEFINE c == <<y>>
  <2>1. c \in Seq(S) /\ u \in Seq(S) /\ Len(c) = 1
    BY <1>1, <1>2
  <2> HIDE DEF c
  <2>2. DepthsAdd(u, c)
    BY ONLY <2>1, DepthConcat
  <2>3. /\ \A i \in 0..Len(u) : Depth(u \o c, 1, i) = Depth(u, 1, i)
        /\ \A i \in 0..Len(c) : Depth(u \o c, 1, Len(u) + i) = Depth(u, 1, Len(u)) + Depth(c, 1, i)
    BY ONLY <2>2 DEF DepthsAdd
  <2> QED
    BY <2>1, <2>3 DEF c
<1> HIDE DEF m, w
<1>6. /\ \A i \in 0..m : Depth(b, 1, i) >= 0 /\ Depth(b, 1, i) \in Int
      /\ Depth(b, 1, m) = 0
  <2>1. \A i \in 0..m : Depth(b, 1, i) \in Int
    BY <1>1, DepthType
  <2> QED
    BY <2>1 DEF Balanced, m
<1>7. \A i \in 0..m : Depth(u, 1, 1 + i) = 1 + Depth(b, 1, i)
  BY <1>3, DepthOne
<1>8. ASSUME NEW i \in 1..(m + 1) PROVE Depth(w, 1, i) >= 1
  <2> DEFINE j == i - 1
  <2>1. j \in 0..m /\ 1 + j = i
    BY <1>1
  <2>2. Depth(w, 1, i) = Depth(u, 1, i)
    BY <1>1, <1>2, <1>5
  <2> HIDE DEF j
  <2>3. Depth(u, 1, 1 + j) = 1 + Depth(b, 1, j)
    BY <1>7, <2>1
  <2> QED
    BY <1>6, <2>1, <2>2, <2>3
<1>9. Depth(w, 1, m + 2) = 0
  <2>1. Len(u) + 1 = m + 2 /\ Len(u) = 1 + m /\ m \in 0..m /\ 1 \in 0..1
    BY <1>1, <1>2
  <2>2. Depth(w, 1, Len(u) + 1) = Depth(u, 1, Len(u)) + Depth(<<y>>, 1, 1)
    BY <1>5, <2>1
  <2>3. Depth(u, 1, 1 + m) = 1 + 0
    BY <1>6, <1>7, <2>1
  <2>4. Depth(<<y>>, 1, 1) = 0 - 1
    BY DepthOne
  <2> QED
    BY <2>1, <2>2, <2>3, <2>4
<1>10. w[1] = x /\ \A i \in 1..m : w[1 + i] = b[i]
  <2>1. 1 \in 1..(1 + m) /\ \A i \in 1..m : 1 + i \in 1..(1 + m)
    BY <1>1
  <2> QED
    BY <1>2, <1>4, <2>1
<1>11. Encloses(w, x, b, y)
  BY <1>4, <1>8, <1>9, <1>10 DEF Encloses, m
<1> QED
  BY <1>11 DEF u, w

LEMMA PairIsBalanced ==
    ASSUME NEW x, NEW y, Brace(x) = 1, Brace(y) = 0 - 1 PROVE Balanced(<<x, y>>)
<1> DEFINE S == {x, y}
           b == <<>>
           w == (<<x>> \o b) \o <<y>>
<1>1. b \in Seq(S) /\ Len(b) = 0 /\ x \in S /\ y \in S
  OBVIOUS
<1>2. Balanced(b)
  <2>1. Depth(<<>>, 1, 1 - 1) = 0
    BY DepthNone
  <2>2. Len(<<>>) = 0 /\ 1 - 1 = 0 /\ \A i \in 0..0 : i = 0
    OBVIOUS
  <2> QED
    BY <2>1, <2>2 DEF Balanced
<1>3. w = <<x, y>>
  <2>1. <<x>> \o <<>> = <<x>>
    <3>1. <<x>> \in Seq(S)
      OBVIOUS
    <3> QED
      BY ONLY <3>1, ConcatEmptySeq
  <2>2. <<x>> \o <<y>> = <<x, y>>
    <3>1. <<x>> \in Seq(S) /\ <<y>> \in Seq(S) /\ <<x, y>> \in Seq(S)
      OBVIOUS
    <3>2. <<x>> \o <<y>> \in Seq(S) /\ Len(<<x>> \o <<y>>) = 2
          /\ (<<x>> \o <<y>>)[1] = x /\ (<<x>> \o <<y>>)[2] = y
      BY <3>1
    <3>3. Len(<<x, y>>) = 2 /\ \A i \in 1..2 : i = 1 \/ i = 2
      OBVIOUS
    <3>4. <<x, y>>[1] = x /\ <<x, y>>[2] = y
      OBVIOUS
    <3>5. \A i \in 1..2 : (<<x>> \o <<y>>)[i] = <<x, y>>[i]
      BY <3>2, <3>3, <3>4
    <3> QED
      BY ONLY <3>1, <3>2, <3>3, <3>5, SeqEqual
  <2> QED
    BY <2>1, <2>2
<1> HIDE DEF b, S
<1>4. /\ \A i \in 1..(Len(b) + 1) : Depth(w, 1, i) >= 1
      /\ Depth(w, 1, Len(b) + 2) = 0
  <2>1. Encloses(w, x, b, y)
    BY <1>1, <1>2, Enclosed
  <2> QED
    BY <2>1 DEF Encloses
<1> HIDE DEF w
<1>5. Depth(w, 1, 1) >= 1 /\ Depth(w, 1, 2) = 0
  <2>1. Len(b) + 1 = 1 /\ Len(b) + 2 = 2 /\ 1 \in 1..1
    BY <1>1
  <2> QED
    BY <1>4, <2>1
<1>6. Depth(w, 1, 1) \in Int /\ Depth(w, 1, 0) = 0
  <2>1. 1 \in Int /\ 1 <= 1 + 1 /\ 1 - 1 = 0
    OBVIOUS
  <2>2. Depth(w, 1, 1 - 1) = 0
    BY <2>1, DepthNone
  <2> QED
    BY <2>1, <2>2, DepthType
<1>7. Len(<<x, y>>) = 2 /\ \A i \in 0..2 : i = 0 \/ i = 1 \/ i = 2
  OBVIOUS
<1>8. \A i \in 0..2 : Depth(w, 1, i) >= 0
  BY <1>5, <1>6, <1>7
<1> QED
  BY <1>3, <1>5, <1>7, <1>8 DEF Balanced

LEMMA ObjectEndRange ==
    ASSUME NEW text, Len(text) \in Nat, NEW start \in Nat
    PROVE  ObjectEnd(text, start) = 0 \/ ObjectEnd(text, start) \in start..Len(text)
<1> DEFINE ends == {i \in start..Len(text) : Depth(text, start, i) = 0}
<1>1. ObjectEnd(text, start) = IF ends = {} THEN 0 ELSE Min(ends)
  BY DEF ObjectEnd
<1>2. ends \subseteq start..Len(text) /\ ends \in SUBSET Nat
  OBVIOUS
<1> HIDE DEF ends
<1>3. CASE ends # {}
  <2>1. PICK x \in ends : \A y \in ends : x <= y
    BY <1>2, <1>3, LeastNumber
  <2>2. Min(ends) = x
    BY <1>2, <2>1, MinIs
  <2> QED
    BY <1>1, <1>2, <1>3, <2>1, <2>2
<1> QED
  BY <1>1, <1>3

\* The matching brace is the last lexeme of the object.
LEMMA ObjectEndIs ==
    ASSUME NEW text, Len(text) \in Nat, NEW k \in Nat, NEW n \in Nat \ {0}, k + n <= Len(text),
           NEW w, \A i \in 1..n : text[k + i] = w[i],
           \A i \in 1..(n - 1) : Depth(w, 1, i) >= 1, Depth(w, 1, n) = 0
    PROVE  ObjectEnd(text, k + 1) = k + n
<1> DEFINE start == k + 1
           x == k + n
           ends == {i \in start..Len(text) : Depth(text, start, i) = 0}
<1>1. \A j \in 0..n : Depth(text, k + 1, k + j) = Depth(w, 1, j)
  BY DepthAlike
<1>2. n \in 0..n /\ x \in start..Len(text) /\ start \in Nat
  OBVIOUS
<1>3. x \in ends
  BY <1>1, <1>2
<1>4. ASSUME NEW y \in ends PROVE x <= y
  <2>1. y \in start..Len(text) /\ Depth(text, start, y) = 0
    OBVIOUS
  <2> SUFFICES ASSUME y < x PROVE FALSE
    BY <2>1
  <2> DEFINE j == y - k
  <2>2. j \in 1..(n - 1) /\ j \in 0..n /\ k + j = y
    BY <2>1
  <2> HIDE DEF j
  <2>3. Depth(w, 1, j) = 0
    BY <1>1, <2>1, <2>2
  <2>4. Depth(w, 1, j) >= 1
    BY <2>2
  <2> QED
    BY <2>3, <2>4
<1>5. ends \in SUBSET Nat
  BY <1>2
<1>6. ObjectEnd(text, start) = IF ends = {} THEN 0 ELSE Min(ends)
  BY DEF ObjectEnd
<1> HIDE DEF ends, x
<1>7. Min(ends) = x
  BY <1>3, <1>4, <1>5, MinIs
<1> QED
  BY <1>3, <1>6, <1>7 DEF x

--------------------------------------------------------------------------------
(* What the service writes for a device.                                     *)

\* A value has no quotes or braces; a name may have some, but no keys.
LEMMA ValueShape ==
    ASSUME NEW device \in ListedDevice, NEW key \in Key
    PROVE  /\ device[key] \in Seq(Lexeme) /\ Len(device[key]) \in Nat
           /\ \A i \in 1..Len(device[key]) : device[key][i] \notin Key \cup {"quote"}
           /\ key # "name" =>
                 /\ \A i \in 1..Len(device[key]) : device[key][i] \notin Quote
                 /\ Plain(device[key])
<1> DEFINE v == device[key]
           Letter == Word \cup {"{", "}", "escaped"}
<1>1. \A w \in Word : w \notin Quote \cup {"{", "}"}
  BY ListedAssumption
<1>2. /\ device.did \in Seq(Word) /\ device.model \in Seq(Word) /\ device.name \in Seq(Letter)
      /\ key \in {"did", "name", "model"}
  BY ListedAssumption DEF Key
<1>3. \A l \in Letter : l \notin Key \cup {"quote"} /\ l \in Lexeme
  BY <1>1 DEF Key, Quote, Lexeme
<1>4. \A w \in Word : w \in Letter
  OBVIOUS
<1> HIDE DEF Letter
<1>5. v \in Seq(Letter) /\ (key # "name" => v \in Seq(Word))
  <2>1. device.did \in Seq(Letter) /\ device.model \in Seq(Letter)
    BY <1>2, <1>4, SeqMonotonic
  <2> QED
    BY <1>2, <2>1
<1> HIDE DEF v
<1>6. v \in Seq(Lexeme) /\ Len(v) \in Nat
  BY <1>3, <1>5, SeqMonotonic
<1>7. \A i \in 1..Len(v) : v[i] \in Letter
  BY <1>5
<1>8. key # "name" => \A i \in 1..Len(v) : v[i] \in Word
  BY <1>5
<1>9. \A i \in 1..Len(v) : v[i] \notin Key \cup {"quote"}
  BY <1>3, <1>7
<1>10. key # "name" => (\A i \in 1..Len(v) : v[i] \notin Quote) /\ Plain(v)
  BY <1>1, <1>8 DEF Plain
<1> QED
  BY <1>6, <1>9, <1>10 DEF v

\* The key, the value, and the quote that closes it.
LEMMA WriteFieldShape ==
    ASSUME NEW device \in ListedDevice, NEW key \in Key
    PROVE  LET r == WriteField(device, key)
               v == device[key]
           IN  /\ r \in Seq(Lexeme) /\ Len(r) = Len(v) + 2
               /\ r[1] = key /\ r[Len(v) + 2] = "quote"
               /\ \A i \in 1..Len(v) : r[1 + i] = v[i]
<1> DEFINE v == device[key]
           n == Len(v)
           a == <<key>>
           z == <<"quote">>
           u == a \o v
           r == u \o z
<1>1. v \in Seq(Lexeme) /\ n \in Nat
  BY ValueShape
<1>2. key \in Lexeme /\ "quote" \in Lexeme
  BY DEF Key, Quote, Lexeme
<1>3. a \in Seq(Lexeme) /\ Len(a) = 1 /\ a[1] = key /\ z \in Seq(Lexeme) /\ Len(z) = 1 /\ z[1] = "quote"
  BY ONLY <1>2
<1> HIDE DEF v, a, z
<1>4. /\ u \in Seq(Lexeme) /\ Len(u) = n + 1 /\ u[1] = key
      /\ \A i \in 1..n : u[1 + i] = v[i]
  <2>1. /\ u \in Seq(Lexeme) /\ Len(u) = Len(a) + Len(v)
        /\ \A i \in 1..(Len(a) + Len(v)) : u[i] = IF i <= Len(a) THEN a[i] ELSE v[i - Len(a)]
    BY ONLY <1>1, <1>3, ConcatProperties
  <2> HIDE DEF u, n
  <2>2. Len(u) = n + 1 /\ \A i \in 1..(n + 1) : u[i] = IF i <= 1 THEN a[i] ELSE v[i - 1]
    BY <1>1, <1>3, <2>1 DEF n
  <2>3. u[1] = key
    <3>1. 1 \in 1..(n + 1) /\ 1 <= 1
      BY <1>1
    <3> QED
      BY <1>3, <2>2, <3>1
  <2>4. ASSUME NEW i \in 1..n PROVE u[1 + i] = v[i]
    <3>1. 1 + i \in 1..(n + 1) /\ ~(1 + i <= 1) /\ (1 + i) - 1 = i
      BY <1>1
    <3> QED
      BY <2>2, <3>1
  <2> QED
    BY <2>1, <2>2, <2>3, <2>4
<1> HIDE DEF u, n
<1>5. /\ r \in Seq(Lexeme) /\ Len(r) = n + 2 /\ r[n + 2] = "quote"
      /\ \A i \in 1..(n + 1) : r[i] = u[i]
  <2>1. /\ r \in Seq(Lexeme) /\ Len(r) = Len(u) + Len(z)
        /\ \A i \in 1..(Len(u) + Len(z)) : r[i] = IF i <= Len(u) THEN u[i] ELSE z[i - Len(u)]
    BY ONLY <1>3, <1>4, ConcatProperties
  <2> HIDE DEF r
  <2>2. Len(r) = n + 2 /\ \A i \in 1..(n + 2) : r[i] = IF i <= n + 1 THEN u[i] ELSE z[i - (n + 1)]
    BY <1>1, <1>3, <1>4, <2>1
  <2>3. n + 2 \in 1..(n + 2) /\ ~(n + 2 <= n + 1) /\ (n + 2) - (n + 1) = 1
    BY <1>1
  <2>4. r[n + 2] = "quote"
    BY <1>3, <2>2, <2>3
  <2>5. \A i \in 1..(n + 1) : r[i] = u[i]
    BY <1>1, <2>2
  <2> QED
    BY <2>1, <2>2, <2>4, <2>5
<1> HIDE DEF r
<1>6. r[1] = key
  <2>1. 1 \in 1..(n + 1)
    BY <1>1
  <2> QED
    BY <1>4, <1>5, <2>1
<1>7. ASSUME NEW i \in 1..n PROVE r[1 + i] = v[i]
  <2>1. 1 + i \in 1..(n + 1)
    BY <1>1
  <2> QED
    BY <1>4, <1>5, <2>1
<1>8. r = WriteField(device, key)
  BY DEF WriteField, r, u, a, z, v
<1> QED
  BY <1>5, <1>6, <1>7, <1>8 DEF n, v

\* Behind its own key stands the value of a field; another key is not in it.
LEMMA FieldFollowed ==
    ASSUME NEW device \in ListedDevice, NEW key \in Key, NEW k \in Key
    PROVE  Followed(WriteField(device, key), k, device[k])
<1> DEFINE r == WriteField(device, key)
           v == device[key]
           n == Len(v)
<1>1. n \in Nat /\ \A i \in 1..n : v[i] \notin Key \cup {"quote"}
  BY ValueShape
<1>2. /\ r \in Seq(Lexeme) /\ Len(r) = n + 2 /\ r[1] = key /\ r[n + 2] = "quote"
      /\ \A i \in 1..n : r[1 + i] = v[i]
  BY WriteFieldShape
<1>3. "quote" \notin Key /\ "quote" \in Quote
  BY DEF Key, Quote
<1> HIDE DEF r, v, n
<1>4. ASSUME NEW i \in 1..(n + 2), r[i] = k PROVE i = 1 /\ k = key
  <2>1. i # n + 2
    BY <1>2, <1>3, <1>4
  <2>2. CASE i = 1
    BY <1>2, <1>4, <2>2
  <2>3. CASE i # 1
    <3> DEFINE j == i - 1
    <3>1. j \in 1..n /\ 1 + j = i
      BY <1>1, <2>1, <2>3
    <3> HIDE DEF j
    <3>2. r[i] = v[j] /\ v[j] \notin Key
      BY <1>1, <1>2, <3>1
    <3> QED
      BY <1>4, <3>2
  <2> QED
    BY <2>2, <2>3
<1>5. k = key => device[k] = v
  BY DEF v
<1>6. ASSUME NEW i \in 1..Len(r), r[i] = k
      PROVE  /\ i + 1 + Len(device[k]) <= Len(r)
             /\ \A j \in 1..Len(device[k]) : r[i + j] = device[k][j]
             /\ r[i + 1 + Len(device[k])] \in Quote
  <2>1. i \in 1..(n + 2)
    BY <1>2
  <2>2. i = 1 /\ device[k] = v
    BY <1>4, <1>5, <1>6, <2>1
  <2>3. Len(device[k]) = n
    BY <2>2 DEF n
  <2>4. i + 1 + n = n + 2
    BY <1>1, <2>2
  <2> QED
    BY <1>1, <1>2, <1>3, <2>2, <2>3, <2>4
<1> QED
  BY <1>6 DEF Followed, r

LEMMA NothingIsPlain == Plain(<<>>)
<1>1. \A i \in 1..Len(<<>>) : FALSE
  OBVIOUS
<1> QED
  BY ONLY <1>1 DEF Plain

LEMMA FieldBalanced ==
    ASSUME NEW device \in ListedDevice, NEW key \in Key, Balanced(device.name)
    PROVE  Balanced(WriteField(device, key))
<1> DEFINE v == device[key]
           a == <<key>>
           z == <<"quote">>
<1>1. v \in Seq(Lexeme) /\ (key # "name" => Plain(v))
  BY ValueShape
<1>2. key \in Lexeme /\ "quote" \in Lexeme
  BY DEF Key, Quote, Lexeme
<1>3. a \in Seq(Lexeme) /\ z \in Seq(Lexeme)
  BY ONLY <1>2
<1>4. Plain(a)
  <2>1. key \notin {"{", "}"}
    BY DEF Key
  <2>2. Len(a) = 1 /\ a[1] = key /\ \A i \in 1..1 : i = 1
    BY ONLY TRUE
  <2> HIDE DEF a
  <2>3. \A i \in 1..Len(a) : a[i] = key
    BY ONLY <2>2
  <2> QED
    BY ONLY <2>1, <2>3 DEF Plain
<1>5. Plain(z)
  <2>1. "quote" \notin {"{", "}"}
    OBVIOUS
  <2>2. Len(z) = 1 /\ z[1] = "quote" /\ \A i \in 1..1 : i = 1
    BY ONLY TRUE
  <2> HIDE DEF z
  <2>3. \A i \in 1..Len(z) : z[i] = "quote"
    BY ONLY <2>2
  <2> QED
    BY ONLY <2>1, <2>3 DEF Plain
<1>6. Balanced(v)
  <2>1. CASE key = "name"
    BY <2>1
  <2>2. CASE key # "name"
    <3> HIDE DEF v
    <3> QED
      BY <1>1, <2>2, PlainIsBalanced
  <2> QED
    BY <2>1, <2>2
<1> HIDE DEF v, a, z
<1>7. Balanced(a) /\ Balanced(z)
  BY <1>3, <1>4, <1>5, PlainIsBalanced
<1> DEFINE u == a \o v
<1>8. u \in Seq(Lexeme)
  BY <1>1, <1>3, ConcatProperties
<1>9. Balanced(u)
  BY <1>1, <1>3, <1>6, <1>7, BalancedConcat
<1> HIDE DEF u
<1>10. Balanced(u \o z)
  BY <1>3, <1>7, <1>8, <1>9, BalancedConcat
<1> QED
  BY <1>10 DEF WriteField, u, a, z, v

\* A field that has no value is left out.
Field(device, key) ==
    IF device[key] = <<>> /\ key # "name" THEN <<>> ELSE WriteField(device, key)
Fields(device, order) == FlattenSeq([i \in DOMAIN order |-> Field(device, order[i])])

\* A text in which the value of the field stands wherever its key does.
Tells(t, device) == Followed(t, "did", device.did) /\ Followed(t, "model", device.model)

LEMMA TellsConcat ==
    \A device \in ListedDevice : \A s, t \in Seq(Lexeme) :
        Tells(s, device) /\ Tells(t, device) => Tells(s \o t, device)
<1> SUFFICES ASSUME NEW device \in ListedDevice, NEW s \in Seq(Lexeme), NEW t \in Seq(Lexeme),
                    Tells(s, device), Tells(t, device)
             PROVE  Tells(s \o t, device)
  OBVIOUS
<1>1. Len(device.did) \in Nat /\ Len(device.model) \in Nat
  <2>1. "did" \in Key /\ "model" \in Key
    BY DEF Key
  <2> QED
    BY <2>1, ValueShape
<1>2. Followed(s \o t, "did", device.did)
  BY <1>1, FollowedConcat DEF Tells
<1>3. Followed(s \o t, "model", device.model)
  BY <1>1, FollowedConcat DEF Tells
<1> QED
  BY <1>2, <1>3 DEF Tells

LEMMA FieldShape ==
    ASSUME NEW device \in ListedDevice, NEW key \in Key
    PROVE  /\ Field(device, key) \in Seq(Lexeme)
           /\ Tells(Field(device, key), device)
           /\ Balanced(device.name) => Balanced(Field(device, key))
<1>1. CASE device[key] = <<>> /\ key # "name"
  <2>1. Field(device, key) = <<>>
    BY <1>1 DEF Field
  <2>2. <<>> \in Seq(Lexeme) /\ \A k : \A i \in 1..Len(<<>>) : <<>>[i] # k
    OBVIOUS
  <2>3. Tells(<<>>, device)
    BY <2>2, FollowedNowhere DEF Tells
  <2>4. Balanced(<<>>)
    BY <2>2, NothingIsPlain, PlainIsBalanced
  <2> QED
    BY <2>1, <2>2, <2>3, <2>4
<1>2. CASE ~(device[key] = <<>> /\ key # "name")
  <2>1. Field(device, key) = WriteField(device, key)
    BY <1>2 DEF Field
  <2>2. WriteField(device, key) \in Seq(Lexeme)
    BY WriteFieldShape
  <2>3. "did" \in Key /\ "model" \in Key
    BY DEF Key
  <2>4. Tells(WriteField(device, key), device)
    BY <2>3, FieldFollowed DEF Tells
  <2> QED
    BY <2>1, <2>2, <2>4, FieldBalanced
<1> QED
  BY <1>1, <1>2

LEMMA FieldsShape ==
    ASSUME NEW device \in ListedDevice, NEW order \in FieldOrder
    PROVE  LET t == Fields(device, order)
           IN  /\ t \in Seq(Lexeme)
               /\ Tells(t, device)
               /\ Balanced(device.name) => Balanced(t)
               /\ \A key \in Key : device[key] # <<>> => \E i \in 1..Len(t) : t[i] = key
<1> DEFINE parts == [i \in DOMAIN order |-> Field(device, order[i])]
           t == FlattenSeq(parts)
           C == {s \in Seq(Lexeme) : Tells(s, device)}
           B == {s \in Seq(Lexeme) : Balanced(s)}
<1>1. /\ order \in Seq(Key) /\ DOMAIN order = 1..Len(order) /\ Len(order) \in Nat
      /\ \A i \in 1..Len(order) : order[i] \in Key
      /\ \A key \in Key : \E i \in 1..Len(order) : order[i] = key
  <2>1. order \in Seq(Key) /\ \A key \in Key : \E i \in DOMAIN order : order[i] = key
    BY ListedAssumption
  <2> QED
    BY ONLY <2>1
<1>2. <<>> \in Seq(Lexeme) /\ Tells(<<>>, device) /\ Balanced(<<>>)
  <2>1. <<>> \in Seq(Lexeme) /\ \A k : \A i \in 1..Len(<<>>) : <<>>[i] # k
    OBVIOUS
  <2> QED
    BY <2>1, FollowedNowhere, NothingIsPlain, PlainIsBalanced DEF Tells
<1>3. \A x, y \in Seq(Lexeme) : x \o y \in Seq(Lexeme)
  BY ConcatProperties
<1>4. C \subseteq Seq(Lexeme) /\ <<>> \in C /\ \A x, y \in C : x \o y \in C
  <2>1. \A x, y \in C : x \o y \in C
    BY <1>3, TellsConcat
  <2> QED
    BY <1>2, <2>1
<1>5. B \subseteq Seq(Lexeme) /\ <<>> \in B /\ \A x, y \in B : x \o y \in B
  <2>1. \A x, y \in B : x \o y \in B
    BY <1>3, BalancedConcat
  <2> QED
    BY <1>2, <2>1
<1>6. \A i \in 1..Len(order) : Field(device, order[i]) \in C
  BY <1>1, FieldShape
<1>7. parts \in Seq(C) /\ Len(parts) = Len(order) /\ \A i \in 1..Len(order) : parts[i] = Field(device, order[i])
  <2> HIDE DEF C
  <2> QED
    BY <1>1, <1>6
<1>8. t \in C
  <2> HIDE DEF C, parts
  <2> QED
    BY ONLY <1>4, <1>7, FlattenClosed
<1>9. Balanced(device.name) => t \in B
  <2> SUFFICES ASSUME Balanced(device.name) PROVE t \in B
    OBVIOUS
  <2>1. \A i \in 1..Len(order) : Field(device, order[i]) \in B
    BY <1>1, FieldShape
  <2>2. parts \in Seq(B)
    <3> HIDE DEF B
    <3> QED
      BY <1>1, <2>1
  <2> HIDE DEF B, parts
  <2> QED
    BY ONLY <1>5, <2>2, FlattenClosed
<1>10. ASSUME NEW key \in Key, device[key] # <<>> PROVE \E i \in 1..Len(t) : t[i] = key
  <2>1. PICK i \in 1..Len(order) : order[i] = key
    BY <1>1
  <2>2. parts[i] = WriteField(device, key)
    BY <1>7, <1>10, <2>1 DEF Field
  <2>3. 1 \in 1..Len(parts[i]) /\ parts[i][1] = key
    <3> DEFINE r == WriteField(device, key)
               n == Len(device[key])
    <3>1. Len(r) = n + 2 /\ r[1] = key /\ n \in Nat
      BY WriteFieldShape, ValueShape
    <3> HIDE DEF r, n
    <3>2. 1 \in 1..Len(r)
      BY <3>1
    <3> QED
      BY <2>2, <3>1, <3>2 DEF r
  <2>4. parts \in Seq(Seq(Lexeme))
    BY <1>4, <1>7, SeqMonotonic
  <2>5. i \in 1..Len(parts)
    BY <1>7
  <2>6. \E l \in 1..Len(parts) : \E j \in 1..Len(parts[l]) : parts[l][j] = key
    BY <2>3, <2>5
  <2> HIDE DEF parts
  <2> QED
    BY <2>4, <2>6, FlattenKeeps
<1> QED
  BY <1>8, <1>9, <1>10 DEF Fields

\* Lexemes that are no keys tell nothing.
LEMMA OtherTells ==
    ASSUME NEW device, NEW t, \A i \in 1..Len(t) : t[i] \notin Key PROVE Tells(t, device)
<1>1. "did" \in Key /\ "model" \in Key
  BY DEF Key
<1>2. \A i \in 1..Len(t) : t[i] # "did" /\ t[i] # "model"
  BY <1>1
<1> QED
  BY <1>2, FollowedNowhere DEF Tells

LEMMA BraceLexemes ==
    /\ "{" \in Lexeme /\ "}" \in Lexeme /\ "list" \in Lexeme
    /\ "{" \notin Key /\ "}" \notin Key /\ "list" \notin Key
BY DEF Lexeme, Key

\* One lexeme that is no key.
LEMMA OneTells ==
    ASSUME NEW device, NEW x \in Lexeme, x \notin Key
    PROVE  <<x>> \in Seq(Lexeme) /\ Tells(<<x>>, device)
<1> DEFINE t == <<x>>
<1>1. t \in Seq(Lexeme) /\ Len(t) = 1 /\ t[1] = x /\ \A i \in 1..1 : i = 1
  OBVIOUS
<1> HIDE DEF t
<1>2. \A i \in 1..Len(t) : t[i] \notin Key
  BY <1>1
<1>3. Tells(t, device)
  BY <1>2, OtherTells
<1> QED
  BY <1>1, <1>3 DEF t

\* The object that may stand among the fields.
Extra(device) == IF device.extra THEN <<"{", "}">> ELSE <<>>

LEMMA ExtraShape ==
    ASSUME NEW device
    PROVE  /\ Extra(device) \in Seq(Lexeme)
           /\ Tells(Extra(device), device)
           /\ Balanced(Extra(device))
<1>1. CASE device.extra
  <2> DEFINE o == "{"
             c == "}"
             t == <<o, c>>
  <2>1. o \in Lexeme /\ c \in Lexeme /\ o \notin Key /\ c \notin Key
    BY BraceLexemes
  <2>2. Brace(o) = 1 /\ Brace(c) = 0 - 1
    BY BraceIs
  <2>3. Extra(device) = t
    BY <1>1 DEF Extra
  <2> HIDE DEF o, c
  <2>4. /\ t \in Seq(Lexeme) /\ Len(t) = 2 /\ t[1] = o /\ t[2] = c
        /\ \A i \in 1..2 : i = 1 \/ i = 2
    BY ONLY <2>1
  <2>5. Balanced(t)
    BY <2>2, PairIsBalanced
  <2> HIDE DEF t
  <2>6. \A i \in 1..Len(t) : t[i] \notin Key
    BY <2>1, <2>4
  <2>7. Tells(t, device)
    BY <2>6, OtherTells
  <2> QED
    BY <2>3, <2>4, <2>5, <2>7
<1>2. CASE ~device.extra
  <2>1. Extra(device) = <<>>
    BY <1>2 DEF Extra
  <2>2. <<>> \in Seq(Lexeme) /\ \A i \in 1..Len(<<>>) : <<>>[i] \notin Key
    OBVIOUS
  <2> QED
    BY <2>1, <2>2, OtherTells, NothingIsPlain, PlainIsBalanced
<1> QED
  BY <1>1, <1>2

\* What a text has, it has in a longer one.
LEMMA InConcat ==
    \A S : \A s, t \in Seq(S) : \A x :
        ((\E i \in 1..Len(s) : s[i] = x) \/ (\E i \in 1..Len(t) : t[i] = x))
            => \E i \in 1..Len(s \o t) : (s \o t)[i] = x
<1> SUFFICES ASSUME NEW S, NEW s \in Seq(S), NEW t \in Seq(S), NEW x,
                    (\E i \in 1..Len(s) : s[i] = x) \/ (\E i \in 1..Len(t) : t[i] = x)
             PROVE  \E i \in 1..Len(s \o t) : (s \o t)[i] = x
  OBVIOUS
<1> DEFINE r == s \o t
<1>1. /\ Len(s) \in Nat /\ Len(t) \in Nat /\ Len(r) = Len(s) + Len(t)
      /\ \A i \in 1..(Len(s) + Len(t)) : r[i] = IF i <= Len(s) THEN s[i] ELSE t[i - Len(s)]
  BY ConcatProperties
<1> HIDE DEF r
<1>2. CASE \E i \in 1..Len(s) : s[i] = x
  <2>1. PICK i \in 1..Len(s) : s[i] = x
    BY <1>2
  <2>2. i \in 1..Len(r) /\ r[i] = x
    BY <1>1, <2>1
  <2> QED
    BY <2>2 DEF r
<1>3. CASE \E i \in 1..Len(t) : t[i] = x
  <2>1. PICK i \in 1..Len(t) : t[i] = x
    BY <1>3
  <2> DEFINE j == Len(s) + i
  <2>2. j \in 1..(Len(s) + Len(t)) /\ ~(j <= Len(s)) /\ j - Len(s) = i
    BY <1>1
  <2> HIDE DEF j
  <2>3. j \in 1..Len(r) /\ r[j] = x
    BY <1>1, <2>1, <2>2
  <2> QED
    BY <2>3 DEF r
<1> QED
  BY <1>2, <1>3

LEMMA DeviceText ==
    ASSUME NEW device \in ListedDevice, NEW order \in FieldOrder
    PROVE  LET w == WriteDevice(device, order)
           IN  /\ w \in Seq(Lexeme)
               /\ Tells(w, device)
               /\ \A key \in Key : device[key] # <<>> => \E i \in 1..Len(w) : w[i] = key
               /\ Balanced(device.name) => \E b \in Seq(Lexeme) : Encloses(w, "{", b, "}")
<1> DEFINE o == "{"
           c == "}"
           f == Fields(device, order)
           e == Extra(device)
           b == f \o e
           open == <<o>>
           close == <<c>>
           u == open \o b
           w == u \o close
<1>1. o \in Lexeme /\ c \in Lexeme /\ o \notin Key /\ c \notin Key
  BY BraceLexemes
<1>2. Brace(o) = 1 /\ Brace(c) = 0 - 1
  BY BraceIs
<1>3. WriteDevice(device, order) = ((open \o f) \o e) \o close
  BY DEF WriteDevice, Fields, Field, Extra
<1> HIDE DEF o, c
<1>4. /\ open \in Seq(Lexeme) /\ Tells(open, device)
      /\ close \in Seq(Lexeme) /\ Tells(close, device)
  BY <1>1, OneTells
<1>5. f \in Seq(Lexeme) /\ e \in Seq(Lexeme) /\ b \in Seq(Lexeme) /\ u \in Seq(Lexeme) /\ w \in Seq(Lexeme)
  <2>1. f \in Seq(Lexeme) /\ e \in Seq(Lexeme)
    BY FieldsShape, ExtraShape
  <2> HIDE DEF f, e, open, close
  <2>2. b \in Seq(Lexeme)
    BY <2>1, ConcatProperties
  <2> HIDE DEF b
  <2>3. u \in Seq(Lexeme)
    BY <1>4, <2>2, ConcatProperties
  <2> HIDE DEF u
  <2>4. w \in Seq(Lexeme)
    BY <1>4, <2>3, ConcatProperties
  <2> QED
    BY <2>1, <2>2, <2>3, <2>4
<1>6. Tells(f, device) /\ Tells(e, device)
  BY FieldsShape, ExtraShape
<1>7. \A key \in Key : device[key] # <<>> => \E i \in 1..Len(f) : f[i] = key
  BY FieldsShape
<1>8. Balanced(device.name) => Balanced(f) /\ Balanced(e)
  BY FieldsShape, ExtraShape
<1> HIDE DEF f, e
<1>9. Balanced(device.name) => Balanced(b)
  BY <1>5, <1>8, BalancedConcat
<1>10. Balanced(device.name) => Encloses(w, o, b, c)
  <2> HIDE DEF b
  <2> QED
    BY <1>1, <1>2, <1>5, <1>9, Enclosed
<1> HIDE DEF open, close
<1>11. (open \o f) \o e = u
  BY <1>4, <1>5, ConcatAssociative
<1>12. w = WriteDevice(device, order)
  <2> HIDE DEF u
  <2> QED
    BY <1>3, <1>11
<1>13. Tells(w, device)
  <2>1. Tells(b, device)
    BY <1>5, <1>6, TellsConcat
  <2> HIDE DEF b
  <2>2. Tells(u, device)
    BY <1>4, <1>5, <2>1, TellsConcat
  <2> HIDE DEF u
  <2> QED
    BY <1>4, <1>5, <2>2, TellsConcat
<1>14. ASSUME NEW key \in Key, device[key] # <<>> PROVE \E i \in 1..Len(w) : w[i] = key
  <2>1. \E i \in 1..Len(f) : f[i] = key
    BY <1>7, <1>14
  <2>2. \E i \in 1..Len(b) : b[i] = key
    BY <1>5, <2>1, InConcat
  <2> HIDE DEF b
  <2>3. \E i \in 1..Len(u) : u[i] = key
    <3>1. open \in Seq(Lexeme) /\ b \in Seq(Lexeme)
      BY <1>4, <1>5
    <3> QED
      BY ONLY <2>2, <3>1, InConcat
  <2> HIDE DEF u
  <2> QED
    BY <1>4, <1>5, <2>3, InConcat
<1> HIDE DEF w
<1> QED
  BY <1>5, <1>10, <1>12, <1>13, <1>14 DEF o, c

\* What the device adds to the map.
Own(device) == [d \in IF device.model = <<>> THEN {} ELSE {device.did} |-> device.model]

LEMMA DidAndModel ==
    ASSUME NEW device \in ListedDevice
    PROVE  /\ "did" \in Key /\ "model" \in Key
           /\ device.did \in Seq(Lexeme) /\ device.model \in Seq(Lexeme)
           /\ \A j \in 1..Len(device.did) : device.did[j] \notin Quote
           /\ \A j \in 1..Len(device.model) : device.model[j] \notin Quote
           /\ device.did # <<>>
<1>1. "did" \in Key /\ "model" \in Key /\ "did" # "name" /\ "model" # "name"
  BY DEF Key
<1>2. device.did # <<>>
  BY ListedAssumption
<1> QED
  BY <1>1, <1>2, ValueShape

LEMMA DeviceWhole ==
    ASSUME NEW device \in ListedDevice, NEW order \in FieldOrder
    PROVE  Device(WriteDevice(device, order)) = Own(device)
<1> DEFINE w == WriteDevice(device, order)
<1>1. /\ w \in Seq(Lexeme)
      /\ Followed(w, "did", device.did) /\ Followed(w, "model", device.model)
      /\ \E i \in 1..Len(w) : w[i] = "did"
      /\ device.model = <<>> \/ \E i \in 1..Len(w) : w[i] = "model"
  BY DeviceText, DidAndModel DEF Tells
<1> HIDE DEF w
<1>2. Extract(w, "did") = device.did
  BY <1>1, DidAndModel, ExtractWhole
<1>3. Extract(w, "model") = device.model
  BY <1>1, DidAndModel, ExtractWhole
<1>4. device.did # <<>>
  BY DidAndModel
<1> QED
  BY <1>2, <1>3, <1>4 DEF Device, Own, w

\* A piece of the text gives the device its own model, or none.
LEMMA DevicePiece ==
    ASSUME NEW device \in ListedDevice, NEW t \in Seq(Lexeme), Tells(t, device),
           NEW a \in Nat \ {0}, NEW b \in Nat, b <= Len(t)
    PROVE  LET own == Device(SubSeq(t, a, b))
           IN  \A d \in DOMAIN own : d = device.did /\ own[d] = device.model
<1> DEFINE o == SubSeq(t, a, b)
<1>1. Extract(o, "did") \in {<<>>, device.did}
  BY DidAndModel, ExtractPiece DEF Tells
<1>2. Extract(o, "model") \in {<<>>, device.model}
  BY DidAndModel, ExtractPiece DEF Tells
<1> HIDE DEF o
<1> QED
  BY <1>1, <1>2 DEF Device, o

--------------------------------------------------------------------------------
(* parse_device_list_response, object by object.                             *)

\* Where the object ends that starts at pos or behind, 0 if none does.
Start(text, pos) == Find(text, {"{"}, pos)
End(text, pos) == IF Start(text, pos) = 0 THEN 0 ELSE ObjectEnd(text, Start(text, pos))

\* What the scanner gives from pos on.
Scan(f, text, pos) ==
    IF End(text, pos) = 0 THEN <<>>
    ELSE Overwrite(Device(SubSeq(text, Start(text, pos), End(text, pos))), f[End(text, pos) + 1])

Scans(f, text) == f = [pos \in 1..(Len(text) + 1) |-> Scan(f, text, pos)]

LEMMA EndRange ==
    ASSUME NEW text, Len(text) \in Nat, NEW pos \in 1..(Len(text) + 1)
    PROVE  \/ End(text, pos) = 0
           \/ End(text, pos) \in pos..Len(text) /\ Start(text, pos) \in pos..Len(text)
<1>1. pos \in Nat \ {0}
  OBVIOUS
<1> DEFINE start == Start(text, pos)
<1>2. start = 0 \/ start \in pos..Len(text)
  <2> DEFINE X == {"{"}
  <2>1. start = Find(text, X, pos)
    BY DEF Start
  <2> HIDE DEF X, start
  <2> QED
    BY <1>1, <2>1, FindFirst
<1> HIDE DEF start
<1>3. CASE start = 0
  BY <1>3 DEF End, start
<1>4. CASE start # 0
  <2>1. start \in Nat /\ start \in pos..Len(text)
    BY <1>1, <1>2, <1>4
  <2>2. End(text, pos) = ObjectEnd(text, start)
    BY <1>4 DEF End, start
  <2>3. ObjectEnd(text, start) = 0 \/ ObjectEnd(text, start) \in start..Len(text)
    BY <2>1, ObjectEndRange
  <2>4. End(text, pos) = 0 \/ End(text, pos) \in pos..Len(text)
    BY <1>1, <2>1, <2>2, <2>3
  <2> QED
    BY <2>1, <2>4 DEF start
<1> QED
  BY <1>3, <1>4

LEMMA ScanExists == ASSUME NEW text, Len(text) \in Nat PROVE \E f : Scans(f, text)
<1> DEFINE L == Len(text)
           Done(f, m) == /\ f = [pos \in 1..(L + 1) |-> f[pos]]
                         /\ \A pos \in 1..(L + 1) : pos + m > L + 1 => f[pos] = Scan(f, text, pos)
           P == {m \in Nat : m <= L + 1 => \E f : Done(f, m)}
<1>1. L \in Nat
  OBVIOUS
<1>2. 0 \in P
  <2> DEFINE f == [pos \in 1..(L + 1) |-> <<>>]
  <2>1. f = [pos \in 1..(L + 1) |-> f[pos]]
    OBVIOUS
  <2>2. \A pos \in 1..(L + 1) : ~(pos + 0 > L + 1)
    BY <1>1
  <2> HIDE DEF f
  <2> QED
    BY <2>1, <2>2
<1>3. ASSUME NEW m \in Nat, m \in P PROVE m + 1 \in P
  <2> SUFFICES ASSUME m + 1 <= L + 1 PROVE \E f : Done(f, m + 1)
    OBVIOUS
  <2>1. PICK g : Done(g, m)
    BY <1>1, <1>3
  <2> DEFINE at == L + 1 - m
             f == [pos \in 1..(L + 1) |-> IF pos = at THEN Scan(g, text, at) ELSE g[pos]]
  <2>2. at \in 1..(L + 1)
    BY <1>1
  <2>3. ASSUME NEW pos \in 1..(L + 1), pos >= at PROVE Scan(f, text, pos) = Scan(g, text, pos)
    <3>1. CASE End(text, pos) = 0
      BY <3>1 DEF Scan
    <3>2. CASE End(text, pos) # 0
      <4> DEFINE e == End(text, pos) + 1
      <4>1. End(text, pos) \in pos..L
        BY <3>2, EndRange
      <4>2. e \in 1..(L + 1) /\ e # at
        BY <1>1, <2>2, <2>3, <4>1
      <4> HIDE DEF e, at
      <4>3. f[e] = g[e]
        BY <4>2
      <4> HIDE DEF f
      <4> QED
        BY <4>3 DEF Scan, e
    <3> QED
      BY <3>1, <3>2
  <2>4. ASSUME NEW pos \in 1..(L + 1), pos + (m + 1) > L + 1 PROVE f[pos] = Scan(f, text, pos)
    <3>1. pos >= at
      BY <1>1, <2>4
    <3>2. CASE pos = at
      <4> HIDE DEF at
      <4>1. f[pos] = Scan(g, text, pos)
        BY <3>2
      <4> HIDE DEF f
      <4> QED
        BY <2>3, <3>1, <4>1
    <3>3. CASE pos # at
      <4>1. pos + m > L + 1
        BY <1>1, <3>1, <3>3
      <4>2. g[pos] = Scan(g, text, pos)
        BY <2>1, <4>1
      <4> HIDE DEF at
      <4>3. f[pos] = g[pos]
        BY <3>3
      <4> HIDE DEF f
      <4> QED
        BY <2>3, <3>1, <4>2, <4>3
    <3> QED
      BY <3>2, <3>3
  <2>5. f = [pos \in 1..(L + 1) |-> f[pos]]
    OBVIOUS
  <2> HIDE DEF f
  <2>6. Done(f, m + 1)
    BY <2>4, <2>5
  <2> HIDE DEF Done
  <2> QED
    BY <2>6
<1>4. \A m \in Nat : m \in P
  <2> HIDE DEF P
  <2> QED
    BY ONLY <1>2, <1>3, NumberInduction
<1>5. PICK f : Done(f, L + 1)
  <2>1. L + 1 \in Nat /\ L + 1 <= L + 1
    BY <1>1
  <2> QED
    BY <1>4, <2>1
<1>6. \A pos \in 1..(L + 1) : pos + (L + 1) > L + 1
  BY <1>1
<1>7. f = [pos \in 1..(L + 1) |-> f[pos]] /\ \A pos \in 1..(L + 1) : f[pos] = Scan(f, text, pos)
  BY <1>5, <1>6
<1> HIDE DEF Done, P
<1> QED
  BY <1>7 DEF Scans

\* The recursive function of parse_device_list_response.
LEMMA ParseScans ==
    ASSUME NEW text, Len(text) \in Nat, NEW list \in 1..Len(text), Find(text, {"list"}, 1) = list
    PROVE  \E f : Scans(f, text) /\ ParseDeviceListResponse(text) = f[list + 1]
<1> DEFINE f == CHOOSE f : Scans(f, text)
<1>1. Scans(f, text)
  BY ScanExists
<1>2. list # 0
  OBVIOUS
<1>3. ParseDeviceListResponse(text) = f[list + 1]
  BY <1>2 DEF ParseDeviceListResponse, Scans, Scan, End, Start
<1> HIDE DEF f
<1> QED
  BY <1>1, <1>3

LEMMA ScansAt ==
    \A text, f : Scans(f, text) =>
        \A pos \in 1..(Len(text) + 1) : f[pos] = Scan(f, text, pos)
BY DEF Scans

LEMMA UnpadNone == Unpad(<<>>) = <<>>
BY DEF Unpad

\* In a text that tells of one device the scanner never finds more than that device.
LEMMA ScanOne ==
    ASSUME NEW device \in ListedDevice, NEW t \in Seq(Lexeme), Tells(t, device),
           NEW f, Scans(f, t)
    PROVE  \A pos \in 1..(Len(t) + 1) : \A d \in DOMAIN f[pos] :
              d = device.did /\ f[pos][d] = device.model
<1> DEFINE L == Len(t)
           Fine(m) == \A d \in DOMAIN m : d = device.did /\ m[d] = device.model
           P == {m \in Nat : \A pos \in 1..(L + 1) : pos + m > L + 1 => Fine(f[pos])}
<1>1. L \in Nat
  OBVIOUS
<1>2. \A pos \in 1..(L + 1) : f[pos] = Scan(f, t, pos)
  BY ScansAt
<1>3. 0 \in P
  BY <1>1
<1>4. ASSUME NEW m \in Nat, m \in P PROVE m + 1 \in P
  <2> SUFFICES ASSUME NEW pos \in 1..(L + 1), pos + (m + 1) > L + 1 PROVE Fine(f[pos])
    OBVIOUS
  <2>1. f[pos] = Scan(f, t, pos)
    BY <1>2
  <2>2. CASE End(t, pos) = 0
    <3>1. f[pos] = <<>> /\ DOMAIN <<>> = {}
      BY <2>1, <2>2 DEF Scan
    <3> QED
      BY <3>1
  <2>3. CASE End(t, pos) # 0
    <3> DEFINE s == Start(t, pos)
               e == End(t, pos)
               own == Device(SubSeq(t, s, e))
    <3>1. e \in pos..L /\ s \in pos..L
      BY <2>3, EndRange
    <3>2. s \in Nat \ {0} /\ e \in Nat /\ e <= L /\ e + 1 \in 1..(L + 1) /\ (e + 1) + m > L + 1
      BY <1>1, <3>1
    <3>3. f[pos] = Overwrite(own, f[e + 1])
      BY <2>1, <2>3 DEF Scan
    <3> HIDE DEF s, e
    <3>4. Fine(own)
      BY <3>2, DevicePiece
    <3>5. Fine(f[e + 1])
      BY <1>4, <3>2
    <3> HIDE DEF own
    <3> QED
      BY <3>3, <3>4, <3>5 DEF Overwrite
  <2> QED
    BY <2>2, <2>3
<1>5. \A m \in Nat : m \in P
  <2> HIDE DEF P
  <2> QED
    BY ONLY <1>3, <1>4, NumberInduction
<1>6. ASSUME NEW pos \in 1..(L + 1) PROVE Fine(f[pos])
  <2>1. L + 1 \in Nat /\ pos + (L + 1) > L + 1
    BY <1>1
  <2> HIDE DEF Fine
  <2> QED
    BY <1>5, <2>1
<1> QED
  BY <1>6

\* The devices of a reply, one behind the other.
Objects(devices, order) == FlattenSeq([i \in DOMAIN devices |-> WriteDevice(devices[i], order)])
Plaintext(devices, order) == (<<"{", "{", "list">> \o Objects(devices, order)) \o <<"}", "}">>

\* What stands where in a text with a front and a back.
Between(t, front, w, back) ==
    /\ Len(t) = Len(front) + Len(w) + Len(back)
    /\ \A i \in 1..Len(front) : t[i] = front[i]
    /\ \A i \in 1..Len(w) : t[Len(front) + i] = w[i]
    /\ \A i \in 1..Len(back) : t[Len(front) + Len(w) + i] = back[i]

LEMMA BetweenIs ==
    \A S : \A front, w, back \in Seq(S) : Between((front \o w) \o back, front, w, back)
<1> SUFFICES ASSUME NEW S, NEW front \in Seq(S), NEW w \in Seq(S), NEW back \in Seq(S)
             PROVE  Between((front \o w) \o back, front, w, back)
  OBVIOUS
<1> DEFINE u == front \o w
           t == u \o back
           a == Len(front)
           b == Len(w)
           c == Len(back)
<1>1. a \in Nat /\ b \in Nat /\ c \in Nat
  OBVIOUS
<1>2. /\ u \in Seq(S) /\ Len(u) = a + b
      /\ \A i \in 1..(a + b) : u[i] = IF i <= a THEN front[i] ELSE w[i - a]
  BY ConcatProperties
<1> HIDE DEF u
<1>3. /\ Len(t) = (a + b) + c
      /\ \A i \in 1..((a + b) + c) : t[i] = IF i <= a + b THEN u[i] ELSE back[i - (a + b)]
  <2>1. u \in Seq(S) /\ back \in Seq(S)
    BY <1>2
  <2>2. /\ t \in Seq(S) /\ Len(t) = Len(u) + Len(back)
        /\ \A i \in 1..(Len(u) + Len(back)) :
              t[i] = IF i <= Len(u) THEN u[i] ELSE back[i - Len(u)]
    BY ONLY <2>1, ConcatProperties
  <2> HIDE DEF t
  <2>3. Len(u) = a + b
    BY <1>2
  <2> QED
    BY ONLY <2>2, <2>3 DEF c
<1> HIDE DEF t, a, b, c
<1>4. ASSUME NEW i \in 1..a PROVE t[i] = front[i]
  <2>1. i \in 1..((a + b) + c) /\ i \in 1..(a + b) /\ i <= a + b /\ i <= a
    BY <1>1
  <2> QED
    BY <1>2, <1>3, <2>1
<1>5. ASSUME NEW i \in 1..b PROVE t[a + i] = w[i]
  <2> DEFINE j == a + i
  <2>1. j \in 1..((a + b) + c) /\ j \in 1..(a + b) /\ j <= a + b /\ ~(j <= a) /\ j - a = i
    BY <1>1
  <2> HIDE DEF j
  <2>2. t[j] = w[i]
    BY <1>2, <1>3, <2>1
  <2> QED
    BY <2>2 DEF j
<1>6. ASSUME NEW i \in 1..c PROVE t[a + b + i] = back[i]
  <2> DEFINE j == a + b + i
  <2>1. j \in 1..((a + b) + c) /\ ~(j <= a + b) /\ j - (a + b) = i
    BY <1>1
  <2> HIDE DEF j
  <2>2. t[j] = back[i]
    BY <1>3, <2>1
  <2> QED
    BY <2>2 DEF j
<1> QED
  BY <1>3, <1>4, <1>5, <1>6 DEF Between, t, u, a, b, c

LEMMA FrontAndBack ==
    /\ <<"{", "{", "list">> \in Seq(Lexeme) /\ <<"}", "}">> \in Seq(Lexeme)
    /\ Len(<<"{", "{", "list">>) = 3 /\ Len(<<"}", "}">>) = 2
    /\ <<"{", "{", "list">>[1] = "{" /\ <<"{", "{", "list">>[2] = "{"
    /\ <<"{", "{", "list">>[3] = "list"
    /\ <<"}", "}">>[1] = "}" /\ <<"}", "}">>[2] = "}"
<1> DEFINE o == "{"
           c == "}"
           l == "list"
<1>1. o \in Lexeme /\ c \in Lexeme /\ l \in Lexeme
  BY BraceLexemes
<1> HIDE DEF o, c, l
<1>2. /\ <<o, o, l>> \in Seq(Lexeme) /\ <<c, c>> \in Seq(Lexeme)
      /\ Len(<<o, o, l>>) = 3 /\ Len(<<c, c>>) = 2
      /\ <<o, o, l>>[1] = o /\ <<o, o, l>>[2] = o /\ <<o, o, l>>[3] = l
      /\ <<c, c>>[1] = c /\ <<c, c>>[2] = c
  BY <1>1
<1> QED
  BY <1>2 DEF o, c, l

LEMMA ObjectsTyped ==
    ASSUME NEW devices \in Seq(ListedDevice), NEW order \in FieldOrder
    PROVE  /\ [i \in DOMAIN devices |-> WriteDevice(devices[i], order)] \in Seq(Seq(Lexeme))
           /\ Objects(devices, order) \in Seq(Lexeme)
<1> DEFINE parts == [i \in DOMAIN devices |-> WriteDevice(devices[i], order)]
<1>1. \A device \in ListedDevice : WriteDevice(device, order) \in Seq(Lexeme)
  BY DeviceText
<1>2. DOMAIN devices = 1..Len(devices) /\ Len(devices) \in Nat /\ \A i \in 1..Len(devices) : devices[i] \in ListedDevice
  OBVIOUS
<1>3. parts \in Seq(Seq(Lexeme))
  BY <1>1, <1>2
<1> HIDE DEF parts
<1>4. FlattenSeq(parts) \in Seq(Lexeme)
  BY <1>3, FlattenTyped
<1> QED
  BY <1>3, <1>4 DEF Objects, parts

\* get_devices scans the plain text from the list on.
LEMMA GetDevicesScans ==
    ASSUME NEW devices \in Seq(ListedDevice), NEW order \in FieldOrder
    PROVE  LET t == Plaintext(devices, order)
           IN  /\ t \in Seq(Lexeme)
               /\ Between(t, <<"{", "{", "list">>, Objects(devices, order), <<"}", "}">>)
               /\ 4 \in 1..(Len(t) + 1)
               /\ \E f : Scans(f, t) /\ GetDevices(WriteReply(devices, order)) = f[4]
<1> DEFINE front == <<"{", "{", "list">>
           back == <<"}", "}">>
           w == Objects(devices, order)
           t == (front \o w) \o back
           L == Len(t)
<1>1. w \in Seq(Lexeme) /\ front \in Seq(Lexeme) /\ back \in Seq(Lexeme)
  BY ObjectsTyped, FrontAndBack
<1>2. Len(front) = 3 /\ front[1] # "list" /\ front[2] # "list" /\ front[3] = "list" /\ Len(back) = 2
  BY FrontAndBack
<1>3. WriteReply(devices, order) = Pad(t)
  <2>1. WriteReply(devices, order) = Pad(front \o w \o back)
    BY DEF WriteReply, Objects
  <2> QED
    BY <2>1
<1> HIDE DEF front, back, w
<1>4. t \in Seq(Lexeme)
  <2>1. front \o w \in Seq(Lexeme)
    BY <1>1, ConcatProperties
  <2> QED
    BY <1>1, <2>1, ConcatProperties
<1>5. Between(t, front, w, back)
  BY <1>1, BetweenIs
<1> HIDE DEF t
<1>6. L = 3 + Len(w) + 2 /\ Len(w) \in Nat /\ \A i \in 1..3 : t[i] = front[i]
  BY <1>1, <1>2, <1>5 DEF Between
<1>7. Find(t, {"list"}, 1) = 3
  <2>1. 3 \in 1..L /\ \A i \in 1..L : i < 3 => i = 1 \/ i = 2
    BY <1>6
  <2>2. t[3] \in {"list"} /\ t[1] \notin {"list"} /\ t[2] \notin {"list"}
    <3>1. 1 \in 1..3 /\ 2 \in 1..3 /\ 3 \in 1..3
      OBVIOUS
    <3> QED
      BY <1>2, <1>6, <3>1
  <2> DEFINE X == {"list"}
  <2> HIDE DEF X, L
  <2>3. \A i \in 1..L : t[i] \in X => 3 <= i
    <3>1. \A i \in 1..L : i < 3 => t[i] \notin X
      BY <2>1, <2>2 DEF X
    <3>2. L \in Nat
      BY <1>6
    <3> QED
      BY <3>1, <3>2
  <2>4. Len(t) \in Nat /\ 1 \in Nat /\ 3 \in 1..Len(t) /\ t[3] \in X
    BY <1>6, <2>1, <2>2 DEF L, X
  <2>5. \A i \in 1..Len(t) : t[i] \in X => 3 <= i
    BY <2>3 DEF L
  <2>6. Find(t, X, 1) = 3
    BY ONLY <2>4, <2>5, FindIs
  <2> QED
    BY <2>6 DEF X
<1>8. PICK f : Scans(f, t) /\ ParseDeviceListResponse(t) = f[3 + 1]
  <2>1. Len(t) \in Nat /\ 3 \in 1..Len(t)
    BY <1>6
  <2> QED
    BY <1>7, <2>1, ParseScans
<1>9. GetDevices(WriteReply(devices, order)) = f[4]
  <2>1. Unpad(Pad(t)) = t
    BY <1>4, PaddingComesOff
  <2>2. t # <<>>
    BY <1>6
  <2>3. Pad(t) # <<>>
    BY <2>1, <2>2, UnpadNone
  <2>4. GetDevices(Pad(t)) = ParseDeviceListResponse(t)
    BY <2>1, <2>2, <2>3 DEF GetDevices
  <2> QED
    BY <1>3, <1>8, <2>4
<1>10. 4 \in 1..(Len(t) + 1)
  BY <1>6
<1> QED
  BY <1>4, <1>5, <1>8, <1>9, <1>10 DEF Plaintext, t, front, back, w

--------------------------------------------------------------------------------
(* A reply that lists one device.                                            *)

LEMMA OnlyDevice ==
    ASSUME NEW devices \in Seq(ListedDevice), Len(devices) = 1
    PROVE  devices[1] \in ListedDevice /\ DOMAIN devices = 1..1
<1>1. 1 \in 1..Len(devices)
  OBVIOUS
<1>2. DOMAIN devices = 1..Len(devices) /\ \A i \in 1..Len(devices) : devices[i] \in ListedDevice
  OBVIOUS
<1> QED
  BY <1>1, <1>2

LEMMA PlaintextTells ==
    ASSUME NEW devices \in Seq(ListedDevice), NEW order \in FieldOrder, Len(devices) = 1
    PROVE  Tells(Plaintext(devices, order), devices[1])
<1> DEFINE device == devices[1]
           C == {s \in Seq(Lexeme) : Tells(s, device)}
           parts == [i \in DOMAIN devices |-> WriteDevice(devices[i], order)]
           front == <<"{", "{", "list">>
           back == <<"}", "}">>
           w == Objects(devices, order)
           u == front \o w
           t == u \o back
<1>1. device \in ListedDevice /\ DOMAIN devices = 1..1
  BY OnlyDevice
<1>2. w \in C
  <2>1. <<>> \in C
    <3>1. <<>> \in Seq(Lexeme) /\ \A i \in 1..Len(<<>>) : <<>>[i] \notin Key
      OBVIOUS
    <3> QED
      BY <3>1, OtherTells
  <2>2. \A x, y \in C : x \o y \in C
    <3> SUFFICES ASSUME NEW x \in C, NEW y \in C PROVE x \o y \in C
      OBVIOUS
    <3>1. x \in Seq(Lexeme) /\ y \in Seq(Lexeme) /\ Tells(x, device) /\ Tells(y, device)
      OBVIOUS
    <3>2. x \o y \in Seq(Lexeme)
      BY <3>1, ConcatProperties
    <3>3. Tells(x \o y, device)
      BY <1>1, <3>1, TellsConcat
    <3> QED
      BY <3>2, <3>3
  <2>3. parts \in Seq(C)
    <3>1. WriteDevice(device, order) \in C
      BY <1>1, DeviceText
    <3>2. parts = [i \in 1..1 |-> WriteDevice(devices[i], order)]
      BY <1>1
    <3>3. \A i \in 1..1 : WriteDevice(devices[i], order) \in C
      <4>1. \A i \in 1..1 : i = 1
        OBVIOUS
      <4> HIDE DEF C
      <4> QED
        BY <3>1, <4>1
    <3> HIDE DEF C
    <3>4. DOMAIN devices = 1..1 /\ 1 \in Nat
      BY <1>1
    <3> QED
      BY <3>3, <3>4
  <2>4. C \subseteq Seq(Lexeme)
    OBVIOUS
  <2> HIDE DEF C, parts
  <2>5. FlattenSeq(parts) \in C
    BY <2>1, <2>2, <2>3, <2>4, FlattenClosed
  <2> QED
    BY <2>5 DEF Objects, parts
<1>3. front \in Seq(Lexeme) /\ Tells(front, device) /\ back \in Seq(Lexeme) /\ Tells(back, device)
  <2>1. /\ front \in Seq(Lexeme) /\ back \in Seq(Lexeme) /\ Len(front) = 3 /\ Len(back) = 2
        /\ front[1] \notin Key /\ front[2] \notin Key /\ front[3] \notin Key
        /\ back[1] \notin Key /\ back[2] \notin Key
    BY FrontAndBack, BraceLexemes
  <2> HIDE DEF front, back
  <2>2. \A i \in 1..Len(front) : front[i] \notin Key
    BY <2>1
  <2>3. \A i \in 1..Len(back) : back[i] \notin Key
    BY <2>1
  <2> QED
    BY <2>1, <2>2, <2>3, OtherTells
<1>4. w \in Seq(Lexeme) /\ Tells(w, device)
  BY <1>2
<1> HIDE DEF front, back, w, C
<1>5. u \in Seq(Lexeme) /\ Tells(u, device)
  <2>1. u \in Seq(Lexeme)
    BY <1>3, <1>4, ConcatProperties
  <2>2. Tells(u, device)
    BY <1>1, <1>3, <1>4, TellsConcat
  <2> QED
    BY <2>1, <2>2
<1> HIDE DEF u
<1>6. Tells(t, device)
  BY <1>1, <1>3, <1>5, TellsConcat
<1> QED
  BY <1>6 DEF Plaintext, t, u, front, w, back

LEMMA OneDevice ==
    ASSUME NEW devices \in Seq(ListedDevice), NEW order \in FieldOrder, Len(devices) = 1, NEW did
    PROVE  GetDevice(did, WriteReply(devices, order)) \in {<<>>, devices[1].model}
<1> DEFINE t == Plaintext(devices, order)
           body == WriteReply(devices, order)
<1>1. devices[1] \in ListedDevice
  BY OnlyDevice
<1>2. t \in Seq(Lexeme) /\ 4 \in 1..(Len(t) + 1)
  BY GetDevicesScans
<1>3. Tells(t, devices[1])
  BY PlaintextTells
<1>4. PICK f : Scans(f, t) /\ GetDevices(body) = f[4]
  BY GetDevicesScans
<1> HIDE DEF t, body
<1>5. \A d \in DOMAIN f[4] : f[4][d] = devices[1].model
  BY <1>1, <1>2, <1>3, <1>4, ScanOne
<1>6. GetDevice(did, body) \in {<<>>, devices[1].model}
  BY <1>4, <1>5 DEF GetDevice
<1> QED
  BY <1>6 DEF body

\* Only replies are listed in, and they stay well formed.
ReplyTyped ==
    /\ input.kind \in {"bytes", "reply", "frame", "query"}
    /\ input.kind = "reply" =>
          input \in [kind : {"reply"}, order : FieldOrder, devices : Seq(ListedDevice)]

LEMMA RepliesStayTyped == Spec => []ReplyTyped
<1>1. Init => ReplyTyped
  <2>1. ASSUME NEW order \in FieldOrder, input = [kind |-> "reply", order |-> order, devices |-> <<>>]
        PROVE  ReplyTyped
    <3>1. <<>> \in Seq(ListedDevice)
      OBVIOUS
    <3> QED
      BY <2>1, <3>1 DEF ReplyTyped
  <2>2. ASSUME input.kind \in {"bytes", "frame", "query"} PROVE ReplyTyped
    BY <2>2 DEF ReplyTyped
  <2>3. Init => \/ \E order \in FieldOrder :
                      input = [kind |-> "reply", order |-> order, devices |-> <<>>]
                \/ input.kind \in {"bytes", "frame", "query"}
    BY DEF Init
  <2> QED
    BY <2>1, <2>2, <2>3
<1>2. ReplyTyped /\ [Next]_input => ReplyTyped'
  <2> SUFFICES ASSUME ReplyTyped, [Next]_input PROVE ReplyTyped'
    OBVIOUS
  <2>1. ASSUME NEW b \in Byte, AddByte(b) PROVE ReplyTyped'
    BY <2>1 DEF AddByte, ReplyTyped
  <2>2. ASSUME NEW device \in ListedDevice, ListDevice(device) PROVE ReplyTyped'
    <3> DEFINE R == [kind : {"reply"}, order : FieldOrder, devices : Seq(ListedDevice)]
    <3>1. input \in R
      BY <2>2 DEF ListDevice, ReplyTyped
    <3>2. Append(input.devices, device) \in Seq(ListedDevice)
      BY <3>1
    <3>3. input' = [input EXCEPT !.devices = Append(input.devices, device)]
      BY <2>2 DEF ListDevice
    <3> HIDE DEF ListDevice
    <3>4. input' \in R
      BY <3>1, <3>2, <3>3
    <3> QED
      BY <3>4 DEF ReplyTyped
  <2>3. ASSUME NEW header, AddUnit(header) PROVE ReplyTyped'
    BY <2>3 DEF AddUnit, ReplyTyped
  <2>4. ASSUME NEW param \in Param, AddParam(param) PROVE ReplyTyped'
    BY <2>4 DEF AddParam, ReplyTyped
  <2>5. CASE UNCHANGED input
    BY <2>5 DEF ReplyTyped
  <2> QED
    BY <2>1, <2>2, <2>3, <2>4, <2>5 DEF Next
<1> QED
  BY <1>1, <1>2, PTL DEF Spec

\* However many fields, braces and escaped quotes the service writes for the one device
\* it lists, the scanner gives it its own model or none.
THEOREM OwnModelOrNothing == Spec => []OwnModelOrNone
<1>1. ReplyTyped => OwnModelOrNone
  <2> SUFFICES ASSUME ReplyTyped, input.kind = "reply", Len(input.devices) = 1
               PROVE  GetDevice(input.devices[1].did[1], WriteReply(input.devices, input.order))
                          \in {<<>>, input.devices[1].model}
    BY DEF OwnModelOrNone
  <2>1. input.devices \in Seq(ListedDevice) /\ input.order \in FieldOrder
    BY DEF ReplyTyped
  <2> QED
    BY <2>1, OneDevice
<1> QED
  BY <1>1, RepliesStayTyped, PTL

--------------------------------------------------------------------------------
(* A reply that lists any number of devices, with braces that match.         *)

LEMMA MaxIs ==
    ASSUME NEW S \in SUBSET Nat, NEW x \in S, \A y \in S : y <= x PROVE Max(S) = x
<1> DEFINE m == CHOOSE z \in S : \A y \in S : z >= y
<1>1. m \in S /\ \A y \in S : m >= y
  OBVIOUS
<1>2. Max(S) = m
  BY DEF Max
<1> HIDE DEF m
<1> QED
  BY <1>1, <1>2

LEMMA GreatestNumber ==
    ASSUME NEW n \in Nat, NEW T, T \subseteq 1..n, T # {} PROVE \E x \in T : \A y \in T : y <= x
<1> DEFINE U == {m \in 0..n : n - m \in T}
<1>1. U \subseteq Nat
  OBVIOUS
<1>2. ASSUME NEW y \in T PROVE n - y \in U
  OBVIOUS
<1>3. U # {}
  BY <1>2
<1>4. PICK u \in U : \A v \in U : u <= v
  BY <1>1, <1>3, LeastNumber
<1>5. n - u \in T
  OBVIOUS
<1>6. ASSUME NEW y \in T PROVE y <= n - u
  <2>1. u <= n - y
    BY <1>2, <1>4
  <2>2. u \in Nat /\ y \in Nat
    BY <1>1
  <2> QED
    BY <2>1, <2>2
<1> QED
  BY <1>5, <1>6

\* What the devices of a list add up to, the last of them with a did first.
Having(devices, did) ==
    {i \in DOMAIN devices : devices[i].did = did /\ devices[i].model # <<>>}
Dids(devices) ==
    {d \in {devices[i].did : i \in DOMAIN devices} : Having(devices, d) # {}}
Table(devices) == [d \in Dids(devices) |-> devices[Max(Having(devices, d))].model]

LEMMA TableNone == Table(<<>>) = <<>>
<1>1. DOMAIN <<>> = {}
  OBVIOUS
<1>2. Dids(<<>>) = {}
  BY <1>1 DEF Dids
<1> QED
  BY <1>2 DEF Table

LEMMA TableMore ==
    ASSUME NEW devices \in Seq(ListedDevice), NEW device \in ListedDevice
    PROVE  Table(Append(devices, device)) = Overwrite(Table(devices), Own(device))
<1> DEFINE n == Len(devices)
           more == Append(devices, device)
           did == device.did
<1>1. /\ n \in Nat /\ DOMAIN devices = 1..n /\ DOMAIN more = 1..(n + 1)
      /\ more[n + 1] = device /\ \A i \in 1..n : more[i] = devices[i]
  OBVIOUS
<1> HIDE DEF more, n
<1>2. \A i \in 1..(n + 1) : i \in 1..n \/ i = n + 1
  BY <1>1
<1>3. 1..n \subseteq 1..(n + 1) /\ n + 1 \in 1..(n + 1) /\ n + 1 \notin 1..n
  BY <1>1
<1>4. ASSUME NEW d PROVE Having(more, d) = Having(devices, d) \cup
                            (IF d = did /\ device.model # <<>> THEN {n + 1} ELSE {})
  BY <1>1, <1>2, <1>3 DEF Having
<1>5. ASSUME NEW d PROVE d \in Dids(more) <=> Having(more, d) # {}
  BY DEF Dids, Having
<1>6. ASSUME NEW d PROVE d \in Dids(devices) <=> Having(devices, d) # {}
  BY DEF Dids, Having
<1>7. DOMAIN Own(device) = IF device.model = <<>> THEN {} ELSE {did}
  BY DEF Own
<1>8. Dids(more) = Dids(devices) \cup DOMAIN Own(device)
  <2>1. \A d : d \in Dids(more) <=> d \in Dids(devices) \/ d \in DOMAIN Own(device)
    BY <1>4, <1>5, <1>6, <1>7
  <2> QED
    BY <2>1
<1>9. ASSUME NEW d \in DOMAIN Own(device) PROVE more[Max(Having(more, d))].model = Own(device)[d]
  <2>1. d = did /\ device.model # <<>> /\ Own(device)[d] = device.model
    BY <1>7, <1>9 DEF Own
  <2>2. Having(more, d) \subseteq 1..(n + 1) /\ n + 1 \in Having(more, d)
    BY <1>1, <1>4, <2>1 DEF Having
  <2>3. Having(more, d) \in SUBSET Nat /\ \A y \in Having(more, d) : y <= n + 1
    BY <1>1, <2>2
  <2>4. Max(Having(more, d)) = n + 1
    BY <2>2, <2>3, MaxIs
  <2> QED
    BY <1>1, <2>1, <2>4
<1>10. ASSUME NEW d \in Dids(devices), d \notin DOMAIN Own(device)
       PROVE  more[Max(Having(more, d))].model = devices[Max(Having(devices, d))].model
  <2>1. Having(more, d) = Having(devices, d)
    BY <1>4, <1>7, <1>10
  <2>2. Max(Having(devices, d)) \in 1..n
    <3> DEFINE S == Having(devices, d)
    <3>1. S \subseteq 1..n /\ S # {}
      BY <1>1, <1>6 DEF Having
    <3> HIDE DEF S
    <3>2. PICK x \in S : \A y \in S : y <= x
      BY <1>1, <3>1, GreatestNumber
    <3>3. Max(S) = x
      BY <1>1, <3>1, <3>2, MaxIs
    <3> QED
      BY <3>1, <3>2, <3>3 DEF S
  <2> QED
    BY <1>1, <2>1, <2>2
<1> DEFINE told == [d \in Dids(more) |-> more[Max(Having(more, d))].model]
           was == [d \in Dids(devices) |-> devices[Max(Having(devices, d))].model]
<1>11. ASSUME NEW d \in Dids(more)
       PROVE  told[d] = IF d \in DOMAIN Own(device) THEN Own(device)[d] ELSE was[d]
  <2>1. CASE d \in DOMAIN Own(device)
    BY <1>9, <2>1
  <2>2. CASE d \notin DOMAIN Own(device)
    <3>1. d \in Dids(devices)
      BY <1>8, <2>2
    <3> QED
      BY <1>10, <2>2, <3>1
  <2> QED
    BY <2>1, <2>2
<1>12. told = [d \in Dids(more) |-> told[d]] /\ DOMAIN was = Dids(devices)
  OBVIOUS
<1>13. Table(more) = told /\ Table(devices) = was
  BY DEF Table
<1> HIDE DEF told, was
<1>14. told = Overwrite(was, Own(device))
  BY <1>8, <1>11, <1>12 DEF Overwrite
<1> QED
  BY <1>13, <1>14 DEF more

LEMMA OverwriteAgain ==
    ASSUME NEW x, NEW y, NEW z
    PROVE  Overwrite(x, Overwrite(y, z)) = Overwrite(Overwrite(x, y), z)
<1> DEFINE a == Overwrite(y, z)
           b == Overwrite(x, y)
           D == DOMAIN x \cup DOMAIN y \cup DOMAIN z
<1>1. DOMAIN a = DOMAIN y \cup DOMAIN z /\ DOMAIN b = DOMAIN x \cup DOMAIN y
  BY DEF Overwrite
<1>2. /\ \A d \in DOMAIN a : a[d] = IF d \in DOMAIN z THEN z[d] ELSE y[d]
      /\ \A d \in DOMAIN b : b[d] = IF d \in DOMAIN y THEN y[d] ELSE x[d]
  BY DEF Overwrite
<1> HIDE DEF a, b
<1>3. DOMAIN x \cup DOMAIN a = D /\ DOMAIN b \cup DOMAIN z = D
  BY <1>1
<1>4. ASSUME NEW d \in D
      PROVE  (IF d \in DOMAIN a THEN a[d] ELSE x[d]) = (IF d \in DOMAIN z THEN z[d] ELSE b[d])
  BY <1>1, <1>2
<1> HIDE DEF D
<1>5. [d \in D |-> IF d \in DOMAIN a THEN a[d] ELSE x[d]]
         = [d \in D |-> IF d \in DOMAIN z THEN z[d] ELSE b[d]]
  BY <1>4
<1>6. Overwrite(x, a) = [d \in D |-> IF d \in DOMAIN a THEN a[d] ELSE x[d]]
  BY <1>3 DEF Overwrite
<1>7. Overwrite(b, z) = [d \in D |-> IF d \in DOMAIN z THEN z[d] ELSE b[d]]
  BY <1>3 DEF Overwrite
<1> QED
  BY <1>5, <1>6, <1>7 DEF a, b

\* The end of the list adds nothing, an empty list leaves the rest as it is.
LEMMA OverwriteNothing ==
    ASSUME NEW x, x = [d \in DOMAIN x |-> x[d]]
    PROVE  Overwrite(x, <<>>) = x /\ Overwrite(<<>>, x) = x
<1>1. DOMAIN <<>> = {} /\ DOMAIN x \cup {} = DOMAIN x /\ {} \cup DOMAIN x = DOMAIN x
  OBVIOUS
<1>2. Overwrite(x, <<>>) = [d \in DOMAIN x |-> x[d]]
  BY <1>1 DEF Overwrite
<1>3. Overwrite(<<>>, x) = [d \in DOMAIN x |-> x[d]]
  BY <1>1 DEF Overwrite
<1> QED
  BY <1>2, <1>3

LEMMA ScanIsTable ==
    ASSUME NEW f, NEW t, NEW pos
    PROVE  Overwrite(<<>>, Scan(f, t, pos)) = Scan(f, t, pos)
<1> DEFINE x == Scan(f, t, pos)
<1>1. CASE End(t, pos) = 0
  <2>1. x = <<>>
    BY <1>1 DEF Scan
  <2> DEFINE none == <<>>
  <2>2. none = [d \in DOMAIN none |-> none[d]]
    OBVIOUS
  <2> QED
    BY <2>1, <2>2, OverwriteNothing
<1>2. CASE End(t, pos) # 0
  <2> DEFINE y == Device(SubSeq(t, Start(t, pos), End(t, pos)))
             z == f[End(t, pos) + 1]
  <2>1. x = Overwrite(y, z)
    BY <1>2 DEF Scan
  <2> HIDE DEF x, y, z
  <2>2. x = [d \in DOMAIN x |-> x[d]]
    BY <2>1 DEF Overwrite
  <2>3. Overwrite(<<>>, x) = x
    BY <2>2, OverwriteNothing
  <2> QED
    BY <2>3 DEF x
<1> QED
  BY <1>1, <1>2

\* w stands in t behind k.
Stands(t, k, w) == k + Len(w) <= Len(t) /\ \A i \in 1..Len(w) : t[k + i] = w[i]

\* The scanner takes an object whose braces match as a whole.
LEMMA ObjectScan ==
    ASSUME NEW device \in ListedDevice, Balanced(device.name), NEW order \in FieldOrder,
           NEW t \in Seq(Lexeme), NEW f, Scans(f, t), NEW k \in Nat,
           Stands(t, k, WriteDevice(device, order))
    PROVE  f[k + 1] = Overwrite(Own(device), f[k + Len(WriteDevice(device, order)) + 1])
<1> DEFINE w == WriteDevice(device, order)
           n == Len(w)
           o == "{"
           X == {"{"}
           L == Len(t)
<1>1. w \in Seq(Lexeme) /\ \E b \in Seq(Lexeme) : Encloses(w, o, b, "}")
  BY DeviceText
<1>2. Device(w) = Own(device)
  BY DeviceWhole
<1>3. o \in X /\ k + n <= L /\ \A i \in 1..n : t[k + i] = w[i]
  BY DEF Stands
<1>4. L \in Nat /\ n = Len(w)
  OBVIOUS
<1>5. Start(t, k + 1) = Find(t, X, k + 1)
  BY DEF Start
<1> HIDE DEF w, n, o, X
<1>6. /\ n \in Nat \ {0} /\ w[1] = o /\ Depth(w, 1, n) = 0
      /\ \A i \in 1..(n - 1) : Depth(w, 1, i) >= 1
  <2>1. PICK b \in Seq(Lexeme) : Encloses(w, o, b, "}")
    BY <1>1
  <2> DEFINE m == Len(b)
  <2>2. /\ n = m + 2 /\ w[1] = o /\ Depth(w, 1, m + 2) = 0
        /\ \A i \in 1..(m + 1) : Depth(w, 1, i) >= 1
    BY <1>4, <2>1 DEF Encloses
  <2>3. m \in Nat
    <3>1. b \in Seq(Lexeme)
      BY <2>1
    <3> QED
      BY ONLY <3>1
  <2> HIDE DEF m
  <2>4. n \in Nat \ {0} /\ n - 1 = m + 1
    BY <2>2, <2>3
  <2> QED
    BY <2>2, <2>4
<1>7. 1 \in 1..n /\ k + 1 \in 1..L /\ k + n <= L /\ k + n + 1 \in 1..(L + 1)
  BY <1>3, <1>4, <1>6
<1>8. t[k + 1] = o
  BY <1>3, <1>6, <1>7
<1>9. Start(t, k + 1) = k + 1
  <2> DEFINE p == k + 1
  <2>1. p \in Nat /\ p \in p..Len(t) /\ t[p] \in X
    BY <1>3, <1>7, <1>8
  <2>2. \A i \in p..Len(t) : t[i] \in X => p <= i
    <3>1. \A i \in p..Len(t) : p <= i
      OBVIOUS
    <3> QED
      BY <3>1
  <2> HIDE DEF p
  <2>3. Find(t, X, p) = p
    BY <1>4, <2>1, <2>2, FindIs
  <2> QED
    BY <1>5, <2>3 DEF p
<1>10. ObjectEnd(t, k + 1) = k + n
  <2>1. Len(t) \in Nat /\ k \in Nat /\ n \in Nat \ {0} /\ k + n <= Len(t)
    BY <1>3, <1>4, <1>6
  <2>2. /\ \A i \in 1..n : t[k + i] = w[i]
        /\ \A i \in 1..(n - 1) : Depth(w, 1, i) >= 1
        /\ Depth(w, 1, n) = 0
    BY <1>3, <1>6
  <2> QED
    BY ONLY <2>1, <2>2, ObjectEndIs
<1>11. End(t, k + 1) = k + n /\ k + n # 0
  <2>1. k + 1 # 0 /\ k + n # 0
    BY <1>6
  <2> QED
    BY <1>9, <1>10, <2>1 DEF End
<1>12. SubSeq(t, k + 1, k + n) = w
  <2> DEFINE s == SubSeq(t, k + 1, k + n)
             a == k + 1
             b == k + n
  <2>1. a \in Int /\ b \in Int /\ a <= b /\ b - a + 1 = n
    BY <1>6
  <2>2. \A i \in a..b : t[i] \in Lexeme
    <3>1. \A i \in a..b : i \in 1..L
      BY <1>4, <1>6, <1>7
    <3> QED
      BY <3>1
  <2>3. s = SubSeq(t, a, b)
    OBVIOUS
  <2>4. \A i \in 1..n : a + i - 1 = k + i
    BY <1>6
  <2> HIDE DEF s, a, b
  <2>5. s \in Seq(Lexeme) /\ Len(s) = n /\ \A i \in 1..n : s[i] = t[a + i - 1]
    BY <2>1, <2>2, <2>3, SubSeqProperties
  <2>6. \A i \in 1..n : s[i] = w[i]
    BY <1>3, <2>4, <2>5
  <2> QED
    BY <1>1, <1>4, <2>5, <2>6, SeqEqual DEF s
<1>13. f[k + 1] = Scan(f, t, k + 1)
  <2>1. k + 1 \in 1..(L + 1)
    BY <1>4, <1>7
  <2> QED
    BY <2>1, ScansAt
<1>14. f[k + 1] = Overwrite(Device(w), f[k + n + 1])
  BY <1>9, <1>11, <1>12, <1>13 DEF Scan
<1> QED
  BY <1>2, <1>14 DEF n, w

LEMMA StandsConcat ==
    \A S : \A s, w, t \in Seq(S) : \A k \in Nat :
        Stands(t, k, s \o w) => Stands(t, k, s) /\ Stands(t, k + Len(s), w)
<1> SUFFICES ASSUME NEW S, NEW s \in Seq(S), NEW w \in Seq(S), NEW t \in Seq(S), NEW k \in Nat,
                    Stands(t, k, s \o w)
             PROVE  Stands(t, k, s) /\ Stands(t, k + Len(s), w)
  OBVIOUS
<1> DEFINE r == s \o w
           a == Len(s)
           b == Len(w)
           L == Len(t)
<1>1. a \in Nat /\ b \in Nat /\ L \in Nat
  OBVIOUS
<1>2. /\ r \in Seq(S) /\ Len(r) = a + b
      /\ \A i \in 1..(a + b) : r[i] = IF i <= a THEN s[i] ELSE w[i - a]
  BY ConcatProperties
<1>3. Stands(t, k, r)
  OBVIOUS
<1> HIDE DEF r, a, b, L
<1>4. k + (a + b) <= L /\ \A i \in 1..(a + b) : t[k + i] = r[i]
  BY <1>2, <1>3 DEF Stands, L
<1>5. k + a <= L /\ (k + a) + b <= L
  BY <1>1, <1>4
<1>6. ASSUME NEW i \in 1..a PROVE t[k + i] = s[i]
  <2>1. i \in 1..(a + b) /\ i <= a
    BY <1>1
  <2> QED
    BY <1>2, <1>4, <2>1
<1>7. ASSUME NEW i \in 1..b PROVE t[(k + a) + i] = w[i]
  <2> DEFINE j == a + i
             p == k + j
  <2>1. j \in 1..(a + b) /\ ~(j <= a) /\ j - a = i /\ (k + a) + i = p
    BY <1>1
  <2>2. p = k + j
    OBVIOUS
  <2> HIDE DEF j, p
  <2>3. t[p] = w[i]
    BY <1>2, <1>4, <2>1, <2>2
  <2> QED
    BY <2>1, <2>3
<1> QED
  BY <1>5, <1>6, <1>7 DEF Stands, a, b, L

LEMMA ObjectsNone == ASSUME NEW order PROVE Objects(<<>>, order) = <<>>
<1> DEFINE parts == [i \in DOMAIN <<>> |-> WriteDevice(<<>>[i], order)]
<1>1. DOMAIN <<>> = {}
  OBVIOUS
<1>2. parts = <<>>
  BY <1>1
<1> HIDE DEF parts
<1>3. FlattenSeq(parts) = <<>>
  BY <1>2, FlattenNone
<1> QED
  BY <1>3 DEF Objects, parts

LEMMA ObjectsMore ==
    ASSUME NEW devices \in Seq(ListedDevice), NEW device \in ListedDevice, NEW order \in FieldOrder
    PROVE  Objects(Append(devices, device), order)
              = Objects(devices, order) \o WriteDevice(device, order)
<1> DEFINE more == Append(devices, device)
           n == Len(devices)
           parts == [i \in DOMAIN devices |-> WriteDevice(devices[i], order)]
           all == [i \in DOMAIN more |-> WriteDevice(more[i], order)]
           w == WriteDevice(device, order)
<1>1. /\ n \in Nat /\ DOMAIN devices = 1..n /\ DOMAIN more = 1..(n + 1) /\ more \in Seq(ListedDevice)
      /\ more[n + 1] = device /\ \A i \in 1..n : more[i] = devices[i]
  OBVIOUS
<1>2. parts \in Seq(Seq(Lexeme)) /\ all \in Seq(Seq(Lexeme))
  BY <1>1, ObjectsTyped
<1>3. w \in Seq(Lexeme)
  BY DeviceText
<1>4. Len(parts) = n /\ Len(all) = n + 1
  <2>1. DOMAIN parts = 1..n /\ DOMAIN all = 1..(n + 1)
    BY <1>1
  <2> HIDE DEF parts, all, n
  <2>2. DOMAIN parts = 1..Len(parts) /\ Len(parts) \in Nat /\ DOMAIN all = 1..Len(all) /\ Len(all) \in Nat
    BY <1>2
  <2> QED
    BY <1>1, <2>1, <2>2
<1>5. all[n + 1] = w /\ \A i \in 1..n : all[i] = parts[i]
  <2>1. 1..n \subseteq 1..(n + 1) /\ n + 1 \in 1..(n + 1)
    BY <1>1
  <2> HIDE DEF more, n
  <2>2. /\ \A i \in 1..(n + 1) : all[i] = WriteDevice(more[i], order)
        /\ \A i \in 1..n : parts[i] = WriteDevice(devices[i], order)
    BY <1>1
  <2> HIDE DEF all, parts
  <2> QED
    BY <1>1, <2>1, <2>2
<1> HIDE DEF more, parts, all, w, n
<1>6. all = Append(parts, w)
  <2> DEFINE longer == Append(parts, w)
  <2>1. /\ longer \in Seq(Seq(Lexeme)) /\ Len(longer) = n + 1 /\ longer[n + 1] = w
        /\ \A i \in 1..n : longer[i] = parts[i]
    <3>1. /\ longer \in Seq(Seq(Lexeme)) /\ Len(longer) = Len(parts) + 1
          /\ longer[Len(parts) + 1] = w
          /\ \A i \in 1..Len(parts) : longer[i] = parts[i]
      BY ONLY <1>2, <1>3, AppendProperties
    <3> HIDE DEF longer
    <3> QED
      BY <1>4, <3>1
  <2> HIDE DEF longer
  <2>2. \A i \in 1..(n + 1) : i \in 1..n \/ i = n + 1
    BY <1>1
  <2>3. \A i \in 1..Len(all) : all[i] = longer[i]
    BY <1>4, <1>5, <2>1, <2>2
  <2>4. all = longer
    BY <1>2, <1>4, <2>1, <2>3, SeqEqual
  <2> QED
    BY <2>4 DEF longer
<1>7. FlattenSeq(all) = FlattenSeq(parts) \o w
  BY <1>2, <1>3, <1>6, FlattenAppend
<1> QED
  BY <1>7 DEF Objects, all, parts, more, w

\* The scanner adds the devices up, wherever in the text they stand.
LEMMA ListScan ==
    ASSUME NEW order \in FieldOrder, NEW t \in Seq(Lexeme), NEW f, Scans(f, t), NEW k \in Nat
    PROVE  \A devices \in Seq(ListedDevice) :
              (/\ \A i \in DOMAIN devices : Balanced(devices[i].name)
               /\ Stands(t, k, Objects(devices, order)))
              => f[k + 1] = Overwrite(Table(devices), f[k + Len(Objects(devices, order)) + 1])
<1> DEFINE Fine(ds) == \A i \in DOMAIN ds : Balanced(ds[i].name)
           O(ds) == Objects(ds, order)
           Goal(ds) == f[k + 1] = Overwrite(Table(ds), f[k + Len(O(ds)) + 1])
           P == {ds \in Seq(ListedDevice) : Fine(ds) /\ Stands(t, k, O(ds)) => Goal(ds)}
<1>1. <<>> \in P
  <2> SUFFICES ASSUME Stands(t, k, O(<<>>)) PROVE Goal(<<>>)
    OBVIOUS
  <2>1. O(<<>>) = <<>> /\ Len(<<>>) = 0
    BY ObjectsNone
  <2> HIDE DEF O
  <2>2. k + Len(O(<<>>)) + 1 = k + 1
    BY <2>1
  <2>3. k + 1 \in 1..(Len(t) + 1)
    BY <2>1 DEF Stands
  <2>4. f[k + 1] = Scan(f, t, k + 1)
    BY <2>3, ScansAt
  <2>5. Overwrite(<<>>, f[k + 1]) = f[k + 1]
    BY <2>4, ScanIsTable
  <2>6. Table(<<>>) = <<>>
    BY TableNone
  <2> QED
    BY <2>2, <2>5, <2>6
<1>2. \A ds \in Seq(ListedDevice) : \A d \in ListedDevice : ds \in P => Append(ds, d) \in P
  <2> SUFFICES ASSUME NEW ds \in Seq(ListedDevice), NEW d \in ListedDevice, ds \in P,
                      Fine(Append(ds, d)), Stands(t, k, O(Append(ds, d)))
               PROVE  Goal(Append(ds, d))
    <3>1. \A ds \in Seq(ListedDevice) : \A d \in ListedDevice : Append(ds, d) \in Seq(ListedDevice)
      OBVIOUS
    <3> HIDE DEF Fine, O, Goal
    <3> QED
      BY <3>1
  <2> DEFINE more == Append(ds, d)
             F == O(ds)
             w == WriteDevice(d, order)
             p == k + Len(F)
             n == Len(w)
  <2>1. Fine(ds) /\ Balanced(d.name)
    <3>1. /\ Len(ds) \in Nat /\ DOMAIN ds = 1..Len(ds) /\ DOMAIN more = 1..(Len(ds) + 1)
          /\ more[Len(ds) + 1] = d /\ \A i \in 1..Len(ds) : more[i] = ds[i]
      OBVIOUS
    <3>2. Fine(more)
      OBVIOUS
    <3> HIDE DEF more
    <3>3. Len(ds) + 1 \in DOMAIN more /\ \A i \in 1..Len(ds) : i \in DOMAIN more
      BY <3>1
    <3> QED
      BY <3>1, <3>2, <3>3
  <2>2. O(more) = F \o w
    BY ObjectsMore
  <2>3. F \in Seq(Lexeme) /\ w \in Seq(Lexeme)
    BY ObjectsTyped, DeviceText
  <2>4. Stands(t, k, O(more))
    OBVIOUS
  <2>5. Fine(ds) /\ Stands(t, k, F) => Goal(ds)
    OBVIOUS
  <2> HIDE DEF Fine, O, P, F, w, more
  <2>6. Stands(t, k, F) /\ Stands(t, p, w)
    BY <2>2, <2>3, <2>4, StandsConcat
  <2>7. f[k + 1] = Overwrite(Table(ds), f[p + 1])
    BY <2>1, <2>5, <2>6 DEF F
  <2>8. p \in Nat
    <3>1. Len(F) \in Nat
      BY <2>3
    <3> QED
      BY <3>1
  <2> HIDE DEF p, n
  <2>9. f[p + 1] = Overwrite(Own(d), f[p + n + 1])
    <3>1. Stands(t, p, WriteDevice(d, order))
      BY <2>6 DEF w
    <3>2. f[p + 1] = Overwrite(Own(d), f[p + Len(WriteDevice(d, order)) + 1])
      BY <2>1, <2>8, <3>1, ObjectScan
    <3> QED
      BY <3>2 DEF n, w
  <2>10. f[k + 1] = Overwrite(Overwrite(Table(ds), Own(d)), f[p + n + 1])
    BY <2>7, <2>9, OverwriteAgain
  <2>11. Table(more) = Overwrite(Table(ds), Own(d))
    BY TableMore DEF more
  <2>12. p + n + 1 = k + Len(O(more)) + 1
    <3>1. Len(F \o w) = Len(F) + Len(w) /\ Len(F) \in Nat /\ Len(w) \in Nat
      BY ONLY <2>3, ConcatProperties
    <3> QED
      BY <2>2, <3>1 DEF p, n
  <2>13. Goal(more)
    BY <2>10, <2>11, <2>12
  <2> QED
    BY <2>13 DEF more
<1> HIDE DEF P
<1>3. \A ds \in Seq(ListedDevice) : ds \in P
  BY ONLY <1>1, <1>2, SequenceInduction
<1> QED
  BY <1>3 DEF P

LEMMA ReplyScan ==
    ASSUME NEW devices \in Seq(ListedDevice), NEW order \in FieldOrder,
           \A i \in DOMAIN devices : Balanced(devices[i].name)
    PROVE  GetDevices(WriteReply(devices, order)) = Table(devices)
<1> DEFINE front == <<"{", "{", "list">>
           back == <<"}", "}">>
           w == Objects(devices, order)
           t == Plaintext(devices, order)
           body == WriteReply(devices, order)
           n == Len(w)
           L == Len(t)
<1>1. t \in Seq(Lexeme) /\ Between(t, front, w, back)
  BY GetDevicesScans
<1>2. PICK f : Scans(f, t) /\ GetDevices(body) = f[4]
  BY GetDevicesScans
<1>3. w \in Seq(Lexeme)
  BY ObjectsTyped
<1>4. Len(front) = 3 /\ Len(back) = 2 /\ back[1] # "{" /\ back[2] # "{"
  BY FrontAndBack
<1> HIDE DEF front, back, t, body
<1>5. n \in Nat
  BY <1>3
<1>6. /\ L = 3 + n + 2
      /\ \A i \in 1..n : t[3 + i] = w[i]
      /\ \A i \in 1..2 : t[3 + n + i] = back[i]
  BY <1>1, <1>4 DEF Between
<1>7. f[4] = Overwrite(Table(devices), f[3 + n + 1])
  <2>1. Stands(t, 3, w)
    <3>1. 3 + n <= L
      BY <1>5, <1>6
    <3> QED
      BY <1>6, <3>1 DEF Stands
  <2>2. 3 \in Nat /\ 3 + 1 = 4
    OBVIOUS
  <2> DEFINE k == 3
  <2>3. k \in Nat /\ k + 1 = 4 /\ Stands(t, k, w)
    BY <2>1, <2>2
  <2> HIDE DEF k
  <2>4. f[k + 1] = Overwrite(Table(devices), f[k + n + 1])
    BY <1>1, <1>2, <2>3, ListScan
  <2> QED
    BY <2>3, <2>4 DEF k
<1> DEFINE p == 3 + n + 1
<1>8. p \in 1..(L + 1) /\ \A i \in p..L : i = 3 + n + 1 \/ i = 3 + n + 2
  BY <1>5, <1>6
<1>9. f[p] = <<>>
  <2> DEFINE X == {"{"}
  <2>1. back[1] \notin X /\ back[2] \notin X
    BY <1>4
  <2>2. Start(t, p) = Find(t, X, p)
    BY DEF Start
  <2> HIDE DEF X, p
  <2>3. \A i \in p..L : t[i] \notin X
    <3>1. t[3 + n + 1] = back[1] /\ t[3 + n + 2] = back[2]
      BY <1>6
    <3> QED
      BY <1>8, <2>1, <3>1
  <2>4. Start(t, p) = 0
    BY <2>2, <2>3, FindNone
  <2>5. f[p] = Scan(f, t, p)
    BY <1>2, <1>8, ScansAt
  <2> QED
    BY <2>4, <2>5 DEF Scan, End
<1> HIDE DEF p
<1>10. Overwrite(Table(devices), <<>>) = Table(devices)
  <2> DEFINE x == Table(devices)
  <2>1. x = [d \in DOMAIN x |-> x[d]]
    BY DEF Table
  <2> HIDE DEF x
  <2>2. Overwrite(x, <<>>) = x
    BY <2>1, OverwriteNothing
  <2> QED
    BY <2>2 DEF x
<1>11. GetDevices(body) = Table(devices)
  BY <1>2, <1>7, <1>9, <1>10 DEF p
<1> QED
  BY <1>11 DEF body

\* However many devices a reply lists, with however long values, names whose braces match
\* and escaped quotes, and in whatever order their fields stand: get_devices finds each
\* that has a model, and the model of the last object that names it.
THEOREM EveryListedDeviceFound == Spec => []ListedDevicesFound
<1>1. ReplyTyped => ListedDevicesFound
  <2> SUFFICES ASSUME ReplyTyped, input.kind = "reply",
                      \A i \in DOMAIN input.devices : Balanced(input.devices[i].name)
               PROVE  GetDevices(WriteReply(input.devices, input.order))
                         = [did \in {d \in {input.devices[i].did : i \in DOMAIN input.devices} :
                                       Listed(d) # {}} |-> input.devices[Max(Listed(did))].model]
    BY DEF ListedDevicesFound
  <2>1. input.devices \in Seq(ListedDevice) /\ input.order \in FieldOrder
    BY DEF ReplyTyped
  <2>2. GetDevices(WriteReply(input.devices, input.order)) = Table(input.devices)
    BY <2>1, ReplyScan
  <2> QED
    BY <2>2 DEF Table, Dids, Having, Listed
<1> QED
  BY <1>1, RepliesStayTyped, PTL
================================================================================
