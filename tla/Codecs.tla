--------------------------------- MODULE Codecs ---------------------------------
(***************************************************************************)
(* The pure functions of the program against what they are meant to        *)
(* compute: PKCS7 padding and the device list of the cloud client,         *)
(* keyframe detection, the query string of the authorization server.       *)
(*                                                                         *)
(* They have no state.  The variable is the input of one of them, which    *)
(* other parts of the system make longer piece by piece: the service lists *)
(* one more device, the camera adds one more NAL unit to a frame, the      *)
(* account service one more parameter.                                     *)
(***************************************************************************)
EXTENDS CloudClient, Keyframe, QueryString
LOCAL INSTANCE FiniteSetsExt
LOCAL INSTANCE SequencesExt

CONSTANTS
    Byte,           \* what a plain text consists of
    MaxBytes,       \* bound: length of a plain text
    Word,           \* what names and values of a reply consist of
    ListedDevice,   \* devices the service may list
    MaxListed,      \* bound: devices of a reply
    FieldOrder,     \* orders in which the service writes the fields
    UnitHeader,     \* first bytes of the NAL units a camera sends, by codec
    MaxUnits,       \* bound: NAL units of a frame
    Char,           \* characters of the names and values of parameters
    Param,          \* parameters a redirect may carry
    MaxParams       \* bound: parameters of a redirect

ASSUME BytesAssumption == Byte \subseteq Nat /\ MaxBytes \in Nat

\* A value has no quote or brace in it.  A name may have braces, and quotes that the
\* service escapes.  It writes every field a device has.
ASSUME ListedAssumption ==
    /\ Word \cap (Quote \cup {"{", "}"}) = {}
    /\ ListedDevice \subseteq [did : Seq(Word) \ {<<>>}, model : Seq(Word),
                               name : Seq(Word \cup {"{", "}", "escaped"}), extra : BOOLEAN]
    /\ \A order \in FieldOrder :
          order \in Seq(Key) /\ \A key \in Key : \E i \in DOMAIN order : order[i] = key

\* The services name their parameters in letters.
ASSUME ParamAssumption ==
    /\ Param \subseteq [name : Seq(Char), value : Seq(Char)]
    /\ \A p \in Param : p.name # <<>> /\ \A i \in DOMAIN p.name : p.name[i] \notin {"&", "="}

VARIABLE input

Init ==
    \/ input = [kind |-> "bytes", data |-> <<>>]
    \/ \E order \in FieldOrder :
          input = [kind |-> "reply", order |-> order, devices |-> <<>>]
    \/ \E codec \in Codec, code \in {<<>>, <<0, 0, 1>>, <<0, 0, 0, 1>>} :
          input = [kind |-> "frame", codec |-> codec, code |-> code, units |-> <<>>]
    \/ input = [kind |-> "query", params |-> <<>>]

AddByte(b) ==
    /\ input.kind = "bytes" /\ Len(input.data) < MaxBytes
    /\ input' = [input EXCEPT !.data = Append(@, b)]

ListDevice(device) ==
    /\ input.kind = "reply" /\ Len(input.devices) < MaxListed
    /\ input' = [input EXCEPT !.devices = Append(@, device)]

\* An access unit: a delimiter first, then what precedes the picture, then its
\* slices, which are all of one type.  Without a start code it is one unit.
Rank(codec, header) ==
    LET t == NalUnitType(codec, header) IN
    IF codec = "h265" THEN CASE t = 35 -> 0 [] t \in 32..34 \cup {39} -> 1 [] OTHER -> 2
                      ELSE CASE t = 9 -> 0 [] t \in {6, 7, 8} -> 1 [] OTHER -> 2

AddUnit(header) ==
    /\ input.kind = "frame" /\ Len(input.units) < MaxUnits
    /\ input.units # <<>> =>
          /\ input.code # <<>>
          /\ LET last == input.units[Len(input.units)] IN
                \/ Rank(input.codec, last) < Rank(input.codec, header)
                \/ Rank(input.codec, last) = Rank(input.codec, header)
                      /\ Rank(input.codec, header) = 1
                \/ last = header /\ Rank(input.codec, header) = 2
    /\ input' = [input EXCEPT !.units = Append(@, header)]

AddParam(param) ==
    /\ input.kind = "query" /\ Len(input.params) < MaxParams
    /\ input' = [input EXCEPT !.params = Append(@, param)]

Next ==
    \/ \E b \in Byte : AddByte(b)
    \/ \E device \in ListedDevice : ListDevice(device)
    \/ input.kind = "frame" /\ \E header \in UnitHeader[input.codec] : AddUnit(header)
    \/ \E param \in Param : AddParam(param)

Spec == Init /\ [][Next]_input

--------------------------------------------------------------------------------
(* Properties.                                                              *)

\* What aes_cbc_decrypt takes off is what aes_cbc_encrypt has put on, also when the
\* plain text is empty, ends in bytes that look like a padding, or fills its last
\* block; and the padded text is a whole number of blocks.
UnpadInvertsPad ==
    input.kind = "bytes" =>
        Unpad(Pad(input.data)) = input.data /\ Len(Pad(input.data)) % Block = 0

\* Braces in a name that match each other do not disturb the scanner.
Balanced(name) ==
    /\ \A i \in 0..Len(name) : Depth(name, 1, i) >= 0
    /\ Depth(name, 1, Len(name)) = 0

Listed(did) == {i \in DOMAIN input.devices :
                  input.devices[i].did = did /\ input.devices[i].model # <<>>}

\* get_devices finds every device of the reply that has a model, each with its own
\* model, wherever an object, a missing field, an escaped quote or matching braces
\* in a name stand, and in whatever order the fields come.
ListedDevicesFound ==
    (input.kind = "reply" /\ \A i \in DOMAIN input.devices : Balanced(input.devices[i].name))
        => GetDevices(WriteReply(input.devices, input.order))
              = [did \in {d \in {input.devices[i].did : i \in DOMAIN input.devices} :
                             Listed(d) # {}} |-> input.devices[Max(Listed(did))].model]

\* A name with braces that do not match may hide the device from get_device, but
\* never gives it another model: the bridge opens no camera for a wrong one.
OwnModelOrNone ==
    (input.kind = "reply" /\ Len(input.devices) = 1) =>
        GetDevice(input.devices[1].did[1], WriteReply(input.devices, input.order))
            \in {<<>>, input.devices[1].model}

\* The frame, each unit of it behind a start code and with a byte of payload.
Frame == FlattenSeq([i \in DOMAIN input.units |->
            input.code \o <<input.units[i], 128, 128, 128>>])

HasKeyUnit ==
    \E i \in DOMAIN input.units :
        NalUnitType(input.codec, input.units[i]) \in KeyType(input.codec)

\* Access unit delimiters and supplemental information, which may come first.
Leads(codec, header) ==
    NalUnitType(codec, header) \in (IF codec = "h265" THEN {35, 39} ELSE {6, 9})

\* The functions look at the first NAL unit only.  A frame they mark has a unit of
\* the types they list; one that has such a unit is marked, unless the camera puts a
\* delimiter or supplemental information in front of it.
KeyframesMarked ==
    input.kind = "frame" =>
        /\ (input.units # <<>> /\ IsKeyframe(input.codec, Frame)) => HasKeyUnit
        /\ (HasKeyUnit /\ ~Leads(input.codec, input.units[1]))
               => IsKeyframe(input.codec, Frame)

\* The value that was sent under a name, the first time.
Sent(name) ==
    LET at == {i \in DOMAIN input.params : input.params[i].name = <<name>>}
    IN  IF at = {} THEN <<>> ELSE input.params[Min(at)].value

\* No parameter before it has a name that ends in this one.
NotShadowed(name) ==
    \A i \in DOMAIN input.params :
        (Len(input.params[i].name) > 1 /\ Last(input.params[i].name) = name)
            => \E j \in 1..i : input.params[j].name = <<name>>

\* The callback is given the code and the state that the service has sent, in
\* whatever order and with whatever characters in them, and is not called if either
\* is missing or empty.
CallbackGetsWhatWasSent ==
    (input.kind = "query" /\ NotShadowed("code") /\ NotShadowed("state")) =>
        CallbackArguments(WriteQuery(input.params)) =
            IF Sent("code") = <<>> \/ Sent("state") = <<>> THEN <<>>
            ELSE <<Sent("code"), Sent("state")>>
================================================================================
