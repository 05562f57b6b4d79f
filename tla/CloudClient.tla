------------------------------- MODULE CloudClient -------------------------------
(***************************************************************************)
(* MIoTCloudClient (miot_cloud_client.cpp): what get_device makes of the   *)
(* body of an answer.  The class keeps no state between two requests, so   *)
(* the module is made of operators only.                                   *)
(*                                                                         *)
(* A text is a sequence of lexemes, which are what the scanner looks for:  *)
(* braces, `"list":[`, the keys with the quote that opens their value, the *)
(* quote that closes it, and the quote that JSON escapes inside a string.  *)
(* Values are lexemes of their own.  AES with the key that both sides have *)
(* and base64 give back what was put in; they stand for no lexeme.         *)
(***************************************************************************)
EXTENDS Integers, Sequences, FiniteSets
LOCAL INSTANCE FiniteSetsExt
LOCAL INSTANCE SequencesExt

CONSTANT Block          \* AES_BLOCK_SIZE

ASSUME BlockAssumption == Block \in 1..255

--------------------------------------------------------------------------------
(* pkcs7_pad, pkcs7_unpad.                                                  *)

Padding(n) == Block - (n % Block)
Pad(data) == data \o [i \in 1..Padding(Len(data)) |-> Padding(Len(data))]

\* A last byte that cannot be a padding; the variant is off by one.
MalformedMut(padding, n) == padding >= n \/ padding > Block
Malformed(padding, n) == padding > n \/ padding > Block

Unpad(data) ==
    IF data = <<>> \/ Malformed(data[Len(data)], Len(data))
      THEN data
      ELSE SubSeq(data, 1, Len(data) - data[Len(data)])

--------------------------------------------------------------------------------
(* SimpleJson: a scanner, not a parser.                                     *)

Key == {"did", "name", "model"}         \* `"did":"` and so on
Quote == {"quote", "escaped"} \cup Key  \* lexemes with a quote in them

\* std::string::find of one of the lexemes X; 0 stands for npos.
Find(text, X, from) ==
    LET at == {i \in from..Len(text) : text[i] \in X}
    IN  IF at = {} THEN 0 ELSE Min(at)

\* extract_string; the variant does not look whether the key was found.
ExtractMut(text, key) ==
    LET pos == Find(text, {key}, 1)
    IN  SubSeq(text, pos + 1, Find(text, Quote, pos + 1) - 1)
Extract(text, key) ==
    LET pos == Find(text, {key}, 1)
        end == Find(text, Quote, pos + 1)
    IN  IF pos = 0 \/ end = 0 THEN <<>> ELSE SubSeq(text, pos + 1, end - 1)

Depth(text, from, to) ==
    Cardinality({i \in from..to : text[i] = "{"})
        - Cardinality({i \in from..to : text[i] = "}"})

\* "Find matching closing brace", 0 if there is none: every brace counts, those
\* inside a string too.  The variant takes the first one.
ObjectEndMut(text, start) == Find(text, {"}"}, start)
ObjectEnd(text, start) ==
    LET ends == {i \in start..Len(text) : Depth(text, start, i) = 0}
    IN  IF ends = {} THEN 0 ELSE Min(ends)

\* What one object adds to the map: it must have a did and a model.
Device(object) ==
    LET did == Extract(object, "did")
        model == Extract(object, "model")
    IN  [d \in IF did = <<>> \/ model = <<>> THEN {} ELSE {did} |-> model]

Overwrite(old, new) ==
    [d \in DOMAIN old \cup DOMAIN new |-> IF d \in DOMAIN new THEN new[d] ELSE old[d]]

\* parse_device_list_response: a later object overwrites an earlier one.
ParseDeviceListResponse(text) ==
    LET list == Find(text, {"list"}, 1)
        From[pos \in 1..(Len(text) + 1)] ==
            LET start == Find(text, {"{"}, pos)
                end == IF start = 0 THEN 0 ELSE ObjectEnd(text, start)
            IN  IF end = 0 THEN <<>>
                ELSE Overwrite(Device(SubSeq(text, start, end)), From[end + 1])
    IN  IF list = 0 THEN <<>> ELSE From[list + 1]

\* get_devices and get_device, given what http_post returned: nothing when the
\* request failed, was refused or had no body.
GetDevices(body) ==
    LET text == Unpad(body)
    IN  IF body = <<>> \/ text = <<>> THEN <<>> ELSE ParseDeviceListResponse(text)

GetDevice(did, body) ==
    LET devices == GetDevices(body)
    IN  IF <<did>> \in DOMAIN devices THEN devices[<<did>>] ELSE <<>>

--------------------------------------------------------------------------------
(* The service: it writes the devices it lists, the fields of each in some  *)
(* order and perhaps an object among them, and pads the text.               *)

WriteField(device, key) == <<key>> \o device[key] \o <<"quote">>

WriteDevice(device, order) ==
    <<"{">>
    \o FlattenSeq([i \in DOMAIN order |->
           IF device[order[i]] = <<>> /\ order[i] # "name" THEN <<>>
           ELSE WriteField(device, order[i])])
    \o (IF device.extra THEN <<"{", "}">> ELSE <<>>)
    \o <<"}">>

WriteReply(devices, order) ==
    Pad(<<"{", "{", "list">>
        \o FlattenSeq([i \in DOMAIN devices |-> WriteDevice(devices[i], order)])
        \o <<"}", "}">>)
================================================================================
