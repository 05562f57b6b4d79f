------------------------------ MODULE QueryString ------------------------------
(***************************************************************************)
(* parse_query_param and url_decode (http_server.cpp): the code and the    *)
(* state that handle_request takes out of the address the browser was      *)
(* redirected to.  A text is a sequence of characters; letters that belong *)
(* together are one character.                                             *)
(***************************************************************************)
EXTENDS Integers, Sequences
LOCAL INSTANCE FiniteSetsExt
LOCAL INSTANCE SequencesExt

\* The characters that are written as % and two digits.
Digits == [c \in {"&", "=", "%", "+", " "} |->
    CASE c = "&" -> <<"2", "6">> [] c = "=" -> <<"3", "D">> [] c = "%" -> <<"2", "5">>
      [] c = "+" -> <<"2", "B">> [] c = " " -> <<"2", "0">>]

\* sscanf of "%x" at i; where no two digits stand the result is left over from
\* before, or was never set.
Character(str, i) ==
    LET read == {c \in DOMAIN Digits :
                    i < Len(str) /\ <<str[i], str[i + 1]>> = Digits[c]}
    IN  IF read = {} THEN "junk" ELSE CHOOSE c \in read : TRUE

\* Characters url_decode reads for one it writes; the variant loses count.
WidthMut(c) == IF c = "%" THEN 2 ELSE 1
Width(c) == IF c = "%" THEN 3 ELSE 1

UrlDecode(str) ==
    LET From[i \in 1..(Len(str) + 3)] ==
            IF i > Len(str) THEN <<>>
            ELSE <<CASE str[i] = "%" -> Character(str, i + 1)
                     [] str[i] = "+" -> " "
                     [] OTHER -> str[i]>> \o From[i + Width(str[i])]
    IN  From[1]

\* The first place where key= stands, also at the end of a longer name; up to the
\* next &.  Nothing if there is no such place.
ParseQueryParam(query, key) ==
    LET places == {i \in 1..(Len(query) - 1) :
                      <<query[i], query[i + 1]>> = <<key, "=">>}
        pos == Min(places) + 2
        ends == {i \in pos..Len(query) : query[i] = "&"}
        end == IF ends = {} THEN Len(query) + 1 ELSE Min(ends)
    IN  IF places = {} THEN <<>> ELSE UrlDecode(SubSeq(query, pos, end - 1))

\* What handle_request gives the callback; without both there is no call.
CallbackArguments(query) ==
    LET code == ParseQueryParam(query, "code")
        state == ParseQueryParam(query, "state")
    IN  IF code = <<>> \/ state = <<>> THEN <<>> ELSE <<code, state>>

--------------------------------------------------------------------------------
(* The account service, which writes the address.                           *)

UrlEncode(str) ==
    FlattenSeq([i \in DOMAIN str |->
        IF str[i] \in DOMAIN Digits THEN <<"%">> \o Digits[str[i]] ELSE <<str[i]>>])

WriteParam(param) == param.name \o <<"=">> \o UrlEncode(param.value)

WriteQuery(params) ==
    FlattenSeq([i \in DOMAIN params |->
        (IF i = 1 THEN <<>> ELSE <<"&">>) \o WriteParam(params[i])])
================================================================================
