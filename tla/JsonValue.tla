----------------------------- MODULE JsonValue -----------------------------
(***************************************************************************)
(* The values the parser of src/protocol/parser/parser.go inspects: what  *)
(* encoding/json decodes into an interface{}, plus the raw bytes          *)
(* (json.RawMessage) GetDataToParse wraps when decoding fails.            *)
(*                                                                         *)
(* Text is a sequence of tokens, each standing for one character (or, for *)
(* the block tags, one word), so that splitting on a separator, finding a *)
(* quote and parsing digits are modelled by what they do.                 *)
(***************************************************************************)
EXTENDS Naturals, Sequences

Str(s)  == [t |-> "str", s |-> s]        \* string
Num(n)  == [t |-> "num", n |-> n]        \* float64 holding the integer n
Null    == [t |-> "null"]                \* nil, a bool, ...: no case of its own
Raw(s)  == [t |-> "raw", s |-> s]        \* json.RawMessage bytes
Obj(m)  == [t |-> "map", m |-> m]        \* map[string]interface{}
Arr(a)  == [t |-> "arr", a |-> a]        \* []interface{}

(* What fmt.Sprintf("%s", v) makes of a value with no case of its own:  *)
(* abstracted to one opaque text per kind of value.                      *)
GenericText(v) == <<"%!s", v.t>>

IsStr(v) == v.t = "str"
IsObj(v) == v.t = "map"
IsArr(v) == v.t = "arr"

(* The raw reply bytes GetResult returns, by what json.Unmarshal into a    *)
(* map makes of them.                                                      *)
EmptyReply      == [k |-> "empty"]         \* zero bytes
ObjectReply(m)  == [k |-> "object", m |-> m] \* a JSON object
TextReply(s)    == [k |-> "text", s |-> s]   \* anything else: array, number,
                                             \* string literal, not JSON

Digit == <<"0", "1", "2", "3", "4", "5", "6", "7", "8", "9">>
DigitVal(c) == CHOOSE d \in 0..9 : Digit[d + 1] = c
IsDigitTok(c) == \E d \in 0..9 : Digit[d + 1] = c

(* Base-10 text of a natural number.                                       *)
RECURSIVE Decimal(_)
Decimal(n) ==
    IF n < 10 THEN <<Digit[n + 1]>> ELSE Decimal(n \div 10) \o <<Digit[(n % 10) + 1]>>

=============================================================================
