------------------------------- MODULE Parser -------------------------------
(***************************************************************************)
(* The block parser of src/protocol/parser/parser.go: how a chain's spec  *)
(* (a BlockParser: strategy, args, default value) extracts a value from   *)
(* an RPC request's params or reply, and how that value becomes a block   *)
(* height.                                                                 *)
(*                                                                         *)
(* Every function of the file is a pure operator.  The state machine at   *)
(* the end makes one call of one public function and keeps its outcome,  *)
(* so that TLC enumerates every call over the inputs the MC module gives. *)
(*                                                                         *)
(* A []interface{} result is an outcome record: kind "ok" with the        *)
(* returned strings (<<>> for the nil slice of PARSER_FUNC_EMPTY), kind   *)
(* "notset" for ValueNotSetError, "error" for any other error and "panic" *)
(* for a Go runtime panic (an index out of range).                        *)
(***************************************************************************)
EXTENDS JsonValue, Integers, Sequences

LOCAL SX == INSTANCE SequencesExt

CONSTANTS
    Inputs,          \* RPCInput values: [params |-> value, result |-> reply]
    BlockParsers,    \* spectypes.BlockParser: [func, args, dflt]
    DataSources,     \* dataSource ints passed to Parse
    BlockTexts,      \* strings given to ParseDefaultBlockParameter
    LATEST_BLOCK, EARLIEST_BLOCK, PENDING_BLOCK, SAFE_BLOCK, FINALIZED_BLOCK,
    NOT_APPLICABLE,  \* spectypes sentinel heights
    None

PARSE_PARAMS == 0
PARSE_RESULT == 1

OkVals(v)  == [kind |-> "ok", vals |-> v]
NotSet     == [kind |-> "notset", vals |-> <<>>]
Failed     == [kind |-> "error", vals |-> <<>>]
Panicked   == [kind |-> "panic", vals |-> <<>>]

Height(h)   == [h |-> h, err |-> "none"]
HeightErr   == [h |-> NOT_APPLICABLE, err |-> "error"]
HeightPanic == [h |-> NOT_APPLICABLE, err |-> "panic"]

(***************************************************************************)
(* strconv.ParseUint(s, 10, 32): one or more decimal digits.  Its range *)
(* check (below 2^32) is left out: the args checked are a few digits.   *)
(***************************************************************************)
(* A token's digit value: letters count from 10, as in strconv.         *)
LetterVal == [a |-> 10, b |-> 11, f |-> 15, h |-> 17, o |-> 24, x |-> 33]
TokVal(c) == IF IsDigitTok(c) THEN DigitVal(c)
             ELSE IF c \in DOMAIN LetterVal THEN LetterVal[c] ELSE 99

RECURSIVE DigitsValue(_, _)
DigitsValue(s, base) ==
    IF s = <<>> THEN 0
    ELSE DigitsValue(SX!Front(s), base) * base + TokVal(SX!Last(s))

ParseUintOk(s) ==
    /\ s # <<>>
    /\ \A i \in 1..Len(s) : IsDigitTok(s[i])

(***************************************************************************)
(* strconv.ParseInt(s, 0, 64): optional sign; "0x", "0o", "0b" prefix or *)
(* a leading "0" for octal; each token's digit value (letters count from *)
(* 10) must be below the base.  Underscores are not in the alphabet.      *)
(***************************************************************************)
PrefixBase == [x |-> 16, o |-> 8, b |-> 2]

ParseUintBase0(s) ==
    LET prefixed == Len(s) >= 3 /\ s[1] = "0" /\ s[2] \in DOMAIN PrefixBase
        base     == IF prefixed THEN PrefixBase[s[2]]
                    ELSE IF s[1] = "0" THEN 8 ELSE 10
        digits   == IF prefixed THEN SubSeq(s, 3, Len(s))
                    ELSE IF s[1] = "0" THEN Tail(s) ELSE s
    IN IF \A i \in 1..Len(digits) : TokVal(digits[i]) < base
       THEN [ok |-> TRUE, n |-> DigitsValue(digits, base)]
       ELSE [ok |-> FALSE, n |-> 0]

ParseInt(s) ==
    IF s = <<>> THEN [ok |-> FALSE, n |-> 0]
    ELSE LET signed == s[1] \in {"+", "-"}
             body   == IF signed THEN Tail(s) ELSE s
             u      == IF body = <<>> THEN [ok |-> FALSE, n |-> 0]
                       ELSE ParseUintBase0(body)
         IN [ok |-> u.ok, n |-> IF s[1] = "-" THEN -u.n ELSE u.n]

(* parser.go ParseDefaultBlockParameter                                   *)
BlockTags == [latest |-> LATEST_BLOCK, earliest |-> EARLIEST_BLOCK,
              pending |-> PENDING_BLOCK, safe |-> SAFE_BLOCK,
              finalized |-> FINALIZED_BLOCK]

ParseDefaultBlockParameterNoSignCheck(s) ==
    IF Len(s) = 1 /\ s[1] \in DOMAIN BlockTags THEN Height(BlockTags[s[1]])
    ELSE LET p == ParseInt(s)
         IN IF ~p.ok THEN HeightErr ELSE Height(p.n)

ParseDefaultBlockParameter(s) ==
    IF Len(s) = 1 /\ s[1] \in DOMAIN BlockTags THEN Height(BlockTags[s[1]])
    ELSE LET p == ParseInt(s)
         IN IF ~p.ok \/ p.n < 0 THEN HeightErr ELSE Height(p.n)

(* The RPCInput's ParseBlock; the chain-specific implementations are not *)
(* in this repository and delegate to ParseDefaultBlockParameter.        *)
ParseBlock(s) == ParseDefaultBlockParameter(s)

(* parser.go GetDataToParse: the params verbatim, or the reply decoded   *)
(* into a map, or its raw bytes, as the sole element of an array.         *)
GetDataToParse(in, src) ==
    CASE src = PARSE_PARAMS -> [ok |-> TRUE, d |-> in.params]
      [] src = PARSE_RESULT /\ in.result.k = "empty" -> [ok |-> FALSE, d |-> Null]
      [] src = PARSE_RESULT /\ in.result.k = "object" ->
             [ok |-> TRUE, d |-> Arr(<<Obj(in.result.m)>>)]
      [] src = PARSE_RESULT -> [ok |-> TRUE, d |-> Arr(<<Raw(in.result.s)>>)]
      [] OTHER -> [ok |-> FALSE, d |-> Null]

(* parser.go blockInterfaceToString: strings pass through, a float64 is  *)
(* formatted without exponent or trailing zeros, anything else by %s,   *)
(* which for json.RawMessage bytes is the bytes themselves.              *)
BlockInterfaceToString(v) ==
    CASE v.t = "str" -> v.s
      [] v.t = "num" -> Decimal(v.n)
      [] v.t = "raw" -> v.s
      [] OTHER       -> GenericText(v)

(* strings.SplitN(s, sep, 2); an empty sep explodes s into at most two  *)
(* parts, its first token and the rest: one part for a one-token s, and  *)
(* an empty slice for an empty s.                                         *)
SplitN2(s, sep) ==
    CASE sep = <<>> /\ Len(s) <= 1 -> IF s = <<>> THEN <<>> ELSE <<s>>
      [] sep = <<>> -> <<<<s[1]>>, Tail(s)>>
      [] sep \in SX!SubSeqs(s) ->
            LET i == SX!IndexFirstSubSeq(sep, s)
            IN <<SubSeq(s, 1, i - 1), SubSeq(s, i + Len(sep), Len(s))>>
      [] OTHER -> <<s>>

(* parser.go parseArrayOfInterfaces: the value part of the first string  *)
(* element whose key part is propName; "panic" if SplitN gave nothing to *)
(* index; "none" (nil) if no element matches.                             *)
RECURSIVE ParseArrayOfInterfaces(_, _, _)
ParseArrayOfInterfaces(data, propName, sep) ==
    IF data = <<>> THEN [kind |-> "none", vals |-> <<>>]
    ELSE LET val == Head(data)
             arr == SplitN2(val.s, sep)
         IN CASE ~IsStr(val) -> ParseArrayOfInterfaces(Tail(data), propName, sep)
              [] arr = <<>> -> Panicked
              [] arr[1] # propName \/ Len(arr) < 2 ->
                     ParseArrayOfInterfaces(Tail(data), propName, sep)
              [] OTHER -> OkVals(<<arr[2]>>)

(* parser.go ParseByArg                                                   *)
ParseByArg(in, input, src) ==
    LET idx  == DigitsValue(input[1], 10)
        data == GetDataToParse(in, src)
    IN CASE Len(input) # 1 -> Failed
         [] ~ParseUintOk(input[1]) -> Failed
         [] ~data.ok -> Failed
         [] ~IsArr(data.d) -> Failed
         [] Len(data.d.a) <= idx -> NotSet
         [] OTHER -> OkVals(<<BlockInterfaceToString(data.d.a[idx + 1])>>)

(* The array-rooted loop of ParseCanonical: every key must be found in a *)
(* map, else a plain error.                                               *)
RECURSIVE WalkArrayPath(_, _)
WalkArrayPath(container, keys) ==
    CASE keys = <<>> -> OkVals(<<BlockInterfaceToString(container)>>)
      [] ~IsObj(container) \/ Head(keys) \notin DOMAIN container.m -> Failed
      [] OTHER -> WalkArrayPath(container.m[Head(keys)], Tail(keys))

(* The map-rooted loop of ParseCanonical over input[1:], idx counting   *)
(* from 0: a missing key is ValueNotSet, the value is returned when idx *)
(* equals len(input)-1, otherwise it must be a map to descend into; the *)
(* loop running out ends in the "should not get here" error.            *)
RECURSIVE WalkMapPath(_, _, _, _)
WalkMapPath(m, keys, idx, inputLen) ==
    CASE keys = <<>> -> Failed
      [] Head(keys) \notin DOMAIN m -> NotSet
      [] idx = inputLen - 1 -> OkVals(<<BlockInterfaceToString(m[Head(keys)])>>)
      [] IsObj(m[Head(keys)]) -> WalkMapPath(m[Head(keys)].m, Tail(keys), idx + 1, inputLen)
      [] OTHER -> Failed

(* parser.go ParseCanonical                                               *)
ParseCanonical(in, input, src) ==
    LET idx  == DigitsValue(input[1], 10)
        data == GetDataToParse(in, src)
    IN CASE input = <<>> -> Panicked
         [] ~ParseUintOk(input[1]) -> Failed
         [] ~data.ok -> Failed
         [] IsArr(data.d) /\ Len(data.d.a) <= idx -> NotSet
         [] IsArr(data.d) -> WalkArrayPath(data.d.a[idx + 1], Tail(input))
         [] IsObj(data.d) -> WalkMapPath(data.d.m, Tail(input), 0, Len(input))
         [] OTHER -> Failed

(* parser.go ParseDictionary                                              *)
ParseDictionary(in, input, src) ==
    LET data  == GetDataToParse(in, src)
        found == ParseArrayOfInterfaces(data.d.a, input[1], input[2])
    IN CASE Len(input) # 2 -> Failed
         [] ~data.ok -> Failed
         [] IsArr(data.d) -> IF found.kind = "none" THEN NotSet ELSE found
         [] IsObj(data.d) /\ input[1] \in DOMAIN data.d.m ->
                OkVals(<<BlockInterfaceToString(data.d.m[input[1]])>>)
         [] IsObj(data.d) -> NotSet
         [] OTHER -> Failed

(* parser.go ParseDictionaryOrOrdered                                     *)
ParseDictionaryOrOrdered(in, input, src) ==
    LET data  == GetDataToParse(in, src)
        idx   == DigitsValue(input[3], 10)
        found == ParseArrayOfInterfaces(data.d.a, input[1], input[2])
    IN CASE Len(input) # 3 -> Failed
         [] ~data.ok -> Failed
         [] ~ParseUintOk(input[3]) -> Failed
         [] IsArr(data.d) /\ found.kind # "none" -> found
         [] IsArr(data.d) /\ Len(data.d.a) <= idx -> NotSet
         [] IsArr(data.d) -> OkVals(<<BlockInterfaceToString(data.d.a[idx + 1])>>)
         [] IsObj(data.d) /\ input[1] \in DOMAIN data.d.m ->
                OkVals(<<BlockInterfaceToString(data.d.m[input[1]])>>)
         [] IsObj(data.d) /\ input[3] \in DOMAIN data.d.m ->
                OkVals(<<BlockInterfaceToString(data.d.m[input[3]])>>)
         [] IsObj(data.d) -> NotSet
         [] OTHER -> Failed

(* parser.go ParseDefault: input[0], unchecked.                           *)
ParseDefault(in, input, src) ==
    IF input = <<>> THEN Panicked ELSE OkVals(<<input[1]>>)

(* parser.go Parse: dispatch, then ValueNotSet becomes [DefaultValue]    *)
(* when one is configured.                                                *)
Dispatch(in, bp, src) ==
    CASE bp.func = "BY_ARG" -> ParseByArg(in, bp.args, src)
      [] bp.func = "CANONICAL" -> ParseCanonical(in, bp.args, src)
      [] bp.func = "DICTIONARY" -> ParseDictionary(in, bp.args, src)
      [] bp.func = "DICTIONARY_OR_ORDERED" -> ParseDictionaryOrOrdered(in, bp.args, src)
      [] bp.func = "DEFAULT" -> ParseDefault(in, bp.args, src)
      [] OTHER -> Failed

ParseDefaultOnAnyError(in, bp, src) ==
    LET r == Dispatch(in, bp, src)
    IN CASE bp.func = "EMPTY" -> OkVals(<<>>)
         [] r.kind \in {"notset", "error"} /\ bp.dflt # <<>> -> OkVals(<<bp.dflt>>)
         [] OTHER -> r

Parse(in, bp, src) ==
    LET r == Dispatch(in, bp, src)
    IN CASE bp.func = "EMPTY" -> OkVals(<<>>)
         [] r = NotSet /\ bp.dflt # <<>> -> OkVals(<<bp.dflt>>)
         [] OTHER -> r

(* parser.go ParseBlockFromParams / ParseBlockFromReply: the nil result  *)
(* of EMPTY is NOT_APPLICABLE without error; the reply's string is      *)
(* unquoted whenever it contains a double quote.  Every value Parse      *)
(* returns is a string, so the type assertion cannot fail.               *)
Unquote(s) ==
    IF Len(s) >= 2 /\ s[1] = "\"" /\ s[Len(s)] = "\""
       /\ \A i \in 2..Len(s) - 1 : s[i] # "\""
    THEN [ok |-> TRUE, s |-> SubSeq(s, 2, Len(s) - 1)]
    ELSE [ok |-> FALSE, s |-> s]

ParseBlockFromParams(in, bp) ==
    LET r == Parse(in, bp, PARSE_PARAMS)
    IN CASE r.kind = "panic" -> HeightPanic
         [] r.kind # "ok" -> HeightErr
         [] r.vals = <<>> -> Height(NOT_APPLICABLE)
         [] OTHER -> ParseBlock(r.vals[1])

ParseBlockFromReply(in, bp) ==
    LET r == Parse(in, bp, PARSE_RESULT)
        u == Unquote(r.vals[1])
    IN CASE r.kind = "panic" -> HeightPanic
         [] r.kind # "ok" -> HeightErr
         [] r.vals = <<>> -> Height(NOT_APPLICABLE)
         [] ~SX!Contains(r.vals[1], "\"") -> ParseBlock(r.vals[1])
         [] ~u.ok -> HeightErr
         [] OTHER -> ParseBlock(u.s)

(* parser.go ParseMessageResponse                                         *)
ParseMessageResponse(in, bp) == Parse(in, bp, PARSE_RESULT)

-----------------------------------------------------------------------------
(***************************************************************************)
(* One call of a public function of the parser, with its outcome.  Each  *)
(* behaviour is a single call: the parser keeps no state between calls.  *)
(***************************************************************************)
VARIABLE last

Ops == {"Parse", "ParseBlockFromParams", "ParseBlockFromReply",
        "ParseMessageResponse", "ParseDefaultBlockParameter"}

(* Every call returns one of the outcomes of its Go signature: values   *)
(* only with a nil error, a height other than NOT_APPLICABLE only with  *)
(* a nil error.                                                          *)
TypeOK ==
    \/ last = None
    \/ /\ last.op \in Ops
       /\ IF last.op \in {"Parse", "ParseMessageResponse"}
          THEN /\ last.out.kind \in {"ok", "notset", "error", "panic"}
               /\ last.out.kind # "ok" => last.out.vals = <<>>
          ELSE /\ last.out.err \in {"none", "error", "panic"}
               /\ last.out.err # "none" => last.out.h = NOT_APPLICABLE

Init == last = None

CallParse ==
    /\ last = None
    /\ \E in \in Inputs, bp \in BlockParsers, src \in DataSources :
          last' = [op |-> "Parse", in |-> in, bp |-> bp, src |-> src,
                   out |-> Parse(in, bp, src)]

CallParseBlockFromParams ==
    /\ last = None
    /\ \E in \in Inputs, bp \in BlockParsers :
          last' = [op |-> "ParseBlockFromParams", in |-> in, bp |-> bp, src |-> PARSE_PARAMS,
                   out |-> ParseBlockFromParams(in, bp)]

CallParseBlockFromReply ==
    /\ last = None
    /\ \E in \in Inputs, bp \in BlockParsers :
          last' = [op |-> "ParseBlockFromReply", in |-> in, bp |-> bp, src |-> PARSE_RESULT,
                   out |-> ParseBlockFromReply(in, bp)]

CallParseMessageResponse ==
    /\ last = None
    /\ \E in \in Inputs, bp \in BlockParsers :
          last' = [op |-> "ParseMessageResponse", in |-> in, bp |-> bp, src |-> PARSE_RESULT,
                   out |-> ParseMessageResponse(in, bp)]

CallParseDefaultBlockParameter ==
    /\ last = None
    /\ \E s \in BlockTexts :
          last' = [op |-> "ParseDefaultBlockParameter", text |-> s,
                   out |-> ParseDefaultBlockParameter(s)]

Next ==
    \/ CallParse
    \/ CallParseBlockFromParams
    \/ CallParseBlockFromReply
    \/ CallParseMessageResponse
    \/ CallParseDefaultBlockParameter

Spec == Init /\ [][Next]_last
=============================================================================
