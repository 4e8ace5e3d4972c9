------------------------------ MODULE MCParser ------------------------------
(***************************************************************************)
(* The parser of Parser.tla over small JSON values, block parsers and    *)
(* texts, checked against the reference ParserSpec.tla.                  *)
(***************************************************************************)
EXTENDS Parser

Ref == INSTANCE ParserSpec

(* Tokens: "h" and "b" are property names, ":" the separator, "7" and   *)
(* "0" digits, a double quote the quoting character.                    *)
Kh == <<"h">>
Kb == <<"b">>
K0 == <<"0">>
K1 == <<"1">>
Sep == <<":">>
Tag == <<"latest">>

Texts == {<<>>, <<"h", ":", "7">>, <<"b", ":", "7">>, <<"7">>, <<"\"", "7", "\"">>, Kh}
Leaves == {Str(t) : t \in Texts} \cup {Num(7), Num(70), Null}
EmptyMap == [k \in {} |-> Null]
Inner == Obj([k \in {Kh} |-> Str(<<"7">>)])
Maps == {EmptyMap} \cup {[x \in {k} |-> v] : k \in {Kh, K1}, v \in Leaves \cup {Inner}}
Objs == {Obj(m) : m \in Maps}
Elems == Leaves \cup Objs
Arrays == {<<>>} \cup {<<e>> : e \in Elems} \cup {<<e, f>> : e, f \in Leaves}
Params == {Arr(a) : a \in Arrays} \cup Objs \cup {Str(<<"7">>)}
Replies == {EmptyReply, TextReply(<<"7">>), TextReply(<<"\"", "7", "\"">>), TextReply(Kh)}
           \cup {ObjectReply(m) : m \in Maps}

MCInputs == {[params |-> p, result |-> EmptyReply] : p \in Params}
            \cup {[params |-> Null, result |-> r] : r \in Replies}

BP(f, a, d) == [func |-> f, args |-> a, dflt |-> d]
(* Block parsers whose args the code can index: at least one arg and a  *)
(* non-empty separator.                                                  *)
WellFormedParsers ==
    {BP("EMPTY", <<>>, <<>>), BP("UNKNOWN", <<K0>>, <<>>),
     BP("DEFAULT", <<Tag>>, <<>>),
     BP("BY_ARG", <<K0>>, <<>>), BP("BY_ARG", <<K1>>, <<>>), BP("BY_ARG", <<K1>>, Tag),
     BP("BY_ARG", <<Kh>>, <<>>), BP("BY_ARG", <<K0, K0>>, <<>>),
     BP("CANONICAL", <<K0>>, <<>>), BP("CANONICAL", <<K0, Kh>>, <<>>),
     BP("CANONICAL", <<K0, Kh, Kh>>, <<>>), BP("CANONICAL", <<K1, Kh>>, Tag),
     BP("CANONICAL", <<Kh, Kh>>, Tag),
     BP("DICTIONARY", <<Kh, Sep>>, <<>>), BP("DICTIONARY", <<Kh, Sep>>, Tag),
     BP("DICTIONARY", <<Kb, Sep>>, <<>>), BP("DICTIONARY", <<Kh>>, <<>>),
     BP("DICTIONARY_OR_ORDERED", <<Kh, Sep, K1>>, <<>>),
     BP("DICTIONARY_OR_ORDERED", <<Kh, Sep, Kh>>, <<>>),
     BP("DICTIONARY_OR_ORDERED", <<Kb, Sep, K0>>, Tag)}
(* Block parsers with no args, or an empty separator.                   *)
DegenerateParsers ==
    {BP("CANONICAL", <<>>, <<>>), BP("DEFAULT", <<>>, <<>>),
     BP("DICTIONARY", <<Kh, <<>>>>, <<>>)}
AllParsers == WellFormedParsers \cup DegenerateParsers

MCDataSources == {PARSE_PARAMS, PARSE_RESULT, 2}

Alphabet == {"0", "7", "a", "b", "x", "-", "h"}
MCBlockTexts == {<<"latest">>, <<"safe">>} \cup {<<c>> : c \in Alphabet}
                \cup {<<c, d>> : c, d \in Alphabet} \cup {<<c, d, e>> : c, d, e \in Alphabet}

(* spectypes sentinel heights.                                           *)
MCLatest == -2
MCEarliest == -3
MCPending == -4
MCSafe == -5
MCFinalized == -6
MCNotApplicable == -1

-----------------------------------------------------------------------------
(* The canonical strategy on a map-rooted target (only params can be a  *)
(* map: a reply is always wrapped in an array).                          *)
MapRootedCanonical(c) ==
    c.bp.func = "CANONICAL" /\ c.src = PARSE_PARAMS /\ IsObj(c.in.params)

(* Parse and ParseMessageResponse return what section 4.1 of the spec   *)
(* says for every strategy, data source and payload shape -- index     *)
(* misses as ValueNotSet replaced by the default, wrong shapes as       *)
(* errors, the first "key<sep>value" match, stringified terminals --    *)
(* outside the map-rooted canonical path.                               *)
ParseMatchesSpec ==
    last # None /\ last.op \in {"Parse", "ParseMessageResponse"}
    /\ ~MapRootedCanonical(last)
    => last.out = Ref!SpecParse(last.in, last.bp, last.src)

(* The canonical strategy over a map-rooted target walks the key chain  *)
(* args[0], args[1], ... and returns the terminal value, ValueNotSet on *)
(* a missing key (spec 4.1 and the open question of section 9).         *)
CanonicalMapPathMatchesSpec ==
    last # None /\ last.op = "Parse" /\ MapRootedCanonical(last)
    => last.out = Ref!SpecParse(last.in, last.bp, last.src)

(* ParseBlockFromParams, ParseBlockFromReply and                        *)
(* ParseDefaultBlockParameter give the height section 4.1 describes:    *)
(* tags as sentinels, an empty result as NOT_APPLICABLE without error, *)
(* a quoted reply unquoted once, negatives and non-numbers as errors.   *)
BlockHeightMatchesSpec ==
    /\ last # None /\ last.op \in {"ParseBlockFromParams", "ParseBlockFromReply"}
       /\ ~MapRootedCanonical(last)
       => last.out = Ref!SpecBlockFrom(last.in, last.bp, last.src)
    /\ last # None /\ last.op = "ParseDefaultBlockParameter"
       => last.out = Ref!SpecBlockParameter(last.text)

(* No block parser configuration and no payload makes a parser call     *)
(* crash the process (spec section 7: a parsing error never crashes).   *)
ParseNeverPanics ==
    last # None => (IF "kind" \in DOMAIN last.out THEN last.out.kind # "panic"
                    ELSE last.out.err # "panic")
=============================================================================
