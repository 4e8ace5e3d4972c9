----------------------------- MODULE ParserSpec -----------------------------
(***************************************************************************)
(* What the parser promises (spec.md section 4.1, with the outcome kinds *)
(* of section 7): a reference the operators of Parser are checked        *)
(* against.  It is written from the contract's text, declaratively, not  *)
(* from the code: a key chain is followed by a path lookup, a dictionary *)
(* entry is the least matching position, and no input ever crashes.      *)
(***************************************************************************)
EXTENDS JsonValue, Integers, Sequences, FiniteSets

CONSTANTS LATEST_BLOCK, EARLIEST_BLOCK, PENDING_BLOCK, SAFE_BLOCK,
          FINALIZED_BLOCK, NOT_APPLICABLE

Ok(v)     == [kind |-> "ok", vals |-> v]
Missing   == [kind |-> "notset", vals |-> <<>>]
Mismatch  == [kind |-> "error", vals |-> <<>>]

Least(S) == CHOOSE i \in S : \A j \in S : i <= j

(* A non-negative integer index written in base 10.                     *)
IsIndex(s) == s # <<>> /\ \A i \in DOMAIN s : IsDigitTok(s[i])
IndexOf(s) == LET RECURSIVE V(_)
                  V(k) == IF k = 0 THEN 0 ELSE 10 * V(k - 1) + DigitVal(s[k])
              IN V(Len(s))

(* Stringification of a terminal value.                                  *)
Text(v) == IF v.t \in {"str", "raw"} THEN v.s
           ELSE IF v.t = "num" THEN Decimal(v.n) ELSE GenericText(v)

(* The value to inspect: params verbatim; a reply decoded as a map, or  *)
(* else its raw bytes, wrapped in a one-element sequence.                *)
Target(in, src) ==
    IF src = 0 THEN {in.params}
    ELSE IF src = 1 /\ in.result.k = "object" THEN {Arr(<<Obj(in.result.m)>>)}
    ELSE IF src = 1 /\ in.result.k = "text" THEN {Arr(<<Raw(in.result.s)>>)}
    ELSE {}

(* Following a key chain through nested maps: "found" with the value,   *)
(* "absent" when a key is missing from a map, "shape" when a non-map is *)
(* met before the chain ends.                                            *)
RECURSIVE Follow(_, _)
Follow(v, keys) ==
    IF keys = <<>> THEN [r |-> "found", v |-> v]
    ELSE IF v.t # "map" THEN [r |-> "shape", v |-> v]
    ELSE IF keys[1] \notin DOMAIN v.m THEN [r |-> "absent", v |-> v]
    ELSE Follow(v.m[keys[1]], Tail(keys))

(* The positions at which sep occurs in s.                              *)
Occurs(sep, s) == {i \in 1..(Len(s) - Len(sep) + 1) :
                       SubSeq(s, i, i + Len(sep) - 1) = sep}

(* Dictionary lookup: in a map by key; in an array, the first string    *)
(* element "key<sep>value" with key = prop, split at sep's first        *)
(* occurrence.                                                          *)
DictValue(t, prop, sep) ==
    IF t.t = "map" THEN
        IF prop \in DOMAIN t.m THEN {Text(t.m[prop])} ELSE {}
    ELSE
        LET Split(s) == LET i == Least(Occurs(sep, s))
                        IN [k |-> SubSeq(s, 1, i - 1), v |-> SubSeq(s, i + Len(sep), Len(s))]
            Hits == {i \in DOMAIN t.a : t.a[i].t = "str" /\ Occurs(sep, t.a[i].s) # {}
                                         /\ Split(t.a[i].s).k = prop}
        IN IF Hits = {} THEN {} ELSE {Split(t.a[Least(Hits)].s).v}

Strategy(in, bp, src) ==
    LET args == bp.args
        T    == Target(in, src)
        t    == CHOOSE x \in T : TRUE
    IN
    CASE bp.func = "EMPTY" -> Ok(<<>>)
      [] bp.func = "DEFAULT" -> IF args = <<>> THEN Mismatch ELSE Ok(<<args[1]>>)
      [] T = {} -> Mismatch
      [] bp.func = "BY_ARG" ->
            IF Len(args) # 1 \/ ~IsIndex(args[1]) \/ t.t # "arr" THEN Mismatch
            ELSE IF IndexOf(args[1]) >= Len(t.a) THEN Missing
            ELSE Ok(<<Text(t.a[IndexOf(args[1]) + 1])>>)
      [] bp.func = "CANONICAL" /\ args # <<>> /\ t.t = "arr" ->
            IF ~IsIndex(args[1]) THEN Mismatch
            ELSE IF IndexOf(args[1]) >= Len(t.a) THEN Missing
            ELSE LET f == Follow(t.a[IndexOf(args[1]) + 1], Tail(args))
                 IN IF f.r = "found" THEN Ok(<<Text(f.v)>>) ELSE Mismatch
      [] bp.func = "CANONICAL" /\ args # <<>> /\ t.t = "map" ->
            LET f == Follow(t, args)
            IN CASE f.r = "found"  -> Ok(<<Text(f.v)>>)
                 [] f.r = "absent" -> Missing
                 [] OTHER          -> Mismatch
      [] bp.func = "DICTIONARY" /\ Len(args) = 2 /\ t.t \in {"arr", "map"} ->
            LET d == DictValue(t, args[1], args[2])
            IN IF d = {} THEN Missing ELSE Ok(<<CHOOSE x \in d : TRUE>>)
      [] bp.func = "DICTIONARY_OR_ORDERED" /\ Len(args) = 3 /\ IsIndex(args[3])
             /\ t.t \in {"arr", "map"} ->
            LET d   == DictValue(t, args[1], args[2])
                pos == IF t.t = "arr"
                       THEN IF IndexOf(args[3]) < Len(t.a)
                            THEN {Text(t.a[IndexOf(args[3]) + 1])} ELSE {}
                       ELSE IF args[3] \in DOMAIN t.m THEN {Text(t.m[args[3]])} ELSE {}
            IN IF d # {} THEN Ok(<<CHOOSE x \in d : TRUE>>)
               ELSE IF pos # {} THEN Ok(<<CHOOSE x \in pos : TRUE>>) ELSE Missing
      [] OTHER -> Mismatch

(* Parse: a missing value is replaced by the configured default.        *)
SpecParse(in, bp, src) ==
    LET r == Strategy(in, bp, src)
    IN IF r = Missing /\ bp.dflt # <<>> THEN Ok(<<bp.dflt>>) ELSE r

(* ParseDefaultBlockParameter: the five tags are sentinels; otherwise   *)
(* an integer literal with an optional sign and a common base prefix;   *)
(* negative values and other text are errors.                           *)
Tags == [latest |-> LATEST_BLOCK, earliest |-> EARLIEST_BLOCK, pending |-> PENDING_BLOCK,
         safe |-> SAFE_BLOCK, finalized |-> FINALIZED_BLOCK]
Signs    == {<<>>, <<"-">>, <<"+">>}
Prefixes == [x |-> 16, o |-> 8, b |-> 2]
HexDigit == <<"a", "b", "c", "d", "e", "f">>
DigitValue(c) ==
    IF IsDigitTok(c) THEN DigitVal(c)
    ELSE IF \E i \in 1..6 : HexDigit[i] = c THEN 9 + (CHOOSE i \in 1..6 : HexDigit[i] = c)
    ELSE 99
RECURSIVE LitValue(_, _)
LitValue(ds, b) ==
    IF ds = <<>> THEN 0 ELSE LitValue(SubSeq(ds, 1, Len(ds) - 1), b) * b + DigitValue(ds[Len(ds)])

(* The ways to read s as sign, base prefix ("0x", "0o", "0b", a lone   *)
(* "0" for octal, or none for decimal) and digits valid in that base.   *)
Readings(s) ==
    LET Pre == {<<>>, <<"0">>} \cup {<<"0", c>> : c \in DOMAIN Prefixes}
        Base(p) == CASE Len(p) = 2 -> Prefixes[p[2]] [] p = <<"0">> -> 8 [] OTHER -> 10
        Starts(x) == Len(x) <= Len(s) /\ SubSeq(s, 1, Len(x)) = x
    IN {[neg |-> q[1] = <<"-">>, plen |-> Len(q[2]), base |-> Base(q[2]),
         ds |-> SubSeq(s, Len(q[1] \o q[2]) + 1, Len(s))] :
            q \in {q \in Signs \X Pre : Starts(q[1] \o q[2])}}

SpecBlockParameter(s) ==
    LET Valid == {r \in Readings(s) :
                    /\ (r.ds # <<>> \/ r.plen = 1)
                    /\ \A i \in DOMAIN r.ds : DigitValue(r.ds[i]) < r.base}
        r == CHOOSE x \in Valid : \A y \in Valid : y.plen <= x.plen
    IN CASE Len(s) = 1 /\ s[1] \in DOMAIN Tags -> [h |-> Tags[s[1]], err |-> "none"]
         [] Valid = {} -> [h |-> NOT_APPLICABLE, err |-> "error"]
         [] r.neg /\ LitValue(r.ds, r.base) > 0 -> [h |-> NOT_APPLICABLE, err |-> "error"]
         [] OTHER -> [h |-> LitValue(r.ds, r.base), err |-> "none"]

(* ParseBlockFromParams / ParseBlockFromReply: the first value Parse     *)
(* gives, unquoted once by the reply variant if it is a quoted string    *)
(* literal, read as a block parameter; an empty result is "not           *)
(* applicable" and no error.                                             *)
QuotedLiteral(s) == Len(s) >= 2 /\ s[1] = "\"" /\ s[Len(s)] = "\""
                    /\ \A i \in 2..(Len(s) - 1) : s[i] # "\""
SpecBlockFrom(in, bp, src) ==
    LET r == SpecParse(in, bp, src)
        v == IF src = 1 /\ QuotedLiteral(r.vals[1])
             THEN SubSeq(r.vals[1], 2, Len(r.vals[1]) - 1) ELSE r.vals[1]
    IN CASE r.kind # "ok" -> [h |-> NOT_APPLICABLE, err |-> "error"]
         [] r.vals = <<>> -> [h |-> NOT_APPLICABLE, err |-> "none"]
         [] OTHER -> SpecBlockParameter(v)

=============================================================================
