------------------------------ MODULE ChTypes ------------------------------
(***************************************************************************)
(* ClickHouse type names (internal/ch) and their Go types (the ClickHouse   *)
(* resolver): a name that DESCRIBE answered or that a parameter spells is   *)
(* parsed into a tree, a parameter gets a zero literal that inference can   *)
(* bind, and the tree is resolved under the --go-type overrides, which are  *)
(* looked up by the spelling that the tree prints.                          *)
(*                                                                          *)
(* Text is a sequence of symbols: punctuation and digits one by one, a word *)
(* as one symbol.  Words and digits that touch are one identifier.          *)
(***************************************************************************)
EXTENDS Integers, Sequences, SequencesExt, FiniteSetsExt, TLC

CONSTANTS
  Types,        \* the server's types, see the constructors below
  OverrideSets  \* --go-type: functions from texts to [go, slice]

Spaces == {"space", "newline"}
Digits == {"0", "1", "2", "3", "4", "5", "6", "7", "8", "9"}
Punct  == Spaces \cup {"(", ")", ",", "=", "'", "bslash", "-", "+", "/", "btick"}
IsIdentByte(c) == c \notin Punct

ASSUME ChTypesAssumption ==
  /\ \A c \in Types : c.text \in Seq(STRING) /\ c.aliases \subseteq Seq(STRING)
  /\ \A o \in OverrideSets : \A s \in DOMAIN o : o[s] \in [go : STRING, slice : BOOLEAN]

VARIABLES
  col,        \* the server's type that the text was made from
  text,       \* the name that is parsed
  use,        \* "column" of DESCRIBE or "param" of the query
  overrides,
  pc,
  typ, zero, go  \* the answers of Parse, ZeroLiteral and Resolve

vars == <<col, text, use, overrides, pc, typ, zero, go>>

-----------------------------------------------------------------------------
(* The parser: an answer is a value with the position after it, or an       *)
(* error; nothing is tried again after an error.                            *)
Ok(p, v) == [ok |-> TRUE, pos |-> p, val |-> v]
Errf(p)  == [ok |-> FALSE, pos |-> p]
Then(r, F(_, _)) == IF r.ok THEN F(r.pos, r.val) ELSE r

(* The end of the run of symbols in S that begins at p.                     *)
RunEnd(s, p, In(_)) == Min({q \in p..(Len(s) + 1) : q > Len(s) \/ ~In(s[q])})
SkipSpace(s, p) == RunEnd(s, p, LAMBDA c : c \in Spaces)
Peek(s, p) == LET q == SkipSpace(s, p) IN IF q > Len(s) THEN "" ELSE s[q]
Expect(s, p, c) ==
  IF Peek(s, p) = c THEN Ok(SkipSpace(s, p) + 1, c) ELSE Errf(SkipSpace(s, p))

ParseIdent(s, p) ==
  LET a == SkipSpace(s, p)
      e == RunEnd(s, a, IsIdentByte)
  IN IF e = a THEN Errf(a) ELSE Ok(e, SubSeq(s, a, e - 1))

Escape == [n |-> "newline"]
Unescaped(c) == IF c \in DOMAIN Escape THEN Escape[c] ELSE c
RECURSIVE StringRest(_, _, _)
StringRest(s, p, acc) ==
  CASE p > Len(s)        -> Errf(p)
    [] s[p] = "'"        -> Ok(p + 1, acc)
    [] s[p] = "bslash"   -> IF p = Len(s) THEN Errf(p)
                            ELSE StringRest(s, p + 2, Append(acc, Unescaped(s[p + 1])))
    [] OTHER             -> StringRest(s, p + 1, Append(acc, s[p]))
ParseString(s, p) == Then(Expect(s, p, "'"), LAMBDA q, c : StringRest(s, q, <<>>))

Digit == [c \in Digits |-> CHOOSE n \in 0..9 : ToString(n) = c]
Atoi(ds) == FoldLeft(LAMBDA n, c : 10 * n + Digit[c], 0, ds)
ParseInt(s, p) ==
  LET a    == SkipSpace(s, p)
      sign == a <= Len(s) /\ s[a] \in {"-", "+"}
      d    == IF sign THEN a + 1 ELSE a
      e    == RunEnd(s, d, LAMBDA c : c \in Digits)
      n    == Atoi(SubSeq(s, d, e - 1))
  IN IF e = d THEN Errf(e) ELSE Ok(e, IF sign /\ s[a] = "-" THEN -n ELSE n)

Paren(s, p, P(_, _)) ==
  Then(Expect(s, p, "("), LAMBDA q, c :
    Then(P(s, q), LAMBDA r, v :
      Then(Expect(s, r, ")"), LAMBDA e, d : Ok(e, v))))
ParenInt(s, p)    == Paren(s, p, ParseInt)
ParenString(s, p) == Paren(s, p, ParseString)
Pair(s, p, P(_, _), Q(_, _)) ==
  Then(P(s, p), LAMBDA q, v :
    Then(Expect(s, q, ","), LAMBDA r, c :
      Then(Q(s, r), LAMBDA e, w : Ok(e, <<v, w>>))))
Map(r, F(_)) == Then(r, LAMBDA p, v : Ok(p, F(v)))

DateTime64Args(s, p) ==
  Then(ParseInt(s, p), LAMBDA q, n :
    IF Peek(s, q) # "," THEN Ok(q, <<n, <<>>>>)
    ELSE Map(ParseString(s, SkipSpace(s, q) + 1), LAMBDA tz : <<n, tz>>))

(* parseEnum: int16(v) keeps every value that passes the range check.       *)
Int16(v) == ((v + 32768) % 65536) - 32768
(* Mutant: no check.                                                        *)
AnyRange(bits, v) == TRUE
InRange(bits, v) == IF bits = 8 THEN v \in -128..127 ELSE v \in -32768..32767
EnumEntry(s, p) ==
  Then(ParseString(s, p), LAMBDA q, label :
    Then(Expect(s, q, "="), LAMBDA r, c :
      Map(ParseInt(s, r), LAMBDA v : <<label, v>>)))
RECURSIVE EnumEntries(_, _, _, _)
EnumEntries(s, p, bits, acc) ==
  Then(EnumEntry(s, p), LAMBDA q, e :
    IF ~InRange(bits, e[2]) THEN Errf(q)
    ELSE LET es == Append(acc, <<e[1], Int16(e[2])>>)
         IN IF Peek(s, q) = "," THEN EnumEntries(s, SkipSpace(s, q) + 1, bits, es) ELSE Ok(q, es))
Enum(bits, es) ==
  [k |-> "enum", bits |-> bits, labels |-> [i \in DOMAIN es |-> es[i][1]],
   values |-> [i \in DOMAIN es |-> es[i][2]]]

(* skipBalanced: past the parenthesis that closes the group.                *)
RECURSIVE Balanced(_, _, _)
Balanced(s, p, depth) ==
  CASE p > Len(s)  -> Errf(p)
    [] s[p] = "'"  -> Then(ParseString(s, p), LAMBDA q, v : Balanced(s, q, depth))
    [] s[p] = "("  -> Balanced(s, p + 1, depth + 1)
    [] s[p] = ")"  -> IF depth = 1 THEN Ok(p + 1, <<>>) ELSE Balanced(s, p + 1, depth - 1)
    [] OTHER       -> Balanced(s, p + 1, depth)
SkipBalanced(s, p) == Then(Expect(s, p, "("), LAMBDA q, c : Balanced(s, q, 1))

Bare(name) ==
  CASE name = <<"DateTime">>   -> [k |-> "datetime", tz |-> <<>>]
    [] name = <<"DateTime64">> -> [k |-> "datetime64", precision |-> 3, tz |-> <<>>]
    [] OTHER                   -> [k |-> "scalar", name |-> name]

DecimalPrecision == "Decimal32" :> 9 @@ "Decimal64" :> 18 @@ "Decimal128" :> 38 @@ "Decimal256" :> 76
Wrapper == "Nullable" :> "nullable" @@ "LowCardinality" :> "lowcardinality" @@ "Array" :> "array"
EnumBits == "Enum8" :> 8 @@ "Enum16" :> 16

RECURSIVE ParseType(_, _)
RECURSIVE TupleElems(_, _, _)
(* A name that another token follows is the name of a field; peek has then  *)
(* moved past the space, while a positional element starts from save.       *)
(* Mutant: the position is not restored.                                    *)
TupleElemNoSave(s, p) ==
  Then(ParseIdent(s, p), LAMBDA q, ident :
    IF Peek(s, q) \in {"(", ",", ")"} THEN Map(ParseType(s, q), LAMBDA t : <<<<>>, t>>)
    ELSE Map(ParseType(s, SkipSpace(s, q)), LAMBDA t : <<ident, t>>))
TupleElem(s, p) ==
  Then(ParseIdent(s, p), LAMBDA q, ident :
    IF Peek(s, q) \in {"(", ",", ")"} THEN Map(ParseType(s, p), LAMBDA t : <<<<>>, t>>)
    ELSE Map(ParseType(s, SkipSpace(s, q)), LAMBDA t : <<ident, t>>))
TupleElems(s, p, acc) ==
  Then(TupleElem(s, p), LAMBDA q, e :
    LET es == Append(acc, e)
    IN IF Peek(s, q) = "," THEN TupleElems(s, SkipSpace(s, q) + 1, es) ELSE Ok(q, es))
Tuple(es) ==
  [k |-> "tuple", elems |-> [i \in DOMAIN es |-> es[i][2]],
   names |-> IF \A i \in DOMAIN es : es[i][1] = <<>> THEN <<>> ELSE [i \in DOMAIN es |-> es[i][1]]]

ParseParenType(s, p) == Paren(s, p, ParseType)

(* A type with arguments, its name ending at q.                             *)
ParseArgs(s, p, q, name) ==
  LET n == IF Len(name) = 1 THEN name[1] ELSE "" IN
  CASE n \in DOMAIN Wrapper ->
         Map(ParseParenType(s, q), LAMBDA t : [k |-> Wrapper[n], elem |-> t])
    [] n = "Map" ->
         Map(Paren(s, q, LAMBDA s1, a : Pair(s1, a, ParseType, ParseType)),
             LAMBDA kv : [k |-> "map", key |-> kv[1], value |-> kv[2]])
    [] n = "FixedString" -> Map(ParenInt(s, q), LAMBDA i : [k |-> "fixedstring", n |-> i])
    [] n = "Decimal" ->
         Map(Paren(s, q, LAMBDA s1, a : Pair(s1, a, ParseInt, ParseInt)),
             LAMBDA ps : [k |-> "decimal", precision |-> ps[1], scale |-> ps[2]])
    [] n \in DOMAIN DecimalPrecision ->
         Map(ParenInt(s, q),
             LAMBDA i : [k |-> "decimal", precision |-> DecimalPrecision[n], scale |-> i])
    [] n = "DateTime" -> Map(ParenString(s, q), LAMBDA tz : [k |-> "datetime", tz |-> tz])
    [] n = "DateTime64" ->
         Map(Paren(s, q, DateTime64Args),
             LAMBDA pt : [k |-> "datetime64", precision |-> pt[1], tz |-> pt[2]])
    [] n \in DOMAIN EnumBits ->
         Map(Paren(s, q, LAMBDA s1, a : EnumEntries(s1, a, EnumBits[n], <<>>)),
             LAMBDA es : Enum(EnumBits[n], es))
    [] n = "Tuple" -> Map(Paren(s, q, LAMBDA s1, a : TupleElems(s1, a, <<>>)), Tuple)
    [] OTHER ->
         Then(SkipBalanced(s, q),
              LAMBDA e, v : Ok(e, [k |-> "unsupported", raw |-> SubSeq(s, p, e - 1)]))

ParseType(s, p) ==
  Then(ParseIdent(s, p), LAMBDA q, name :
    IF Peek(s, q) = "(" THEN ParseArgs(s, p, q, name) ELSE Ok(SkipSpace(s, q), Bare(name)))

Parse(s) ==
  Then(ParseType(s, 1), LAMBDA p, t : IF SkipSpace(s, p) = Len(s) + 1 THEN Ok(p, t) ELSE Errf(p))

-----------------------------------------------------------------------------
(* String: the spelling of a tree.                                          *)
NatDigits(n) ==
  LET d[m \in 0..n] == IF m < 10 THEN <<ToString(m)>> ELSE d[m \div 10] \o <<ToString(m % 10)>>
  IN d[n]
Itoa(n) == IF n < 0 THEN <<"-">> \o NatDigits(-n) ELSE NatDigits(n)
(* Mutant: a backslash in a label is not escaped.                           *)
QuoteApostrophe(s) ==
  <<"'">> \o FlattenSeq([i \in DOMAIN s |-> IF s[i] = "'" THEN <<"bslash", s[i]>> ELSE <<s[i]>>]) \o <<"'">>
Quote(s) ==
  <<"'">> \o FlattenSeq([i \in DOMAIN s |-> IF s[i] \in {"'", "bslash"} THEN <<"bslash", s[i]>> ELSE <<s[i]>>])
  \o <<"'">>
Join(parts) ==
  FlattenSeq([i \in DOMAIN parts |-> (IF i = 1 THEN <<>> ELSE <<",", "space">>) \o parts[i]])
Call(name, parts) == <<name, "(">> \o Join(parts) \o <<")">>
Named(name, t) == IF name = <<>> THEN t ELSE name \o <<"space">> \o t

RECURSIVE String(_)
String(t) ==
  CASE t.k = "scalar"         -> t.name
    [] t.k = "fixedstring"    -> Call("FixedString", <<Itoa(t.n)>>)
    [] t.k = "decimal"        -> Call("Decimal", <<Itoa(t.precision), Itoa(t.scale)>>)
    [] t.k = "datetime"       -> IF t.tz = <<>> THEN <<"DateTime">> ELSE Call("DateTime", <<Quote(t.tz)>>)
    [] t.k = "datetime64"     -> Call("DateTime64", <<Itoa(t.precision)>>
                                      \o (IF t.tz = <<>> THEN <<>> ELSE <<Quote(t.tz)>>))
    [] t.k = "nullable"       -> Call("Nullable", <<String(t.elem)>>)
    [] t.k = "lowcardinality" -> Call("LowCardinality", <<String(t.elem)>>)
    [] t.k = "array"          -> Call("Array", <<String(t.elem)>>)
    [] t.k = "map"            -> Call("Map", <<String(t.key), String(t.value)>>)
    [] t.k = "enum"           -> Call(IF t.bits = 8 THEN "Enum8" ELSE "Enum16",
                                      [i \in DOMAIN t.labels |->
                                         Quote(t.labels[i]) \o <<"space", "=", "space">> \o Itoa(t.values[i])])
    [] t.k = "tuple"          -> Call("Tuple", [i \in DOMAIN t.elems |->
                                      Named(IF t.names = <<>> THEN <<>> ELSE t.names[i], String(t.elems[i]))])
    [] t.k = "unsupported"    -> t.raw

-----------------------------------------------------------------------------
(* ZeroLiteral.  Of an enum the first label; <<"error">> when there is none *)
(* to bind.                                                                 *)
NoLiteral == <<"error">>
Ints    == {"Int8", "Int16", "Int32", "Int64", "UInt8", "UInt16", "UInt32", "UInt64"}
BigInts == {"Int128", "Int256", "UInt128", "UInt256"}
Floats  == {"Float32", "Float64"}
Epoch == <<"1970-01-01 00:00:00">>
Literal ==
  "String" :> <<>> @@ "UUID" :> <<"00000000-0000-0000-0000-000000000000">>
  @@ "IPv4" :> <<"0.0.0.0">> @@ "IPv6" :> <<"::">>
  @@ [n \in {"Bool", "Boolean"} |-> <<"false">>]
  @@ [n \in Ints \cup BigInts \cup Floats |-> <<"0">>]
  @@ [n \in {"Date", "Date32"} |-> <<"1970-01-01">>]
  @@ [n \in {"DateTime", "DateTime64"} |-> Epoch]
(* Mutant: a type is missing from the list.                                 *)
ScalarZeroNoUUID(name) ==
  IF name \in {<<n>> : n \in DOMAIN Literal \ {"UUID"}} THEN Literal[name[1]] ELSE NoLiteral
ScalarZero(name) == IF name \in {<<n>> : n \in DOMAIN Literal} THEN Literal[name[1]] ELSE NoLiteral
RECURSIVE ZeroLiteral(_)
(* Mutant: NULL for a type that allows it.                                  *)
ZeroNull(t) == <<"NULL">>
ZeroElem(t) == ZeroLiteral(t.elem)
ZeroLiteral(t) ==
  CASE t.k = "nullable"                  -> ZeroElem(t)
    [] t.k = "lowcardinality"            -> ZeroLiteral(t.elem)
    [] t.k = "array"                     -> <<"[]">>
    [] t.k = "map"                       -> <<"{}">>
    [] t.k = "fixedstring"               -> <<>>
    [] t.k = "decimal"                   -> <<"0">>
    [] t.k \in {"datetime", "datetime64"} -> Epoch
    [] t.k = "enum"                      -> t.labels[1]
    [] t.k = "tuple"                     ->
         LET zs == [i \in DOMAIN t.elems |-> ZeroLiteral(t.elems[i])]
         IN IF NoLiteral \in Range(zs) THEN NoLiteral
            ELSE <<"(">> \o FlattenSeq([i \in DOMAIN zs |-> (IF i = 1 THEN <<>> ELSE <<",">>) \o zs[i]]) \o <<")">>
    [] t.k = "scalar"                    -> ScalarZero(t.name)
    [] t.k = "unsupported"               -> NoLiteral

-----------------------------------------------------------------------------
(* ChTypeResolver.resolve                                                   *)
NoGo == [g |-> "error"]
GoLeaf(name) == [g |-> "leaf", name |-> name]
(* Mutant: any override has to be of an array.                              *)
ParseArrayOnly(o, t) ==
  IF t.k # "array" THEN NoGo ELSE [g |-> "opaque", name |-> o.go]
ParseOpaqueType(o, t) ==
  IF o.slice /\ t.k # "array" THEN NoGo ELSE [g |-> "opaque", name |-> o.go]
(* chScalarTypes.  A big integer is a pointer in Go, never nil in a row.    *)
ChScalarTypes ==
  [n \in {"String", "Identifier"} |-> GoLeaf("string")]
  @@ [n \in BigInts |-> GoLeaf("*big.Int")]
  @@ [n \in {"Date", "Date32", "DateTime", "DateTime64"} |-> GoLeaf("time.Time")]
  @@ [n \in {"IPv4", "IPv6"} |-> GoLeaf("netip.Addr")]
  @@ [n \in Ints \cup Floats \cup {"Bool", "UUID"} |-> GoLeaf(n)]
FindChKnownType(t) ==
  CASE t.k = "fixedstring"               -> GoLeaf("string")
    [] t.k = "decimal"                   -> GoLeaf("decimal.Decimal")
    [] t.k \in {"datetime", "datetime64"} -> GoLeaf("time.Time")
    [] t.k = "scalar" /\ t.name \in {<<n>> : n \in DOMAIN ChScalarTypes} -> ChScalarTypes[t.name[1]]
    [] OTHER                             -> NoGo

RECURSIVE Resolve(_, _)
(* Mutant: what Nullable wraps is taken as it is.                           *)
PointerlessTo(elem) == elem
PointerTo(elem) == IF elem = NoGo THEN NoGo ELSE [g |-> "pointer", elem |-> elem]
(* Mutant: the overrides end at the encoding.                               *)
ResolveBare(t, o) == Resolve(t.elem, <<>>)
ResolveThrough(t, o) == Resolve(t.elem, o)
Resolve(t, o) ==
  IF String(t) \in DOMAIN o THEN ParseOpaqueType(o[String(t)], t)
  ELSE CASE t.k = "lowcardinality" -> ResolveThrough(t, o)
         [] t.k = "nullable"       -> PointerTo(Resolve(t.elem, o))
         [] t.k = "array"          -> LET e == Resolve(t.elem, o)
                                      IN IF e = NoGo THEN NoGo ELSE [g |-> "slice", elem |-> e]
         [] t.k = "map"            -> LET key == Resolve(t.key, o)
                                          val == Resolve(t.value, o)
                                      IN IF NoGo \in {key, val} THEN NoGo
                                         ELSE [g |-> "map", key |-> key, value |-> val]
         [] t.k = "enum"           -> GoLeaf("string")
         [] t.k \in {"tuple", "unsupported"} -> NoGo
         [] OTHER                  -> FindChKnownType(t)

-----------------------------------------------------------------------------
(* The server's types: how ClickHouse spells a type in the answer to        *)
(* DESCRIBE (text), other texts it takes for the same type (aliases), what  *)
(* it is (type), and the types it is made of (parts).                       *)
Of(name, aliases, type, parts) == [text |-> name, aliases |-> aliases, type |-> type, parts |-> parts]
CScalar(n) == Of(<<n>>, {}, [k |-> "scalar", name |-> <<n>>], <<>>)
CFixedString(n) == Of(<<"FixedString", "(">> \o n \o <<")">>, {}, [k |-> "fixedstring", n |-> Atoi(n)], <<>>)
CDecimal(p, s, short) ==
  Of(<<"Decimal", "(">> \o p \o <<",", "space">> \o s \o <<")">>, {<<short, "(">> \o s \o <<")">>},
     [k |-> "decimal", precision |-> Atoi(p), scale |-> Atoi(s)], <<>>)
CDateTime(tz) ==
  Of(IF tz = <<>> THEN <<"DateTime">> ELSE <<"DateTime", "(", "'">> \o tz \o <<"'", ")">>, {},
     [k |-> "datetime", tz |-> tz], <<>>)
CDateTime64(p, tz) ==
  Of(<<"DateTime64", "(", p>> \o (IF tz = <<>> THEN <<>> ELSE <<",", "space", "'">> \o tz \o <<"'">>) \o <<")">>,
     IF p = "3" /\ tz = <<>> THEN {<<"DateTime64">>} ELSE {},
     [k |-> "datetime64", precision |-> Digit[p], tz |-> tz], <<>>)
CWrap(n, c) == Of(<<n, "(">> \o c.text \o <<")">>, {}, [k |-> Wrapper[n], elem |-> c.type], <<c>>)
CMap(c, d) ==
  Of(<<"Map", "(">> \o c.text \o <<",", "space">> \o d.text \o <<")">>,
     {<<"Map", "(">> \o c.text \o <<",">> \o d.text \o <<")">>},
     [k |-> "map", key |-> c.type, value |-> d.type], <<c, d>>)
(* An entry: how the label is spelled, what it is, and its value.           *)
Entry(spelled, label, minus, digits) ==
  [text  |-> <<"'">> \o spelled \o <<"'", "space", "=", "space">> \o minus \o digits,
   label |-> label, value |-> IF minus = <<>> THEN Atoi(digits) ELSE -Atoi(digits)]
CEnum(n, es) ==
  Of(Call(n, [i \in DOMAIN es |-> es[i].text]), {},
     [k |-> "enum", bits |-> EnumBits[n], labels |-> [i \in DOMAIN es |-> es[i].label],
      values |-> [i \in DOMAIN es |-> es[i].value]], <<>>)
CTuple(names, cs) ==
  Of(Call("Tuple", [i \in DOMAIN cs |-> Named(IF names = <<>> THEN <<>> ELSE names[i], cs[i].text)]), {},
     [k |-> "tuple", names |-> names, elems |-> [i \in DOMAIN cs |-> cs[i].type]], cs)
COther(name) == Of(name, {}, [k |-> "unsupported", raw |-> name], <<>>)

(* A name written by hand may also be wrong: one symbol missing, or one     *)
(* written twice.  Texts with an escape are left as they are.               *)
Edits(s) ==
  IF "bslash" \in Range(s) THEN {}
  ELSE {RemoveAt(s, i) : i \in DOMAIN s} \cup {InsertAt(s, i, s[i]) : i \in DOMAIN s}
Spellings(c) == {c.text} \cup c.aliases

NotYet == Errf(0)
Init ==
  /\ col \in Types
  /\ overrides \in OverrideSets
  /\ \/ use = "column" /\ text = col.text
     \/ use = "param" /\ text \in Spellings(col)
     \/ use = "param" /\ overrides = <<>> /\ text \in Edits(col.text)
  /\ pc = "parse" /\ typ = NotYet /\ zero = <<>> /\ go = NoGo

(* IsNullable: the flag of a column.                                        *)
RECURSIVE Unwrap(_)
Unwrap(t) == IF t.k = "lowcardinality" THEN Unwrap(t.elem) ELSE t
(* Mutant: an encoded type is not looked into.                              *)
IsNullableOutside(t) == t.k = "nullable"
IsNullable(t) == Unwrap(t).k = "nullable"

(* ch.Parse, from describe and from scanSQL.                                *)
IsIdentifier(t) == t = [k |-> "scalar", name |-> <<"Identifier">>]
ParseName ==
  /\ pc = "parse"
  /\ typ' = Parse(text)
  /\ pc' = CASE ~typ'.ok -> "failed"
             [] typ'.ok /\ use = "param" /\ ~IsIdentifier(typ'.val) -> "zero"
             [] OTHER -> "resolve"
  /\ UNCHANGED <<col, text, use, overrides, zero, go>>

(* Mutant: the error of ZeroLiteral is dropped.                             *)
BindZeroIgnored ==
  /\ pc = "zero"
  /\ zero' = ZeroLiteral(typ.val)
  /\ pc' = "resolve"
  /\ UNCHANGED <<col, text, use, overrides, typ, go>>
BindZero ==
  /\ pc = "zero"
  /\ zero' = ZeroLiteral(typ.val)
  /\ pc' = IF zero' = NoLiteral THEN "failed" ELSE "resolve"
  /\ UNCHANGED <<col, text, use, overrides, typ, go>>

ResolveType ==
  /\ pc = "resolve"
  /\ go' = Resolve(typ.val, overrides)
  /\ pc' = IF go' = NoGo THEN "failed" ELSE "done"
  /\ UNCHANGED <<col, text, use, overrides, typ, zero>>

Over == pc \in {"done", "failed"} /\ UNCHANGED vars

Next == ParseName \/ BindZero \/ ResolveType \/ Over

Spec == Init /\ [][Next]_vars

-----------------------------------------------------------------------------
(* The answers are kept in step with the place in the code: an error of     *)
(* Parse, ZeroLiteral or Resolve is the end of it.                          *)
TypeOK ==
  /\ col \in Types /\ text \in Seq(STRING) /\ use \in {"column", "param"} /\ overrides \in OverrideSets
  /\ pc \in {"parse", "zero", "resolve", "done", "failed"}
  /\ (pc \in {"zero", "resolve", "done"}) => typ.ok
  /\ (pc \in {"resolve", "done"} /\ use = "param") => zero # NoLiteral
  /\ (pc = "done") <=> (go # NoGo)

(* ch.Parse: a type that the server spells, or that a query writes in one   *)
(* of the server's other spellings, parses into that type.                  *)
ParsedAsDeclared ==
  (pc # "parse" /\ text \in Spellings(col)) => typ.ok /\ typ.val = col.type

(* Type.String is "the canonical ClickHouse spelling": of whatever was      *)
(* parsed it gives back the text that DESCRIBE uses, by which overrides are *)
(* matched and repeated parameters compared.                                *)
CanonicalSpelling ==
  (typ.ok /\ text \in Spellings(col)) => String(typ.val) = col.text

(* ch.Parse on any text: what it accepts is all there in the tree; no part  *)
(* of a wrong name is skipped, and no number is changed.  (An empty time    *)
(* zone stands for none.)                                                   *)
Squeeze(s) == SelectSeq(s, LAMBDA c : c \notin Spaces)
EmptyLiteral(s) == \E i \in 2..Len(s) : s[i - 1] = "'" /\ s[i] = "'"
NothingDropped ==
  (typ.ok /\ text \notin col.aliases /\ ~EmptyLiteral(text)) => Squeeze(String(typ.val)) = Squeeze(text)

(* What a column holds: the values of its type, with arrays and maps of at  *)
(* most one entry; and the values that a Go type can hold.                  *)
RECURSIVE ValuesOf(_)
ValuesOf(t) ==
  CASE t.k = "nullable"       -> {<<"NULL">>} \cup ValuesOf(t.elem)
    [] t.k = "lowcardinality" -> ValuesOf(t.elem)
    [] t.k = "array"          -> {<<"array">>} \cup {<<"array", v>> : v \in ValuesOf(t.elem)}
    [] t.k = "map"            -> {<<"map">>} \cup {<<"map", k, v>> : k \in ValuesOf(t.key), v \in ValuesOf(t.value)}
    [] OTHER                  -> {<<"value">>}
RECURSIVE HeldBy(_)
HeldBy(g) ==
  CASE g.g = "pointer" -> {<<"NULL">>} \cup HeldBy(g.elem)
    [] g.g = "slice"   -> {<<"array">>} \cup {<<"array", v>> : v \in HeldBy(g.elem)}
    [] g.g = "map"     -> {<<"map">>} \cup {<<"map", k, v>> : k \in HeldBy(g.key), v \in HeldBy(g.value)}
    [] OTHER           -> {<<"value">>}
RECURSIVE Opaques(_)
Opaques(g) ==
  CASE g.g \in {"pointer", "slice"} -> Opaques(g.elem)
    [] g.g = "map"                  -> Opaques(g.key) \cup Opaques(g.value)
    [] g.g = "opaque"               -> {g.name}
    [] OTHER                        -> {}

(* resolve: the Go type of a column holds every value of the column, NULL   *)
(* at any depth included, and has no pointer where there cannot be a NULL.  *)
GoTypeFits ==
  (pc = "done" /\ text \in Spellings(col) /\ Opaques(go) = {}) => HeldBy(go) = ValuesOf(col.type)

(* The Nullable flag of an output column is "exact, not heuristic": it is   *)
(* set for the columns that may hold NULL, however the type is encoded.     *)
NullableIsExact ==
  (typ.ok /\ use = "column") => (IsNullable(typ.val) <=> <<"NULL">> \in ValuesOf(col.type))

(* "A user override wins, matched against the type as ClickHouse spells     *)
(* it": the overrides that show up in the Go type are those of the          *)
(* outermost types, as the server spells them, that have one.               *)
RECURSIVE Overridden(_, _)
Overridden(c, o) ==
  IF c.text \in DOMAIN o THEN {o[c.text].go}
  ELSE UNION {Overridden(c.parts[i], o) : i \in DOMAIN c.parts}
OverridesReach ==
  (pc = "done" /\ text \in Spellings(col)) => Opaques(go) = Overridden(col, overrides)
(* ... and a type with an override of its own resolves, whatever it is.     *)
OverrideResolves ==
  (pc = "failed" /\ typ.ok /\ zero # NoLiteral /\ text \in Spellings(col) /\ col.text \in DOMAIN overrides)
    => overrides[col.text].slice /\ col.type.k # "array"

(* ZeroLiteral: the server reads the literal as a value of the parameter's  *)
(* type, and never as NULL.  Nothing is said of tuples, nor of scalars      *)
(* beyond their having one.                                                 *)
RECURSIVE Reads(_, _)
Reads(t, lit) ==
  CASE t.k \in {"nullable", "lowcardinality"} -> lit # <<"NULL">> /\ Reads(t.elem, lit)
    [] t.k = "enum"                           -> lit \in Range(t.labels)
    [] t.k = "array"                          -> lit = <<"[]">>
    [] t.k = "map"                            -> lit = <<"{}">>
    [] t.k = "decimal"                        -> lit = <<"0">>
    [] t.k \in {"datetime", "datetime64"}     -> lit = Epoch
    [] t.k = "fixedstring"                    -> lit = <<>>
    [] OTHER                                  -> lit # NoLiteral
ZeroIsAValue ==
  (pc \in {"resolve", "done"} /\ use = "param" /\ ~IsIdentifier(typ.val) /\ text \in Spellings(col))
    => Reads(col.type, zero)

(* The two tables agree: a type that has a Go type can be a parameter.      *)
MappedIsBindable ==
  (pc = "failed" /\ zero = NoLiteral) => Resolve(typ.val, <<>>) = NoGo

(* Parse and String (parse.go, types.go): what the server declared is what  *)
(* is parsed, it prints in one spelling, and no part of the text is lost.   *)
ParseFaithful == ParsedAsDeclared /\ CanonicalSpelling /\ NothingDropped

(* resolve (ch_type_resolver.go): the Go type holds every value of the      *)
(* column, and it is a pointer exactly where the column can be NULL.        *)
GoTypeRight == GoTypeFits /\ NullableIsExact

(* TypeOverrides are found wherever their type occurs, in whatever wrapper, *)
(* and an override the user did write is never answered with "no Go type".  *)
OverridesWin == OverridesReach /\ OverrideResolves

(* The zero literals (zero.go) bind every parameter that has a Go type, and *)
(* with a value of the type.                                                *)
ParametersBindable == ZeroIsAValue /\ MappedIsBindable
=============================================================================
