----------------------------- MODULE MCChTypes -----------------------------
EXTENDS ChTypes

S(n) == CScalar(n)
Nul(c) == CWrap("Nullable", c)
Low(c) == CWrap("LowCardinality", c)
Arr(c) == CWrap("Array", c)

Label(n) == Entry(n, n, <<>>, <<"1">>)
Small == CEnum("Enum8", <<Label(<<"a">>)>>)
(* Values at the ends of both widths; 'it\'s' and 'a\\' in a label.         *)
Edge8 == CEnum("Enum8", <<Entry(<<"a">>, <<"a">>, <<"-">>, <<"1", "2", "8">>),
                          Entry(<<"b">>, <<"b">>, <<>>, <<"1", "2", "7">>)>>)
Edge16 == CEnum("Enum16", <<Entry(<<"a">>, <<"a">>, <<"-">>, <<"3", "2", "7", "6", "8">>),
                            Entry(<<"b">>, <<"b">>, <<>>, <<"3", "2", "7", "6", "7">>)>>)
Quoted == CEnum("Enum8", <<Entry(<<"it", "bslash", "'", "s">>, <<"it", "'", "s">>, <<>>, <<"1">>),
                           Entry(<<"a", "bslash", "bslash">>, <<"a", "bslash">>, <<>>, <<"2">>),
                           Entry(<<"a", ",", ")">>, <<"a", ",", ")">>, <<>>, <<"3">>)>>)
Agg == COther(<<"AggregateFunction", "(", "sum", ",", "space", "UInt64", ")">>)
Json == COther(<<"Object", "(", "'", "json", ")", "'", ")">>)

Names == Ints \cup BigInts \cup Floats
         \cup {"String", "Bool", "UUID", "IPv4", "IPv6", "Date", "Date32", "Identifier", "Nothing"}
Leaves == {S("String"), S("UUID"), S("Int128"), CFixedString(<<"1", "6">>), CDecimal(<<"9">>, <<"2">>, "Decimal32"),
           CDateTime(<<>>), CDateTime(<<"UTC">>), CDateTime64("3", <<>>), CDateTime64("6", <<"UTC">>), Small}
Values1 == Leaves \cup {Nul(c) : c \in Leaves} \cup {Low(S("String")), Low(Nul(S("String")))}
Keys == {S("String"), Low(S("String")), CFixedString(<<"1", "6">>)}
Few == {S("String"), Nul(S("UUID")), Low(Nul(S("String"))), Small}
Nested1 == {Arr(c) : c \in Few} \cup {CMap(k, v) : k \in Keys, v \in Few}
           \cup {CTuple(<<>>, <<S("String"), Nul(S("UUID"))>>),
                 CTuple(<<<<"a">>, <<"b">>>>, <<S("String"), Small>>)}

MCTypes ==
  {S(n) : n \in Names} \cup Values1 \cup {CDecimal(<<"1", "8">>, <<"4">>, "Decimal64"),
   CDecimal(<<"3", "8">>, <<"4">>, "Decimal128"), CDecimal(<<"7", "6">>, <<"4">>, "Decimal256"),
   CDateTime(<<"Europe", "/", "Paris">>), Edge8, Edge16, Quoted, Agg, Json, Arr(Agg), Arr(Edge8)}
  \cup Nested1 \cup {Arr(c) : c \in Nested1} \cup {CMap(S("String"), c) : c \in Nested1}
  \cup {CTuple(<<<<"a">>, <<"b">>>>, <<c, Agg>>) : c \in Few}
  \cup {CTuple(<<>>, <<c, S("String")>>) : c \in {Agg, Arr(Agg), Arr(Nul(S("String")))}}

To(n) == [go |-> n, slice |-> FALSE]
Slice(n) == [go |-> n, slice |-> TRUE]
MCOverrideSets ==
  {<<>>,
   S("String").text :> To("Str") @@ Nul(S("UUID")).text :> To("NullUUID"),
   Small.text :> To("Mood") @@ Low(Nul(S("String"))).text :> To("LowStr") @@ Arr(Small).text :> Slice("Moods"),
   S("String").text :> Slice("Bytes"),
   CDecimal(<<"9">>, <<"2">>, "Decimal32").text :> To("Money") @@ CDateTime64("3", <<>>).text :> To("Milli")
     @@ Agg.text :> To("Sum") @@ CTuple(<<>>, <<S("String"), Nul(S("UUID"))>>).text :> To("Pair")}

(* The types of the disagreements.                                          *)
InMap == {CMap(S("String"), Agg)}
InMapOverride == {c.text :> To("Sums") : c \in InMap}
NoOverrides == {<<>>}
NewlineLabel ==
  {CEnum("Enum8", <<Entry(<<"a", "bslash", "n">>, <<"a", "newline">>, <<>>, <<"1">>)>>)}
QuotedField == {CTuple(<<<<"btick", "my", "space", "field", "btick">>>>, <<S("String")>>)}
=============================================================================
