----------------------------- MODULE MCCodegen -----------------------------
(***************************************************************************)
(* Packages of one or two query files with up to two queries each, drawn    *)
(* from queries that reach the cases the templater tells apart, and         *)
(* packages of up to four files whose names collide.                        *)
(***************************************************************************)
EXTENDS Codegen

Ty(kind, base, pkg, parts, null) ==
  [kind |-> kind, base |-> base, pkg |-> pkg, parts |-> parts, null |-> null]
MCCatalog ==
  [text |-> Ty("builtin", <<"string">>, "", {}, "pointer"),
   ts   |-> Ty("builtin", <<"Time">>, "time", {}, "pointer"),
   aid  |-> Ty("builtin", <<"ID">>, "lib/a", {}, "same"),     \* --go-type overrides
   bid  |-> Ty("builtin", <<"ID">>, "lib/b", {}, "same"),
   mood |-> Ty("enum", <<"Mood">>, "", {}, "pointer"),
   _mood |-> Ty("array", <<"Mood">>, "", {"mood"}, "elems"),
   visit |-> Ty("composite", <<"Visit">>, "", {"ts", "_mood"}, "same"),
   void |-> Ty("void", <<>>, "", {}, "same"),
   xml  |-> Ty("unknown", <<>>, "", {}, "same")]

Col(pg, type)     == [pg |-> pg, type |-> type, null |-> FALSE]
NullCol(pg, type) == [pg |-> pg, type |-> type, null |-> TRUE]
Q(name, kind, ins, cols, output, sql) ==
  [name |-> name, kind |-> kind, ins |-> ins, outs |-> cols, output |-> output, sql |-> sql,
   group |-> <<>>, key |-> <<>>]
Var(group, key, cols, output) ==
  [Q(group \o key, "many", <<Col("cursor", "ts")>>, cols, output, <<>>)
     EXCEPT !.group = group, !.key = key]

Item == <<"Item", "Row">>
Pool ==
  [find |-> <<Q(<<"Find">>, "many", <<>>, <<Col("id", "text"), Col("at", "ts")>>, Item, <<>>)>>,
   get  |-> <<Q(<<"Get">>, "one", <<Col("id", "text")>>,
                <<NullCol("at", "ts"), Col("v", "void"), Col("id", "text")>>, Item, <<"Get", "SQL">>)>>,
   less |-> <<Q(<<"Less">>, "many", <<>>, <<NullCol("id", "text")>>, Item, <<>>)>>,
   same |-> <<Q(<<"Same">>, "many", <<>>, <<Col("id", "text"), Col("at", "text")>>, Item, <<>>)>>,
   del  |-> <<Q(<<"Del">>, "exec", <<Col("a", "text"), Col("b", "ts")>>, <<>>, <<>>, <<"Get", "SQL">>)>>,
   add  |-> <<Q(<<"Add">>, "exec", <<Col("m", "mood")>>, <<>>, <<>>, <<"Del", "Params">>)>>,
   log  |-> <<Q(<<"Log">>, "many", <<>>, <<Col("v", "visit"), Col("n", "text")>>, <<>>, <<"Item", "Row">>)>>,
   bad  |-> <<Q(<<"Bad">>, "one", <<>>, <<Col("x", "xml")>>, <<>>, <<>>)>>,
   none |-> <<Q(<<"None">>, "exec", <<>>, <<>>, <<"None", "Row">>, <<>>)>>,
   page |-> <<Var(<<"Page">>, <<>>, <<NullCol("id", "text"), Col("at", "ts")>>, Item),
              Var(<<"Page">>, <<"At">>, <<Col("id", "text"), NullCol("at", "ts")>>, Item)>>]

Path(n, parent, base, pkg, queries) ==
  [path |-> n, parent |-> parent, base |-> base, pkg |-> pkg, queries |-> queries]
A(q) == Path(1, <<"alpha">>, <<"one">>, "mod/alpha", q)
B(q) == Path(2, <<"bravo">>, <<"two">>, "mod/bravo", q)

(* The leader has up to two pool entries, the other file at most one.       *)
Two == {<<>>} \cup {Pool[x] : x \in DOMAIN Pool}
       \cup {Pool[p[1]] \o Pool[p[2]] : p \in {d \in (DOMAIN Pool) \X (DOMAIN Pool) : d[1] # d[2]}}
Packages ==
  {<<A(q)>> : q \in Two}
  \cup UNION {UNION {{<<A(q), B(Pool[x])>>, <<B(Pool[x]), A(q)>>}
                     : q \in {r \in Two : \A k \in DOMAIN r : r[k] # Pool[x][1]}} : x \in DOMAIN Pool}

(* Query files by name only: a_b/q, a/b_q, x/a/q, y/a/q, a/r.               *)
Places == {Path(1, <<"a", "b">>, <<"q">>, "p", <<>>), Path(2, <<"a">>, <<"b", "q">>, "p", <<>>),
           Path(3, <<"a">>, <<"q">>, "p", <<>>), Path(4, <<"a">>, <<"q">>, "p", <<>>),
           Path(5, <<"a">>, <<"q">>, "p", <<>>), Path(6, <<"a">>, <<"r">>, "p", <<>>)}
Lists(S, n) == UNION {{l \in [1..k -> S] : \A x, y \in 1..k : l[x] = l[y] => x = y} : k \in 1..n}
MCFileLists == Packages \cup Lists(Places, 4)

(* The packages of the disagreements, one each.                             *)
Only(q, r) == {<<A(q), B(r)>>}
TimeInSecond  == Only(Pool["less"], <<Q(<<"When">>, "one", <<>>, <<Col("at", "ts")>>, <<>>, <<>>)>>)
ConstIsEnum   == {<<A(<<Q(<<"Feel">>, "one", <<>>, <<Col("m", "mood")>>, <<>>, <<"Mood">>)>>)>>}
RepeatedCol   == Only(Pool["find"], <<Q(<<"Twice">>, "many", <<>>, <<Col("id", "text"), Col("id", "text")>>, Item, <<>>)>>)
SameBaseName  == Only(<<Q(<<"X">>, "many", <<>>, <<Col("id", "aid"), Col("n", "text")>>, Item, <<>>)>>,
                      <<Q(<<"Y">>, "many", <<>>, <<Col("id", "bid"), Col("n", "text")>>, Item, <<>>)>>)
EnumArrays    == Only(<<Q(<<"X">>, "many", <<>>, <<Col("m", "_mood"), Col("n", "text")>>, Item, <<>>)>>,
                      <<Q(<<"Y">>, "many", <<>>, <<NullCol("m", "_mood"), Col("n", "text")>>, Item, <<>>)>>)
GlobOrder     == {<<B(Pool["find"]), A(Pool["get"])>>}
NullableMany  == {<<A(<<Q(<<"Names">>, "many", <<>>, <<NullCol("n", "text")>>, <<>>, <<>>)>>)>>}
NumberedNames == {<<Path(1, <<"a">>, <<"q">>, "p", <<>>), Path(2, <<"a">>, <<"q">>, "p", <<>>),
                    Path(3, <<"a">>, <<"q", ".1">>, "p", <<>>)>>}
=============================================================================
