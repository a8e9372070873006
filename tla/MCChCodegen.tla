---------------------------- MODULE MCChCodegen ----------------------------
(* Packages of one and two ClickHouse query files over a pool of queries.   *)
EXTENDS ChCodegen

In(n) == [pg |-> n, type |-> "String"]
Ident(n) == [pg |-> n, type |-> Identifier]
Q(name, kind, ins, outs) ==
  [name |-> <<name>>, kind |-> kind, ins |-> ins, outs |-> outs, output |-> <<>>, sql |-> <<>>,
   group |-> <<>>, key |-> "", camel |-> "", desc |-> FALSE]
Out(q, name) == [q EXCEPT !.output = name]
Sql(q, name) == [q EXCEPT !.sql = name]
Key(name, camel, cursor) == [name |-> name, camel |-> camel, cursor |-> cursor]

(* The names that Go cannot tell apart.                                     *)
MCUpperName(n) == IF n \in {"sort_key", "sortKey"} THEN "SortKey"
                  ELSE IF n \in {"after_id", "afterID"} THEN "AfterID" ELSE n

Item == <<"Item", "Row">>
AB == <<"a", "b">>
Keys == <<Key("start_date", "StartDate", <<In("after_start"), In("after_id")>>),
          Key("units", "Units", <<In("after_units"), In("after_id")>>)>>
Pool ==
  [get   |-> <<Q("Get", "one", <<In("a")>>, <<"a">>)>>,
   pick  |-> <<Sql(Q("Pick", "one", <<Ident("t"), Ident("c"), In("a")>>, AB), <<"Pick", "SQL">>)>>,
   names |-> <<Q("Names", "many", <<Ident("t")>>, <<"a">>)>>,
   sum   |-> <<Q("Sum", "many", <<Ident("t"), In("a")>>, AB)>>,
   find  |-> <<Out(Q("Find", "many", <<In("a"), In("b"), In("c")>>, AB), Item)>>,
   first |-> <<Sql(Out(Q("First", "one", <<>>, <<"b", "a">>), Item), <<"Pick", "SQL">>)>>,
   other |-> <<Out(Q("Other", "many", <<>>, <<"a">>), Item)>>,
   only  |-> <<Out(Q("Only", "many", <<Ident("t")>>, <<"a">>), <<"Only", "Item">>)>>,
   put   |-> <<Sql(Q("Put", "exec", <<In("a"), In("b"), Ident("t")>>, <<>>), <<"Item", "Row">>)>>,
   wipe  |-> <<Q("Wipe", "exec", <<Ident("t")>>, <<>>)>>,
   none  |-> <<Q("None", "many", <<>>, <<>>)>>,
   page  |-> FanOut(Out(Q("Page", "many", <<Ident("t"), In("limit")>>, AB), Item),
                    <<In("after_id")>>, Keys),
   list  |-> FanOut(Out(Q("List", "many", <<Ident("t")>>, <<"a">>), <<"Only", "Item">>),
                    <<>>, <<Key("units", "Units", <<>>)>>)]

F(n, queries) == [path |-> n, queries |-> queries]
Names == DOMAIN Pool
Pairs == {p \in Names \X Names : p[1] # p[2]}
MCPackages ==
  {<<F(1, Pool[x])>> : x \in Names}
  \cup {<<F(1, Pool[p[1]] \o Pool[p[2]])>> : p \in Pairs}
  \cup {<<F(1, Pool[p[1]]), F(2, Pool[p[2]])>> : p \in Pairs}
  \cup {<<F(2, Pool[p[1]]), F(1, Pool[p[2]])>> : p \in Pairs}

(* The packages of the disagreements, one each.                             *)
One(queries) == {<<F(1, queries)>>}
SqlParam     == One(<<Q("Run", "many", <<Ident("t"), In("sql")>>, AB)>>)
DefaultName  == One(FanOut(Out(Q("Page", "many", <<In("limit")>>, AB), Item), <<>>, Keys)
                    \o <<[Q("Page", "many", <<>>, AB) EXCEPT !.name = <<"Page", "Default">>]>>)
CursorTypes  == One(FanOut(Out(Q("Page", "many", <<In("limit")>>, AB), Item), <<>>,
                    <<Key("start_date", "StartDate", <<[pg |-> "after", type |-> "DateTime"]>>),
                      Key("units", "Units", <<[pg |-> "after", type |-> "Int64"]>>)>>))
SortKeyParam == One(FanOut(Out(Q("Page", "many", <<In("sort_key")>>, AB), Item), <<>>, Keys))
CasedKeys    == One(FanOut(Out(Q("Page", "many", <<In("limit")>>, AB), Item), <<>>,
                    <<Key("start_date", "StartDate", <<>>), Key("startDate", "StartDate", <<>>)>>))
CasedNames   == One(<<Q("Cased", "many", <<In("a"), In("after_id"), In("afterID")>>, AB)>>)
PagedOne     == One(FanOut(Out(Q("Page", "one", <<In("limit")>>, AB), Item), <<>>, Keys))
=============================================================================
