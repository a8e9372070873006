------------------------------- MODULE MCInfer -------------------------------
(***************************************************************************)
(* Two databases of two tables each and a system table, whose columns have  *)
(* the same keys in both, and queries over them: every kind of top plan     *)
(* node, with fewer outputs than fields and with more.                      *)
(***************************************************************************)
EXTENDS Infer, TLC

Col(table, notNull) == [table |-> table, notNull |-> notNull]
System == (7 :> Col("pg_class", TRUE)) @@ (8 :> Col("pg_class", FALSE))
Db1   == (1 :> Col("author", TRUE)) @@ (2 :> Col("author", FALSE)) @@ (3 :> Col("book", TRUE)) @@ System
Db2   == (4 :> Col("author", FALSE)) @@ (5 :> Col("author", TRUE)) @@ (6 :> Col("book", TRUE)) @@ System
(* The database of another container: the same OIDs, other constraints.     *)
Db1b  == (1 :> Col("author", FALSE)) @@ (2 :> Col("author", TRUE)) @@ (3 :> Col("book", TRUE)) @@ System

Of(key)    == [key |-> key, void |-> FALSE, maybeNull |-> FALSE]
Outer(key) == [key |-> key, void |-> FALSE, maybeNull |-> TRUE]
Literal    == [key |-> 0, void |-> FALSE, maybeNull |-> FALSE]
Void       == [key |-> 0, void |-> TRUE, maybeNull |-> FALSE]
Expression == [key |-> 0, void |-> FALSE, maybeNull |-> TRUE]

Out(f) == IF f.key = 0 /\ ~f.maybeNull THEN "literal" ELSE "expression"
Outs(fields) == [i \in DOMAIN fields |-> Out(fields[i])]
Query(kind, fields, type, relation, join, outs) ==
  [kind |-> kind, fields |-> fields, join |-> join,
   plan |-> [type |-> type, relation |-> relation, outs |-> outs]]

FieldLists(keys) ==
  UNION {[1..n -> {Of(k) : k \in keys} \cup {Literal, Void}] : n \in 1..2}
Table(keys) ==
  UNION {{Query(":many", fs, "Append", "", FALSE, <<>>),
          Query(":many", fs, "Result", "", FALSE, Outs(fs)),
          Query(":one", fs, "Limit", "", FALSE, Append(Outs(fs), "expression")),
          Query(":one", fs, "ModifyTable", "author", FALSE, Outs(fs))} : fs \in FieldLists(keys)}
Joins(keys) ==
  {Query(":many", <<Of(k), Outer(j)>>, type, "", TRUE, <<"expression", "expression">>) :
     k \in keys, j \in keys, type \in {"Result", "Limit", "Hash Join"}}
Base == {Query(kind, <<>>, "ModifyTable", "author", FALSE, <<>>) : kind \in {":exec", ":one"}}

MCQueries == Base \cup UNION {Table(d) \cup Joins(d) : d \in {DOMAIN Db1, DOMAIN Db2}}

TwoDatabases == {Db1, Db2}
SameOids     == {Db1, Db1b}
OneDatabase  == {Db1}
Db1Queries   == Base \cup Table(DOMAIN Db1)

(* SELECT lower(suffix) FROM author WHERE author_id = $1: explained with    *)
(* NULL for $1, a Result.                                                   *)
ComputedQuery == Base \cup {Query(":one", <<Expression>>, "Result", "", FALSE, <<"expression">>)}
(* UPDATE author SET ... FROM book LEFT JOIN author AS again ... RETURNING. *)
ReadAgainQuery == Base \cup {Query(":one", <<Outer(1)>>, "ModifyTable", "author", TRUE, <<"expression">>)}
=============================================================================
