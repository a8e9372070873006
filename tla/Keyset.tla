------------------------------- MODULE Keyset -------------------------------
(***************************************************************************)
(* Keyset pagination (internal/parser/paginate.go): a `-- sort:` block is   *)
(* fanned out into one SQL statement per sort key and direction plus a      *)
(* default one, each with an ORDER BY and a cursor predicate.  A client     *)
(* pages through the table with one of them: it passes the columns of the   *)
(* last row of a page as the cursor of the next, NULLs for the first, and   *)
(* stops at a page that is not full.  Rows come and go between two pages.   *)
(*                                                                          *)
(* The SQL that the two functions print is modelled by its meaning: a       *)
(* predicate has one of the three truth values of SQL, an ORDER BY is a     *)
(* list of terms with a direction and a place for NULLs.                    *)
(***************************************************************************)
EXTENDS Integers, Sequences, FiniteSets

CONSTANTS
  NULL,      \* SQL's NULL
  Column,    \* columns of the table
  Row,       \* rows the table may ever hold: functions from Column
  SortSpec,  \* the -- sort: blocks of the query file
  PageSize,  \* the LIMIT the author of the query wrote
  MaxWrites  \* bound on the inserts and deletes during one walk

ASSUME NullAssumption == NULL \notin Int
ASSUME RowAssumption  == Row \subseteq [Column -> Int \cup {NULL}]
ASSUME SortAssumption ==
  \A spec \in SortSpec : spec.keys \in Seq(Seq(Column)) /\ spec.default \in Seq(Column)
ASSUME PageAssumption == PageSize \in Nat \ {0} /\ MaxWrites \in Nat

VARIABLES
  variant,  \* the statement the walk uses
  table,    \* rows of the table now
  cursor,   \* the cursor arguments of the next page, one per column
  seen,     \* rows returned so far
  twice,    \* rows returned more than once
  stable,   \* rows in the table since before the first page
  writes,   \* inserts and deletes so far
  done      \* a page was not full

vars == <<variant, table, cursor, seen, twice, stable, writes, done>>

-----------------------------------------------------------------------------
(* parseSortSpec: the checks a sort block must pass.  `bound` is the set of *)
(* columns with a cursor binding; without one the spec is ordering-only.    *)
(* `native`: the bindings are ClickHouse parameters; `strict`: the columns  *)
(* whose parameter is not declared Nullable.                                *)
ColumnsOf(columns) == {columns[i] : i \in DOMAIN columns}
IsKeyset(spec) == spec.bound # {}

(* Mutant: nothing is refused.                                              *)
ValidateNullableOff(columns, nullable) == columns # <<>> \/ nullable = {}
ValidateNullable(columns, nullable) ==
  \A i \in DOMAIN columns : i # 1 => columns[i] \notin nullable

(* Mutant: any binding will do for a parameter.                             *)
ValidateBindingsExist(spec) ==
  /\ \A i \in DOMAIN spec.keys : ColumnsOf(spec.keys[i]) \subseteq spec.bound
  /\ ColumnsOf(spec.default) \subseteq spec.bound
ValidateCursorBindings(spec) ==
  /\ \A i \in DOMAIN spec.keys : ColumnsOf(spec.keys[i]) \subseteq spec.bound
  /\ ColumnsOf(spec.default) \subseteq spec.bound
  /\ spec.native => spec.strict = {}

ParseSortSpec(spec) ==
  /\ spec.keys # <<>> /\ spec.default # <<>>
  /\ IsKeyset(spec) =>
       /\ \A i \in DOMAIN spec.keys : ValidateNullable(spec.keys[i], spec.nullable)
       /\ ValidateCursorBindings(spec)

(* fanOut: the default ordering, ascending and with no column nullable,     *)
(* then every key in both directions.  `declared` is what the sort block    *)
(* says of the table; the statement only knows `nullable`.                  *)
FanOut(spec) ==
  LET variantOf(columns, nullable, desc) ==
        [columns |-> columns, nullable |-> nullable, desc |-> desc,
         native |-> spec.native, strict |-> spec.strict, declared |-> spec.nullable]
  IN {variantOf(spec.default, {}, FALSE)}
     \cup {variantOf(spec.keys[i], spec.nullable, d) : i \in DOMAIN spec.keys, d \in BOOLEAN}

Variants == UNION {FanOut(spec) : spec \in {s \in SortSpec : ParseSortSpec(s) /\ IsKeyset(s)}}

-----------------------------------------------------------------------------
(* orderByClause in keyset mode.  A nullable column spells out where its    *)
(* NULLs go; for the others it is the default of the database: after every  *)
(* value ascending, and descending before them in Postgres (external), after *)
(* them in ClickHouse (external).                                           *)
(* Mutant: NULLS LAST in both directions, as in ordering-only mode.         *)
NullsAlwaysLast(v, c) == v.desc /\ c \notin v.nullable /\ ~v.native
NullsFirst(v, c) == v.desc /\ (c \in v.nullable \/ ~v.native)

(* Does x come before y in the term for column c?  (external: SQL)          *)
TermBefore(v, c, x, y) ==
  IF x = NULL THEN y # NULL /\ NullsFirst(v, c)
  ELSE IF y = NULL THEN ~NullsFirst(v, c)
  ELSE IF v.desc THEN x > y ELSE x < y

(* Does r come before s in the ORDER BY?                                    *)
OrderByClause(v, r, s) ==
  \E i \in DOMAIN v.columns :
    /\ \A j \in 1..(i - 1) : r[v.columns[j]] = s[v.columns[j]]
    /\ TermBefore(v, v.columns[i], r[v.columns[i]], s[v.columns[i]])

-----------------------------------------------------------------------------
(* SQL's three truth values (external).                                     *)
Truth(b) == IF b THEN "true" ELSE "false"
SqlOr(S)  == IF "true" \in S THEN "true" ELSE IF "null" \in S THEN "null" ELSE "false"
SqlAnd(S) == IF "false" \in S THEN "false" ELSE IF "null" \in S THEN "null" ELSE "true"
(* Mutant: the operator is <= or >=.                                        *)
CompareLoose(desc, x, y) ==
  IF x = NULL \/ y = NULL THEN "null" ELSE Truth(IF desc THEN x <= y ELSE x >= y)
Compare(desc, x, y) ==
  IF x = NULL \/ y = NULL THEN "null" ELSE Truth(IF desc THEN x < y ELSE x > y)

(* (a, b, ...) op (x, y, ...) from position `from`: decided by the first    *)
(* pair that differs, unknown if a NULL comes before it.                    *)
RowComparison(v, from, r, arg) ==
  LET value(i) == r[v.columns[i]]
      given(i) == arg[v.columns[i]]
      equalTo(i) == \A j \in from..(i - 1) :
                      value(j) # NULL /\ given(j) # NULL /\ value(j) = given(j)
      at == {i \in from..Len(v.columns) : equalTo(i)}
  IN IF \E i \in at : Compare(v.desc, value(i), given(i)) = "true" THEN "true"
     ELSE IF \E i \in at : Compare(v.desc, value(i), given(i)) = "null" THEN "null"
     ELSE "false"

(* col IS NOT DISTINCT FROM arg, or the long form for ClickHouse.           *)
NotDistinct(v, x, y) ==
  IF ~v.native THEN Truth(x = y)
  ELSE SqlOr({SqlAnd({Truth(x = NULL), Truth(y = NULL)}),
              IF x = NULL \/ y = NULL THEN "null" ELSE Truth(x = y)})

(* keysetPredicate: strictly after the cursor, or no cursor at all.         *)
(* Mutant: one NULL among the cursor arguments is enough.                   *)
FirstPageAny(v, arg) == \E i \in DOMAIN v.columns : arg[v.columns[i]] = NULL
FirstPage(v, arg) == \A i \in DOMAIN v.columns : arg[v.columns[i]] = NULL

KeysetPredicate(v, r, arg) ==
  LET c1 == v.columns[1]
      x == r[c1]
      y == arg[c1]
      nullArm == IF v.desc THEN SqlAnd({Truth(x # NULL), Truth(y = NULL)})
                           ELSE SqlAnd({Truth(x = NULL), Truth(y # NULL)})
      sameLead == IF Len(v.columns) = 1 THEN {}
                  ELSE {SqlAnd({NotDistinct(v, x, y), RowComparison(v, 2, r, arg)})}
      main == IF c1 \notin v.nullable THEN {RowComparison(v, 1, r, arg)}
              ELSE sameLead \cup {Compare(v.desc, x, y), nullArm}
  IN SqlOr(main \cup {Truth(FirstPage(v, arg))})

-----------------------------------------------------------------------------
(* What the author of the sort block promises of the table (README.md): the *)
(* last column is unique, a column not marked nullable holds no NULL.       *)
LastColumn(v) == v.columns[Len(v.columns)]
Promised(v, T) ==
  /\ \A r \in T, s \in T : r[LastColumn(v)] = s[LastColumn(v)] => r = s
  /\ \A r \in T, c \in Column : r[c] = NULL => c \in v.declared

Init ==
  /\ variant \in Variants
  /\ table \in {T \in SUBSET Row : Promised(variant, T)} /\ stable = table
  /\ cursor = [c \in Column |-> NULL]
  /\ seen = {} /\ twice = {} /\ writes = 0 /\ done = FALSE

(* The generated method runs the statement; WHERE keeps the rows for which  *)
(* the predicate is true, ORDER BY and LIMIT a first part of them.          *)
Matching == {r \in table : KeysetPredicate(variant, r, cursor) = "true"}

FetchPage ==
  /\ ~done
  /\ \E page \in SUBSET Matching :
       /\ \A r \in page, s \in Matching \ page : ~OrderByClause(variant, s, r)
       /\ \/ Cardinality(page) = PageSize /\ done' = FALSE
          \/ page = Matching /\ Cardinality(page) < PageSize /\ done' = TRUE
       /\ seen' = seen \cup page
       /\ twice' = twice \cup (seen \cap page)
       /\ \/ page = {} /\ UNCHANGED cursor
          \/ /\ cursor' \in page      \* the last row of the page
             /\ \A r \in page : ~OrderByClause(variant, cursor', r)
  /\ UNCHANGED <<variant, table, stable, writes>>

(* Other sessions of the database, within the promise.                      *)
Insert(r) ==
  /\ ~done /\ writes < MaxWrites /\ r \notin table /\ Promised(variant, table \cup {r})
  /\ table' = table \cup {r} /\ writes' = writes + 1
  /\ UNCHANGED <<variant, cursor, seen, twice, stable, done>>

Delete(r) ==
  /\ ~done /\ writes < MaxWrites
  /\ table' = table \ {r} /\ stable' = stable \ {r} /\ writes' = writes + 1
  /\ UNCHANGED <<variant, cursor, seen, twice, done>>

WalkEnded == done /\ UNCHANGED vars

Next ==
  \/ FetchPage
  \/ \E r \in Row : Insert(r)
  \/ \E r \in table : Delete(r)
  \/ WalkEnded

Spec == Init /\ [][Next]_vars

(* A client that keeps asking for the next page.                            *)
FairSpec == Spec /\ WF_vars(FetchPage)

-----------------------------------------------------------------------------
TypeOK ==
  /\ variant \in Variants
  /\ table \subseteq Row /\ Promised(variant, table)
  /\ stable \subseteq table /\ seen \subseteq Row /\ twice \subseteq seen
  /\ cursor \in Row \cup {[c \in Column |-> NULL]}
  /\ writes \in 0..MaxWrites /\ done \in BOOLEAN

(* No row is returned on two pages, whatever is inserted or deleted between *)
(* them: the predicate is strict and agrees with the ORDER BY.              *)
NoRowTwice == twice = {}

(* A row that was in the table all along is on some page, also when rows    *)
(* around the cursor, or the row the cursor was taken from, are deleted.    *)
NoRowSkipped == done => stable \subseteq seen

(* Walking ends: the cursor moves on with every full page.                  *)
WalkEnds == <>done

(* Every cursor the walk passes, the NULLs of the first page included, fits *)
(* the parameters that validateCursorBindings let through.                  *)
CursorFits ==
  \A c \in ColumnsOf(variant.columns) :
    variant.native /\ c \in variant.strict => cursor[c] # NULL

(* The predicate of every generated statement is the order of its ORDER BY: *)
(* "strictly after" the row the cursor was taken from, NULLs included.      *)
PredicateIsStrictlyAfter ==
  seen # {} => \A r \in table :
    (KeysetPredicate(variant, r, cursor) = "true") <=> OrderByClause(variant, cursor, r)

(* A walk can be made to its end and misses nothing: no page fails because  *)
(* its cursor does not fit a parameter, and no row is skipped.              *)
WalkWhole == CursorFits /\ NoRowSkipped
=============================================================================
