-------------------------------- MODULE Infer --------------------------------
(***************************************************************************)
(* How pginfer.Inferrer learns which output columns of a query can be null: *)
(* it prepares the query, explains it, fetches the columns behind its       *)
(* fields through the cache of pg.FetchColumns, which all connections of a  *)
(* process share, and decides column by column (isColNullable).             *)
(*                                                                          *)
(* Postgres is external.  A query is what Prepare and EXPLAIN say of it,    *)
(* and what they do not say: whether a field can really be null.            *)
(***************************************************************************)
EXTENDS Naturals, Sequences, FiniteSets

CONSTANTS
  Databases,   \* catalogs: functions from column keys to [table, notNull]
  Queries,     \* [kind, fields, plan, join]
  Computed     \* the zero ColumnKey: a field that is no column of a table

(* key: the column; void: of type void; maybeNull: the expression can be    *)
(* null, or the column is read from the nullable side of an outer join,     *)
(* which takes the word "join"; EXPLAIN prints a column as an expression.   *)
Keys  == UNION {DOMAIN d : d \in Databases}
Field == [key : Keys \cup {Computed}, void : BOOLEAN, maybeNull : BOOLEAN]

ASSUME InferAssumption ==
  /\ Computed \notin Keys
  /\ \A d \in Databases : \A k \in DOMAIN d : d[k].notNull \in BOOLEAN
  /\ \A q \in Queries :
       /\ q.fields \in Seq(Field) /\ q.join \in BOOLEAN
       /\ q.plan.outs \in Seq({"", "literal", "expression"})
       /\ \A i \in DOMAIN q.fields : q.fields[i].key # Computed =>
            /\ i \in DOMAIN q.plan.outs => q.plan.outs[i] = "expression"
            /\ q.fields[i].maybeNull => q.join

VARIABLES
  catalog,    \* pg_class and pg_attribute of the database connected to
  cache,      \* columnCache
  pc,         \* the place in InferTypes
  query,      \* its argument
  rows,       \* the column keys the catalog query returns and has yet to return
  cols,       \* the result of FetchColumns
  nullables,  \* the result of inferOutputNullability
  outcome     \* of InferTypes

NoQuery == [kind |-> ":exec", fields |-> <<>>, join |-> FALSE,
            plan |-> [type |-> "none", relation |-> "", outs |-> <<>>]]

vars == <<catalog, cache, pc, query, rows, cols, nullables, outcome>>

Init ==
  /\ catalog \in Databases
  /\ cache = [k \in {} |-> k]
  /\ pc = "idle" /\ query = NoQuery
  /\ rows = {} /\ cols = <<>> /\ nullables = <<>> /\ outcome = "none"

(* The zero Column, and the column of a catalog row.                        *)
NoColumn  == [table |-> "", null |-> FALSE]
Column(k) == [table |-> catalog[k].table, null |-> ~catalog[k].notNull]

-----------------------------------------------------------------------------
(* A further call of Generate, with a connection of its own.                *)
NewDatabase ==
  /\ pc \in {"idle", "failed"}
  /\ catalog' \in Databases
  /\ pc' = "idle"
  /\ UNCHANGED <<cache, query, rows, cols, nullables, outcome>>

Backed(q) == {q.fields[i].key : i \in DOMAIN q.fields} \ {Computed}

(* InferTypes: Prepare describes the fields; a query without any is not     *)
(* explained.                                                               *)
Prepare ==
  /\ pc = "idle"
  /\ query' \in {q \in Queries : Backed(q) \subseteq DOMAIN catalog}
  /\ pc' = IF query'.fields = <<>> THEN "check" ELSE "explain"
  /\ UNCHANGED <<catalog, cache, rows, cols, nullables, outcome>>

(* Prepare or explainQuery fails or times out, a parameter has no name, a   *)
(* type is unknown, or the catalog query fails, before or between its rows. *)
Fail ==
  /\ pc \in {"explain", "fetch", "rows"}
  /\ pc' = "return" /\ rows' = {} /\ outcome' = "error"
  /\ UNCHANGED <<catalog, cache, query, cols, nullables>>

Uncached == Backed(query) \ DOMAIN cache

(* explainQuery, then the part of FetchColumns that holds the lock.         *)
Explain ==
  /\ pc = "explain"
  /\ pc' = IF Uncached = {} THEN "cached" ELSE "fetch"
  /\ UNCHANGED <<catalog, cache, query, rows, cols, nullables, outcome>>

(* The catalog query sees one snapshot.                                     *)
FetchColumns ==
  /\ pc = "fetch"
  /\ rows' = Uncached \cap DOMAIN catalog
  /\ pc' = "rows"
  /\ UNCHANGED <<catalog, cache, query, cols, nullables, outcome>>

(* One row of the catalog query, stored as soon as it is scanned.           *)
ScanRow ==
  /\ pc = "rows"
  /\ \E k \in rows :
       /\ rows' = rows \ {k}
       /\ cache' = [j \in DOMAIN cache \cup {k} |-> IF j = k THEN Column(k) ELSE cache[j]]
  /\ UNCHANGED <<catalog, pc, query, cols, nullables, outcome>>

RowsEnd ==
  /\ pc = "rows" /\ rows = {}
  /\ pc' = "cached"
  /\ UNCHANGED <<catalog, cache, query, rows, cols, nullables, outcome>>

(* fetchCachedColumns: the check for a missing column asks the zero Column  *)
(* for its TableOID and never fires.  Mutant: computed columns are skipped. *)
Cached(key) == IF key \in DOMAIN cache THEN cache[key] ELSE NoColumn
FetchCachedBacked ==
  LET backed == SelectSeq(query.fields, LAMBDA f : f.key # Computed)
  IN [i \in DOMAIN backed |-> Cached(backed[i].key)]
FetchCached == [i \in DOMAIN query.fields |-> Cached(query.fields[i].key)]

FetchCachedColumns ==
  /\ pc = "cached"
  /\ cols' = FetchCached
  /\ pc' = "nullability"
  /\ UNCHANGED <<catalog, cache, query, rows, nullables, outcome>>

-----------------------------------------------------------------------------
(* isColNullable.  Mutant: without the test for joins.                      *)
IsColNullableJoins(plan, join, out, column) ==
  /\ out = "expression"
  /\ ~(plan.type \in {"Result", "Limit"} /\ ~column.null)
  /\ ~(plan.type = "ModifyTable" /\ plan.relation = column.table /\ ~column.null)
IsColNullable(plan, join, out, column) ==
  /\ out = "expression"   \* neither empty nor a literal
  /\ ~(plan.type \in {"Result", "Limit"} /\ ~join /\ ~column.null)
  /\ ~(plan.type = "ModifyTable" /\ plan.relation = column.table /\ ~column.null)

Flags == DOMAIN query.fields

InferOutputNullability ==
  /\ pc = "nullability"
  /\ nullables' = [i \in Flags |->
       \/ i \notin DOMAIN cols \/ i > Len(query.plan.outs)
       \/ IsColNullable(query.plan, query.join, query.plan.outs[i], cols[i])]
  /\ pc' = "check"
  /\ UNCHANGED <<catalog, cache, query, rows, cols, outcome>>

(* InferTypes refuses a :one or :many query that returns nothing but void.  *)
Check ==
  /\ pc = "check"
  /\ outcome' = IF query.kind # ":exec" /\ \A i \in DOMAIN query.fields : query.fields[i].void
                THEN "error" ELSE "typed"
  /\ pc' = "return"
  /\ UNCHANGED <<catalog, cache, query, rows, cols, nullables>>

(* parseQueries takes the next query, or gives up at the first error.       *)
Return ==
  /\ pc = "return"
  /\ pc' = IF outcome = "error" THEN "failed" ELSE "idle"
  /\ query' = NoQuery /\ cols' = <<>> /\ nullables' = <<>> /\ outcome' = "none"
  /\ UNCHANGED <<catalog, cache, rows>>

Next == \/ NewDatabase \/ Prepare \/ Fail \/ Explain \/ FetchColumns \/ ScanRow \/ RowsEnd
        \/ FetchCachedColumns \/ InferOutputNullability \/ Check \/ Return

Spec == Init /\ [][Next]_vars

(* Another session drops a column while Generate runs.                      *)
DropColumn ==
  /\ \E k \in DOMAIN catalog : catalog' = [j \in DOMAIN catalog \ {k} |-> catalog[j]]
  /\ rows' = rows \cap DOMAIN catalog'
  /\ UNCHANGED <<cache, pc, query, cols, nullables, outcome>>
SharedSpec == Init /\ [][Next \/ DropColumn]_vars

-----------------------------------------------------------------------------
(* There is one column and one flag for every field, whatever the plan.     *)
TypeOK ==
  /\ catalog \in Databases
  /\ pc \in {"idle", "explain", "fetch", "rows", "cached", "nullability", "check",
            "return", "failed"}
  /\ query.fields \in Seq(Field)
  /\ DOMAIN cache \subseteq Keys /\ rows \subseteq Keys
  /\ outcome \in {"none", "error", "typed"}
  /\ pc = "check" => nullables \in [DOMAIN query.fields -> BOOLEAN]

(* No two databases of the process use one OID for different columns.       *)
NoClash ==
  \A d, e \in Databases : \A k \in DOMAIN d \cap DOMAIN e :
    d[k].table = e[k].table /\ d[k].notNull = e[k].notNull

(* FetchColumns returns what the catalog of this connection says, in the    *)
(* order of the fields, whatever earlier queries, failed fetches and other  *)
(* databases left in the cache.                                             *)
ColumnsAreCatalogs ==
  pc = "nullability" =>
    cols = [i \in DOMAIN query.fields |->
              IF query.fields[i].key = Computed THEN NoColumn ELSE Column(query.fields[i].key)]

CanBeNull(f) == f.maybeNull \/ (f.key # Computed /\ ~catalog[f.key].notNull)

(* UPDATE t ... FROM x LEFT JOIN t AS again ... RETURNING again.c           *)
ReadAgain(f) ==
  query.plan.type = "ModifyTable" /\ f.maybeNull /\ catalog[f.key].table = query.plan.relation

(* An output column of a table that can be null is nullable, under every    *)
(* plan, unless an outer join reads the table a statement modifies again.   *)
TableColumnsNullSound ==
  outcome = "typed" =>
    \A i \in DOMAIN query.fields :
      LET f == query.fields[i]
      IN f.key # Computed /\ CanBeNull(f) /\ ~ReadAgain(f) => nullables[i]

(* "It's better to assume a column is nullable when we can't know for sure":*)
(* every output column that can be null is nullable.                        *)
NullSound ==
  outcome = "typed" => \A i \in DOMAIN query.fields : CanBeNull(query.fields[i]) => nullables[i]

(* "missing column in fetch cache": a column of a table that is not in the  *)
(* cache after the fetch is an error.                                       *)
MissingColumnReported == pc = "nullability" => Backed(query) \subseteq DOMAIN cache
=============================================================================
