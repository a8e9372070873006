---------------------------- MODULE Infer_proofs ----------------------------
(***************************************************************************)
(* The cache of columns is sound as long as no two databases of a process   *)
(* use one OID for different columns, and then so is the nullability of     *)
(* columns of tables, for every set of databases and of queries.            *)
(***************************************************************************)
EXTENDS Infer, TLAPS

CacheInv ==
  /\ DOMAIN cache \subseteq Keys
  /\ \A k \in DOMAIN cache : \A d \in Databases :
       k \in DOMAIN d => cache[k] = [table |-> d[k].table, null |-> ~d[k].notNull]

QueryInv ==
  /\ query \in Queries \cup {NoQuery}
  /\ pc # "failed" => Backed(query) \subseteq DOMAIN catalog

RowsInv ==
  /\ rows \subseteq DOMAIN catalog
  /\ pc # "rows" => rows = {}
  /\ pc = "rows" => Uncached \subseteq rows
  /\ pc = "cached" => Uncached = {}

ColsOf == [i \in DOMAIN query.fields |->
             IF query.fields[i].key = Computed THEN NoColumn ELSE Column(query.fields[i].key)]

(* What TableColumnsNullSound asks of one field.                            *)
FieldSound(i) ==
  LET f == query.fields[i]
  IN f.key # Computed /\ CanBeNull(f) /\ ~ReadAgain(f) => nullables[i]

FlagsInv ==
  pc = "check" \/ outcome = "typed" =>
    /\ nullables \in [DOMAIN query.fields -> BOOLEAN]
    /\ \A i \in DOMAIN query.fields : FieldSound(i)

IInv ==
  /\ catalog \in Databases
  /\ pc \in {"idle", "explain", "fetch", "rows", "cached", "nullability", "check",
             "return", "failed"}
  /\ outcome \in {"none", "error", "typed"}
  /\ pc \in {"idle", "failed"} => query = NoQuery
  /\ outcome = "typed" => pc = "return"
  /\ pc \notin {"check", "return"} => nullables = <<>>
  /\ pc = "nullability" => cols = ColsOf
  /\ CacheInv /\ QueryInv /\ RowsInv /\ FlagsInv

-----------------------------------------------------------------------------
(* The indices of a sequence are numbers from 1.                            *)
LEMMA SeqDomain ==
  ASSUME NEW S, NEW s \in Seq(S)
  PROVE  DOMAIN s = 1..Len(s) /\ Len(s) \in Nat
OBVIOUS

(* NoQuery, like every query, has a sequence of fields.                     *)
LEMMA FieldsAreFields ==
  ASSUME QueryInv
  PROVE  /\ query.fields \in Seq(Field)
         /\ query.plan.outs \in Seq({"", "literal", "expression"})
         /\ \A i \in DOMAIN query.fields : query.fields[i].key # Computed =>
              /\ query.fields[i].key \in Backed(query)
              /\ i \in DOMAIN query.plan.outs => query.plan.outs[i] = "expression"
              /\ query.fields[i].maybeNull => query.join
<1>1. CASE query = NoQuery
  <2>1. query.fields = <<>> /\ query.plan.outs = <<>>
    BY <1>1 DEF NoQuery
  <2> QED BY <2>1
<1>2. CASE query \in Queries
  BY <1>2, InferAssumption DEF Backed
<1> QED BY <1>1, <1>2 DEF QueryInv

(* At the start nothing is cached and nothing is being inferred.            *)
LEMMA InitIInv == Init => IInv
<1> SUFFICES ASSUME Init PROVE IInv
  OBVIOUS
<1>1. Backed(NoQuery) = {}
  BY DEF Backed, NoQuery
<1> QED BY <1>1 DEF Init, IInv, CacheInv, QueryInv, RowsInv, FlagsInv

(* The columns FetchColumns returns are those of the catalog once all are   *)
(* in the cache.                                                            *)
LEMMA CachedIsCatalog ==
  ASSUME IInv, pc = "cached"
  PROVE  FetchCached = ColsOf
<1> SUFFICES ASSUME NEW i \in DOMAIN query.fields
             PROVE  Cached(query.fields[i].key) =
                      IF query.fields[i].key = Computed THEN NoColumn
                      ELSE Column(query.fields[i].key)
  BY DEF FetchCached, ColsOf
<1>1. CASE query.fields[i].key = Computed
  <2>1. Computed \notin DOMAIN cache
    BY InferAssumption DEF IInv, CacheInv
  <2> QED BY <1>1, <2>1 DEF Cached
<1>2. CASE query.fields[i].key # Computed
  <2>1. query.fields[i].key \in Backed(query)
    BY <1>2, FieldsAreFields DEF IInv
  <2>2. query.fields[i].key \in DOMAIN cache /\ query.fields[i].key \in DOMAIN catalog
    BY <2>1 DEF IInv, RowsInv, QueryInv, Uncached
  <2> QED BY <1>2, <2>2 DEF Cached, Column, IInv, CacheInv
<1> QED BY <1>1, <1>2

(* isColNullable, given the columns of the catalog, marks every column of a *)
(* table that can be null.                                                  *)
LEMMA FlagsSound ==
  ASSUME IInv, InferOutputNullability
  PROVE  FlagsInv'
<1>1. /\ cols = ColsOf /\ UNCHANGED <<catalog, query, outcome>>
      /\ pc = "nullability" /\ QueryInv /\ catalog \in Databases
  BY DEF InferOutputNullability, IInv
<1>2. nullables' = [i \in DOMAIN query.fields |->
         \/ i \notin DOMAIN cols \/ i > Len(query.plan.outs)
         \/ IsColNullable(query.plan, query.join, query.plan.outs[i], cols[i])]
  BY DEF InferOutputNullability, Flags
<1>3. nullables' \in [DOMAIN query.fields -> BOOLEAN]
  BY <1>2 DEF IsColNullable
<1>4. ASSUME NEW i \in DOMAIN query.fields, query.fields[i].key # Computed,
             CanBeNull(query.fields[i]), ~ReadAgain(query.fields[i])
      PROVE  nullables'[i]
  <2> DEFINE f == query.fields[i]
  <2>1. /\ f.key \in Backed(query) /\ f.key \in DOMAIN catalog
        /\ f.maybeNull => query.join
        /\ i \in DOMAIN query.plan.outs => query.plan.outs[i] = "expression"
    BY <1>1, <1>4, FieldsAreFields DEF QueryInv
  <2>2. cols[i] = [table |-> catalog[f.key].table, null |-> ~catalog[f.key].notNull]
    BY <1>1, <1>4 DEF ColsOf, Column
  <2>3. i \in Nat /\ i >= 1
    <3>1. query.fields \in Seq(Field)
      BY <1>1, FieldsAreFields
    <3>2. DOMAIN query.fields = 1..Len(query.fields) /\ Len(query.fields) \in Nat
      BY <3>1
    <3> QED BY <3>2
  <2>4. CASE i > Len(query.plan.outs)
    BY <1>2, <2>4
  <2>5. CASE ~(i > Len(query.plan.outs))
    <3>1. query.plan.outs[i] = "expression"
      <4>1. query.plan.outs \in Seq({"", "literal", "expression"})
        BY <1>1, FieldsAreFields
      <4>2. DOMAIN query.plan.outs = 1..Len(query.plan.outs) /\ Len(query.plan.outs) \in Nat
        BY <4>1, SeqDomain
      <4> QED BY <2>1, <2>3, <2>5, <4>2
    <3>2. IsColNullable(query.plan, query.join, query.plan.outs[i], cols[i])
      <4>1. CASE ~catalog[f.key].notNull
        <5>1. (~catalog[f.key].notNull) = TRUE
          BY <4>1, Zenon
        <5>2. cols[i] = [table |-> catalog[f.key].table, null |-> TRUE]
          BY <2>2, <5>1, Zenon
        <5>3. cols[i].null = TRUE
          BY <5>2
        <5> QED BY <3>1, <5>3 DEF IsColNullable
      <4>2. CASE catalog[f.key].notNull
        <5>1. f.maybeNull /\ query.join
          BY <1>4, <2>1, <4>2 DEF CanBeNull
        <5>2. ~(query.plan.type = "ModifyTable" /\ catalog[f.key].table = query.plan.relation)
          BY <1>4, <5>1 DEF ReadAgain
        <5> QED BY <2>2, <3>1, <5>1, <5>2 DEF IsColNullable
      <4> QED BY <4>1, <4>2
    <3> QED BY <1>2, <3>2
  <2> QED BY <2>4, <2>5
<1>5. \A i \in DOMAIN query.fields : FieldSound(i)'
  BY <1>1, <1>4 DEF FieldSound, CanBeNull, ReadAgain
<1> QED BY <1>1, <1>3, <1>5 DEF FlagsInv

(* Every step preserves the invariant if databases agree on a common OID.   *)
LEMMA NextIInv ==
  ASSUME NoClash
  PROVE  IInv /\ [Next]_vars => IInv'
<1> SUFFICES ASSUME IInv, [Next]_vars PROVE IInv'
  OBVIOUS
<1>a. Backed(NoQuery) = {} /\ DOMAIN NoQuery.fields = {}
  BY DEF Backed, NoQuery
<1>1. CASE NewDatabase
  <2>1. UNCHANGED <<cache, query, rows, cols, nullables, outcome>> /\ query = NoQuery
        /\ catalog' \in Databases /\ pc' = "idle" /\ rows = {} /\ outcome # "typed"
        /\ nullables = <<>>
    BY <1>1 DEF NewDatabase, IInv, RowsInv
  <2>2. CacheInv' /\ QueryInv' /\ RowsInv'
    BY <1>a, <2>1 DEF IInv, CacheInv, QueryInv, RowsInv, Backed
  <2> QED BY <2>1, <2>2 DEF IInv, FlagsInv
<1>2. CASE Prepare
  <2>1. /\ UNCHANGED <<catalog, cache, rows, cols, nullables, outcome>>
        /\ query' \in Queries /\ Backed(query') \subseteq DOMAIN catalog
        /\ pc' = IF query'.fields = <<>> THEN "check" ELSE "explain"
        /\ pc = "idle" /\ rows = {} /\ outcome # "typed"
    BY <1>2 DEF Prepare, IInv, RowsInv
  <2>2. CacheInv' /\ QueryInv' /\ RowsInv'
    BY <2>1 DEF IInv, CacheInv, QueryInv, RowsInv, Backed
  <2>3. FlagsInv'
    <3>1. CASE query'.fields = <<>>
      <4>1. nullables' = <<>> /\ DOMAIN query'.fields = {}
        BY <2>1, <3>1 DEF IInv
      <4>2. nullables' \in [DOMAIN query'.fields -> BOOLEAN]
        BY <4>1
      <4> QED BY <4>1, <4>2 DEF FlagsInv
    <3>2. CASE query'.fields # <<>>
      BY <2>1, <3>2 DEF FlagsInv
    <3> QED BY <3>1, <3>2
  <2> QED BY <2>1, <2>2, <2>3 DEF IInv
<1>3. CASE Fail
  BY <1>3 DEF Fail, IInv, CacheInv, QueryInv, RowsInv, FlagsInv, Backed
<1>4. CASE Explain
  <2>1. CacheInv' /\ QueryInv' /\ RowsInv' /\ FlagsInv'
    BY <1>4 DEF Explain, IInv, CacheInv, QueryInv, RowsInv, FlagsInv, Backed, Uncached
  <2> QED BY <1>4, <2>1 DEF Explain, IInv
<1>5. CASE FetchColumns
  <2>1. CacheInv' /\ QueryInv' /\ FlagsInv'
    BY <1>5 DEF FetchColumns, IInv, CacheInv, QueryInv, FlagsInv, Backed
  <2>2. RowsInv'
    BY <1>5 DEF FetchColumns, IInv, QueryInv, RowsInv, Backed, Uncached
  <2> QED BY <1>5, <2>1, <2>2 DEF FetchColumns, IInv
<1>6. CASE ScanRow
  <2>1. PICK k \in rows :
          /\ rows' = rows \ {k}
          /\ cache' = [j \in DOMAIN cache \cup {k} |-> IF j = k THEN Column(k) ELSE cache[j]]
    BY <1>6 DEF ScanRow
  <2>2. pc = "rows" /\ UNCHANGED <<catalog, pc, query, cols, nullables, outcome>>
    BY <1>6 DEF ScanRow
  <2>3. k \in DOMAIN catalog /\ catalog \in Databases /\ k \in Keys
    BY <2>1 DEF IInv, RowsInv, Keys
  <2>4. CacheInv'
    BY <2>1, <2>3 DEF IInv, CacheInv, NoClash, Column
  <2>5. RowsInv'
    BY <2>1, <2>2 DEF IInv, RowsInv, Uncached, Backed
  <2>6. QueryInv' /\ FlagsInv'
    BY <2>2 DEF IInv, QueryInv, FlagsInv, Backed
  <2> QED BY <2>2, <2>4, <2>5, <2>6 DEF IInv
<1>7. CASE RowsEnd
  <2>1. CacheInv' /\ QueryInv' /\ RowsInv' /\ FlagsInv'
    BY <1>7 DEF RowsEnd, IInv, CacheInv, QueryInv, RowsInv, FlagsInv, Backed, Uncached
  <2> QED BY <1>7, <2>1 DEF RowsEnd, IInv
<1>8. CASE FetchCachedColumns
  <2>1. cols' = ColsOf
    BY <1>8, CachedIsCatalog DEF FetchCachedColumns
  <2>2. cols' = ColsOf'
    BY <1>8, <2>1 DEF FetchCachedColumns, ColsOf, Column
  <2>3. CacheInv' /\ QueryInv' /\ RowsInv' /\ FlagsInv'
    BY <1>8 DEF FetchCachedColumns, IInv, CacheInv, QueryInv, RowsInv, FlagsInv, Backed, Uncached
  <2> QED BY <1>8, <2>2, <2>3 DEF FetchCachedColumns, IInv
<1>9. CASE InferOutputNullability
  <2>1. FlagsInv'
    BY <1>9, FlagsSound
  <2>2. CacheInv' /\ QueryInv' /\ RowsInv'
    BY <1>9 DEF InferOutputNullability, IInv, CacheInv, QueryInv, RowsInv, Backed
  <2> QED BY <1>9, <2>1, <2>2 DEF InferOutputNullability, IInv
<1>10. CASE Check
  <2>1. FlagsInv'
    BY <1>10 DEF Check, IInv, FlagsInv, FieldSound, CanBeNull, ReadAgain
  <2>2. CacheInv' /\ QueryInv' /\ RowsInv'
    BY <1>10 DEF Check, IInv, CacheInv, QueryInv, RowsInv, Backed
  <2> QED BY <1>10, <2>1, <2>2 DEF Check, IInv
<1>11. CASE Return
  <2>1. CacheInv' /\ QueryInv' /\ RowsInv' /\ FlagsInv'
    BY <1>11, <1>a DEF Return, IInv, CacheInv, QueryInv, RowsInv, FlagsInv, Backed
  <2> QED BY <1>11, <2>1 DEF Return, IInv
<1>12. CASE UNCHANGED vars
  BY <1>12 DEF vars, IInv, CacheInv, QueryInv, RowsInv, FlagsInv, FieldSound, CanBeNull, ReadAgain,
               ColsOf, Column, Backed, Uncached
<1> QED BY <1>1, <1>2, <1>3, <1>4, <1>5, <1>6, <1>7, <1>8, <1>9, <1>10, <1>11, <1>12 DEF Next

(* The invariant holds in a process whose databases agree on common OIDs.   *)
LEMMA IInvHolds ==
  ASSUME NoClash
  PROVE  Spec => []IInv
<1>1. NoClash
  OBVIOUS
<1>2. IInv /\ [Next]_vars => IInv'
  BY <1>1, NextIInv
<1> QED BY InitIInv, <1>2, PTL DEF Spec

(* FetchColumns returns the columns of this connection's catalog, after any *)
(* sequence of queries, failed fetches and databases (NoClash).             *)
THEOREM ColumnsAlwaysCatalogs ==
  ASSUME NoClash
  PROVE  Spec => []ColumnsAreCatalogs
<1>1. IInv => ColumnsAreCatalogs
  BY DEF IInv, ColumnsAreCatalogs, ColsOf
<1> QED BY <1>1, IInvHolds, PTL

(* An output column of a table is never taken for non-null when it can be   *)
(* null, for every set of databases as above and every query.               *)
THEOREM TableColumnsAlwaysNullSound ==
  ASSUME NoClash
  PROVE  Spec => []TableColumnsNullSound
<1>1. IInv => TableColumnsNullSound
  BY DEF IInv, FlagsInv, FieldSound, TableColumnsNullSound
<1> QED BY <1>1, IInvHolds, PTL
=============================================================================
