------------------------------ MODULE PgCatalog ------------------------------
(***************************************************************************)
(* TypeFetcher one level down: the statements it sends to the catalog       *)
(* tables (internal/pg/query.sql.go), the answers read row by row from a    *)
(* connection that may break or time out at any row, and the type           *)
(* descriptions that are built from the rows.  TypeFetcher treats an answer *)
(* as one step and a type as its OID; this module is shown to implement it. *)
(***************************************************************************)
EXTENDS FiniteSets, Integers, Sequences

CONSTANTS
  PgType,      \* [oid, typtype, typelem, typlen, typrelid, typisdefined]
  PgEnum,      \* [oid, enumtypid, enumsortorder, enumlabel]
  PgClass,     \* [oid, reltype]
  PgAttribute, \* [attrelid, attnum, attname, atttypid, attisdropped]
  OID,         \* the OIDs of pg_type and ones it does not have
  Known,       \* defaultKnownTypes
  Request      \* the sets of OIDs a query asks for

TypeRow(o) == CHOOSE t \in PgType : t.oid = o
Exists(o)  == \E t \in PgType : t.oid = o

(* What Postgres guarantees of its catalog: OIDs are unique and not 0, an   *)
(* OID that one table holds is in the other, only a shell type is not       *)
(* defined, a composite type and its relation point at each other, enums    *)
(* and composites have no typelem.                                          *)
ASSUME TypesAssumption ==
  /\ IsFiniteSet(OID) /\ OID \subseteq Nat \ {0}
  /\ {t.oid : t \in PgType} \subseteq OID /\ Known \subseteq {t.oid : t \in PgType}
  /\ \A t, u \in PgType : t.oid = u.oid => t = u
  /\ \A t \in PgType :
       /\ t.typelem \in Nat /\ t.typlen \in Int
       /\ t.typelem > 0 => Exists(t.typelem)
       /\ t.typtype \in {"e", "c"} => t.typelem = 0
       /\ t.typtype \in {"b", "e"} => t.typisdefined
       /\ t.typtype = "c" => \E c \in PgClass : c.oid = t.typrelid /\ c.reltype = t.oid
  /\ \A c \in PgClass : c.reltype # 0 =>
       \E t \in PgType : t.oid = c.reltype /\ t.typrelid = c.oid /\ t.typtype = "c"

(* The columns of a relation are numbered and the labels of an enum ordered *)
(* by the unique indexes of pg_attribute and pg_enum.                       *)
ASSUME PartsAssumption ==
  /\ IsFiniteSet(PgAttribute) /\ IsFiniteSet(PgEnum)
  /\ \A a \in PgAttribute : a.attnum \in Int /\ (Exists(a.atttypid) \/ a.attisdropped)
  /\ \A a, b \in PgAttribute : a.attrelid = b.attrelid /\ a.attnum = b.attnum => a = b
  /\ \A e \in PgEnum : e.enumsortorder \in Int
  /\ \A e, f \in PgEnum :
       e.enumtypid = f.enumtypid /\ e.enumsortorder = f.enumsortorder => e = f

ASSUME RequestAssumption == Request \subseteq SUBSET OID /\ {} \in Request

-----------------------------------------------------------------------------
(* What the catalog says of an OID, in TypeFetcher's terms.                 *)
Columns(o) ==
  {a \in PgAttribute : a.attnum > 0 /\ ~a.attisdropped
                       /\ \E c \in PgClass : c.oid = a.attrelid /\ c.reltype = o}
LabelsOf(o) == {e \in PgEnum : e.enumtypid = o}

KindOf(o) ==
  LET t == TypeRow(o)
  IN IF o \in Known THEN "known"
     ELSE IF ~Exists(o) THEN "missing"
     ELSE IF t.typtype = "e" /\ LabelsOf(o) # {} THEN "enum"
     ELSE IF t.typtype = "c" /\ Columns(o) # {} THEN "composite"
     ELSE IF t.typtype = "b" /\ t.typelem > 0 /\ t.typlen = -1 THEN "array"
     ELSE "other"

ChildOf(o) ==
  IF ~Exists(o) THEN {}
  ELSE {a.atttypid : a \in Columns(o)} \cup ({TypeRow(o).typelem} \ {0})

Kind  == [o \in OID |-> KindOf(o)]
Child == [o \in OID |-> ChildOf(o)]

-----------------------------------------------------------------------------
(* The statements.                                                          *)

(* Mutant of Descend: composites are all that can be nested.                *)
DescendColumns(S) ==
  {a.atttypid : a \in {a \in PgAttribute :
      /\ a.attnum > 0 /\ ~a.attisdropped
      /\ \E c \in PgClass : c.oid = a.attrelid /\ c.reltype \in S}}

(* One round of the recursive query, through composites and array elements. *)
Descend(S) ==
  {a.atttypid : a \in {a \in PgAttribute :
      /\ a.attnum > 0 /\ ~a.attisdropped
      /\ \E c \in PgClass : c.oid = a.attrelid /\ c.reltype \in S}}
  \cup {t.typelem : t \in {t \in PgType : t.oid \in S /\ Exists(t.typelem)}}

(* Mutant of DescendantRows: the query is not recursive.                    *)
DescendantRowsOnce == [S \in Request |-> {[oid |-> o] : o \in S \cup Descend(S)}]

DescendantRows == [S \in Request |->
  LET after[n \in 0..Cardinality(OID)] ==
        IF n = 0 THEN S ELSE LET found == after[n - 1] IN found \cup Descend(found)
  IN {[oid |-> o] : o \in after[Cardinality(OID)]}]

(* array_agg(f ORDER BY key): the element with i - 1 before it is at i.     *)
Aggregate(S, key(_), f(_)) ==
  [i \in 1..Cardinality(S) |->
     f(CHOOSE a \in S : Cardinality({b \in S : key(b) < key(a)}) = i - 1)]

EnumLabels(o) == Aggregate(LabelsOf(o), LAMBDA e : e.enumsortorder, LAMBDA e : e.enumlabel)

EnumRows(S) ==
  {[oid |-> t.oid, labels |-> EnumLabels(t.oid)] : t \in {t \in PgType :
      t.typisdefined /\ t.typtype = "e" /\ t.oid \in S /\ LabelsOf(t.oid) # {}}}

(* The CTE table_cols: inner joins, so a relation without columns has none. *)
TableCols(rel) ==
  {a \in PgAttribute : a.attrelid = rel /\ a.attnum > 0 /\ ~a.attisdropped /\ Exists(a.atttypid)}

CompositeRows(S) ==
  {[oid |-> t.oid,
    cols |-> Aggregate(TableCols(t.typrelid), LAMBDA a : a.attnum,
                       LAMBDA a : [name |-> a.attname, oid |-> a.atttypid])] :
    t \in {t \in PgType : t.oid \in S /\ t.typtype = "c" /\ TableCols(t.typrelid) # {}}}

ArrayRows(S) ==
  {[oid |-> t.oid, elem |-> t.typelem] : t \in {t \in PgType :
      /\ t.typisdefined /\ t.typtype = "b" /\ t.typelem > 0 /\ t.typlen = -1 /\ t.oid \in S}}

OIDNameRows(S) ==
  {[oid |-> t.oid, typtype |-> t.typtype] : t \in {t \in PgType : t.oid \in S}}

-----------------------------------------------------------------------------
VARIABLES
  pc,       \* the query FindTypesByOIDs is at, or what it does between queries
  err,      \* the error the call has failed with
  cache,    \* typeCache.types
  pending,  \* the oids argument of a call whose descendants are being fetched
  req,      \* the oids argument, once they are
  types,    \* the keys of the map that will be returned
  uncached, \* descendants that no pass has classified yet
  stream,   \* the open pgx.Rows: rows to come, and whether the connection broke
  items     \* rows scanned

vars == <<pc, err, cache, pending, req, types, uncached, stream, items>>

NoRows  == [open |-> FALSE, left |-> {}, broken |-> FALSE]
Queries == {"descendants", "enums", "composites", "arrays", "unknowns"}
Cached  == DOMAIN cache
Base    == [kind |-> "known"]

(* NewTypeFetcher                                                           *)
Init ==
  /\ pc = "returned" /\ err = "none"
  /\ cache = [o \in Known |-> Base]
  /\ pending = {} /\ req = {} /\ types = {} /\ uncached = {}
  /\ stream = NoRows /\ items = {}

FastPath(oids) ==
  /\ pc = "returned" /\ oids \subseteq Cached
  /\ req' = oids /\ types' = oids
  /\ UNCHANGED <<pc, err, cache, pending, uncached, stream, items>>

SlowPath(oids) ==
  /\ pc = "returned" /\ ~(oids \subseteq Cached)
  /\ pending' = oids /\ pc' = "descendants"
  /\ UNCHANGED <<err, cache, req, types, uncached, stream, items>>

-----------------------------------------------------------------------------
(* A method of DBQuerier that returns many rows, the same for each query.   *)
Running == pc \in Queries /\ err = "none"

Statement ==
  IF pc = "descendants" THEN DescendantRows[pending]
  ELSE IF pc = "enums" THEN EnumRows(uncached)
  ELSE IF pc = "composites" THEN CompositeRows(uncached)
  ELSE IF pc = "arrays" THEN ArrayRows(uncached)
  ELSE OIDNameRows(uncached)

Query ==
  /\ Running /\ ~stream.open
  /\ stream' = [open |-> TRUE, left |-> Statement, broken |-> FALSE]
  /\ items' = {}
  /\ UNCHANGED <<pc, err, cache, pending, req, types, uncached>>

(* rows.Next and rows.Scan.  Only composites depend on the order of the     *)
(* rows, and BuildComposite takes them in any order, so one order will do.  *)
ScanRow ==
  /\ Running /\ stream.left # {}
  /\ LET r == CHOOSE r \in stream.left : TRUE
     IN /\ stream' = [stream EXCEPT !.left = @ \ {r}]
        /\ items' = items \cup {r}
  /\ UNCHANGED <<pc, err, cache, pending, req, types, uncached>>

(* The connection breaks or the ten seconds are over: rows.Next says there  *)
(* are no more rows, just as it does at the end.                            *)
ConnBreaks ==
  /\ Running /\ stream.open /\ ~stream.broken
  /\ stream' = [stream EXCEPT !.left = {}, !.broken = TRUE]
  /\ UNCHANGED <<pc, err, cache, pending, req, types, uncached, items>>

(* The three error returns: of Query, of rows.Scan and of rows.Err.         *)
QueryFails ==
  /\ Running
  /\ \/ ~stream.open
     \/ stream.left # {}
     \/ stream.broken
  /\ err' = "query" /\ stream' = NoRows
  /\ UNCHANGED <<pc, cache, pending, req, types, uncached, items>>

(* Mutant of Answered: rows.Err is not looked at.                           *)
AnsweredUnchecked(q) ==
  pc = q /\ err = "none" /\ stream.open /\ stream.left = {} /\ stream' = NoRows

Answered(q) ==
  /\ pc = q /\ err = "none" /\ stream.open /\ stream.left = {} /\ ~stream.broken
  /\ stream' = NoRows

-----------------------------------------------------------------------------
(* What FindTypesByOIDs does with the rows.                                 *)
OIDs == {r.oid : r \in items}

(* typeCache.addType, for each of the new types.                            *)
Put(new) == [o \in DOMAIN new \cup Cached |-> IF o \in DOMAIN new THEN new[o] ELSE cache[o]]

(* Mutant of AddTypes: the cache is forgotten.                              *)
AddTypesUncached(new) ==
  /\ types' = types \cup DOMAIN new
  /\ uncached' = uncached \ DOMAIN new
  /\ UNCHANGED cache

AddTypes(new) ==
  /\ cache' = Put(new)
  /\ types' = types \cup DOMAIN new
  /\ uncached' = uncached \ DOMAIN new

RowOf(o) == CHOOSE r \in items : r.oid = o

Lookup ==
  /\ Answered("descendants") /\ pc' = "enums"
  /\ req' = pending
  /\ types' = OIDs \cap Cached /\ uncached' = OIDs \ Cached
  /\ UNCHANGED <<err, cache, pending, items>>

FindEnumTypes ==
  /\ Answered("enums") /\ pc' = "composites"
  /\ AddTypes([o \in OIDs |-> [kind |-> "enum", labels |-> RowOf(o).labels]])
  /\ UNCHANGED <<err, pending, req, items>>

CompositeAnswer ==
  /\ Answered("composites") /\ pc' = "build"
  /\ UNCHANGED <<err, cache, pending, req, types, uncached, items>>

(* The type of a column that is not in the cache is a placeholder.          *)
CompositeOf(r) ==
  [kind |-> "composite",
   cols |-> [i \in DOMAIN r.cols |->
               [name |-> r.cols[i].name, type |-> r.cols[i].oid, hole |-> r.cols[i].oid \notin Cached]]]

(* Mutant of BuildComposite: a row whose columns are not all known is put   *)
(* off until they are.                                                      *)
BuildInOrder(r) ==
  /\ pc = "build"
  /\ IF \A i \in DOMAIN r.cols : r.cols[i].oid \in Cached
     THEN /\ cache' = Put([o \in {r.oid} |-> CompositeOf(r)])
          /\ items' = items \ {r}
          /\ UNCHANGED <<pc, err, pending, req, types, uncached, stream>>
     ELSE UNCHANGED vars

(* One turn of the loop of findCompositeTypes.                              *)
BuildComposite(r) ==
  /\ pc = "build" /\ r \in items
  /\ cache' = Put([o \in {r.oid} |-> CompositeOf(r)])
  /\ items' = items \ {r}
  /\ UNCHANGED <<pc, err, pending, req, types, uncached, stream>>

FindCompositeTypes ==
  LET built == {o \in uncached \cap Cached : cache[o].kind = "composite"}
  IN /\ pc = "build" /\ items = {} /\ pc' = "arrays"
     /\ AddTypes([o \in built |-> cache[o]])
     /\ UNCHANGED <<err, pending, req, stream, items>>

FindArrayTypes ==
  /\ Answered("arrays")
  /\ IF \A r \in items : r.elem \in Cached
     THEN /\ pc' = "unknowns" /\ err' = err
          /\ AddTypes([o \in OIDs |-> [kind |-> "array", elem |-> RowOf(o).elem]])
     ELSE pc' = pc /\ err' = "noElem" /\ UNCHANGED <<cache, types, uncached>>
  /\ UNCHANGED <<pending, req, items>>

FindUnknownTypes ==
  /\ Answered("unknowns") /\ pc' = "resolve"
  /\ AddTypes([o \in OIDs |-> [kind |-> "other", typtype |-> RowOf(o).typtype]])
  /\ UNCHANGED <<err, pending, req, items>>

(* resolveType walks from the result through columns and elements that are  *)
(* no placeholders; knownTypes is the result itself.                        *)
Below(o) ==
  IF cache[o].kind = "composite"
  THEN {cache[o].cols[i].type : i \in {i \in DOMAIN cache[o].cols : ~cache[o].cols[i].hole}}
  ELSE IF cache[o].kind = "array" THEN {cache[o].elem} ELSE {}

(* Mutant of Walked: only what the query asked for.                         *)
WalkedRequested == {o \in req \cap Cached : cache[o].kind = "composite"}

Walked ==
  {o \in Cached :
    /\ cache[o].kind = "composite"
    /\ \A W \in SUBSET Cached :
         types \subseteq W /\ (\A w \in W : Below(w) \subseteq W) => o \in W}

Holes(o) == {cache[o].cols[i].type : i \in {i \in DOMAIN cache[o].cols : cache[o].cols[i].hole}}

Resolved(o) ==
  [kind |-> "composite",
   cols |-> [i \in DOMAIN cache[o].cols |->
               [cache[o].cols[i] EXCEPT !.hole = @ /\ cache[o].cols[i].type \notin types]]]

ResolvePlaceholderTypes ==
  /\ pc = "resolve" /\ err = "none"
  /\ cache' = Put([o \in Walked |-> Resolved(o)])
  /\ IF \E o \in Walked : ~(Holes(o) \subseteq types) THEN pc' = pc /\ err' = "placeholder"
     ELSE IF uncached # {} THEN pc' = pc /\ err' = "unclassified"
     ELSE pc' = "returned" /\ err' = err
  /\ UNCHANGED <<pending, req, types, uncached, stream, items>>

(* parseQueries gives up on the first error.                                *)
GaveUp == err # "none" /\ UNCHANGED vars

Call  == \E oids \in Request : FastPath(oids) \/ SlowPath(oids)
Step  ==
  \/ Query \/ ScanRow \/ QueryFails
  \/ Lookup \/ FindEnumTypes \/ CompositeAnswer \/ (\E r \in items : BuildComposite(r))
  \/ FindCompositeTypes \/ FindArrayTypes \/ FindUnknownTypes \/ ResolvePlaceholderTypes

Next == Call \/ Step \/ ConnBreaks \/ GaveUp

(* The fetcher is one goroutine and every read it waits for ends, at the    *)
(* latest when its context expires.                                         *)
Spec == Init /\ [][Next]_vars /\ WF_vars(Step)

-----------------------------------------------------------------------------
(* The pass, the placeholders and the rows in TypeFetcher's terms.          *)
Pass ==
  IF pc = "descendants" THEN "returned"
  ELSE IF err # "none" THEN err
  ELSE IF pc = "build" THEN "composites" ELSE pc
Placeholders == {p \in Cached \X OID : cache[p[1]].kind = "composite" /\ p[2] \in Holes(p[1])}
ToBuild ==
  IF pc = "composites" THEN {o \in uncached : Kind[o] = "composite"}
  ELSE IF pc = "build" THEN OIDs ELSE {}

TF == INSTANCE TypeFetcher WITH
  pc <- Pass, cached <- Cached, holes <- Placeholders, rows <- ToBuild

(* TypeFetcher is an abstraction of this module: each query and what is     *)
(* made of its rows is one of TypeFetcher's steps, and every row read on    *)
(* the way is none; so what is proved of TypeFetcher for every catalog      *)
(* holds when the catalog is queried with these statements.                 *)
ImplementsTypeFetcher == TF!Spec

TypeOK ==
  /\ pc \in Queries \cup {"returned", "build", "resolve"}
  /\ err \in {"none", "query", "noElem", "placeholder", "unclassified"}
  /\ Cached \subseteq OID /\ types \subseteq Cached /\ uncached \subseteq OID
  /\ pending \in Request /\ req \in Request
  /\ stream.open \/ stream = NoRows
  /\ {o \in Cached : cache[o].kind = "composite"} \cap Known = {}

(* A type in the cache is the type the catalog declares, and all of it: its *)
(* kind, the labels of an enum in sort order, the live columns of a         *)
(* composite by position, the element of an array.  An answer that was cut  *)
(* off never shows as a smaller enum or composite, nor as an unknown type.  *)
DescribesCatalog ==
  \A o \in Cached :
    LET t == cache[o]
    IN /\ t.kind = Kind[o]
       /\ t.kind = "enum" =>
            /\ Len(t.labels) = Cardinality(LabelsOf(o))
            /\ \A e, f \in LabelsOf(o) : e.enumsortorder < f.enumsortorder =>
                 \E i, j \in DOMAIN t.labels :
                   i < j /\ t.labels[i] = e.enumlabel /\ t.labels[j] = f.enumlabel
       /\ t.kind = "composite" =>
            /\ Len(t.cols) = Cardinality(Columns(o))
            /\ \A a \in Columns(o) :
                 LET before == {b \in Columns(o) : b.attnum < a.attnum}
                     col    == t.cols[Cardinality(before) + 1]
                 IN col.name = a.attname /\ col.type = a.atttypid
       /\ t.kind = "array" => t.elem = TypeRow(o).typelem

(* The statement that finds the descendants and the ones that describe them *)
(* agree on what a part is: when a call has its answer, every column and    *)
(* element of every type in it is in the cache, without a placeholder.      *)
PartsPresent ==
  pc = "returned" => \A o \in types :
    /\ cache[o].kind = "composite" => Holes(o) = {}
    /\ Below(o) \subseteq Cached

(* A call for types the catalog has fails only when a query does, or for an *)
(* array whose element is a kind of type no earlier pass describes.         *)
FailsForCause ==
  /\ err = "unclassified" => \E o \in req : ~Exists(o)
  /\ err = "noElem" => \E o \in uncached : Kind[o] = "array"
                         /\ \A e \in Child[o] : Kind[e] \in {"array", "other"}
  /\ err # "placeholder"

(* A call ends: neither the row loops nor the loop that "fakes a topological *)
(* sort by repeated iteration" over the composites goes on for ever.         *)
CallEnds == (pc = "descendants") ~> (pc = "returned" \/ err # "none")

(* The answer of a call as its caller sees it: the types describe the       *)
(* catalog, whole, with all of their parts; and an error has a cause in the *)
(* catalog or in the connection.                                            *)
AnswersDescribeCatalog == DescribesCatalog /\ PartsPresent /\ FailsForCause
=============================================================================
