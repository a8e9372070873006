--------------------------- MODULE PgCatalog_proofs ---------------------------
(***************************************************************************)
(* PgCatalog implements TypeFetcher and its answers describe the catalog,   *)
(* for every catalog that Postgres allows, every sequence of calls and a    *)
(* connection that breaks at any row.                                       *)
(***************************************************************************)
EXTENDS PgCatalog, FiniteSetTheorems, NaturalsInduction, SequenceTheorems, TLAPS

(* An OID has at most one row of pg_type.                                   *)
LEMMA RowIsTypeRow ==
  ASSUME NEW t \in PgType
  PROVE  TypeRow(t.oid) = t /\ Exists(t.oid) /\ t.oid \in OID
<1>1. \E u \in PgType : u.oid = t.oid
  OBVIOUS
<1>2. TypeRow(t.oid) \in PgType /\ TypeRow(t.oid).oid = t.oid
  BY <1>1 DEF TypeRow
<1> QED BY <1>1, <1>2, TypesAssumption DEF Exists

(* The two ways the statements go from a composite type to its columns lead *)
(* to the same columns.                                                     *)
LEMMA ColumnsAreTableCols ==
  ASSUME NEW t \in PgType
  PROVE  Columns(t.oid) = IF t.typtype = "c" THEN TableCols(t.typrelid) ELSE {}
<1>1. t.oid # 0
  BY RowIsTypeRow, TypesAssumption
<1>2. ASSUME NEW c \in PgClass, c.reltype = t.oid
      PROVE  t.typrelid = c.oid /\ t.typtype = "c"
  <2>1. PICK u \in PgType : u.oid = c.reltype /\ u.typrelid = c.oid /\ u.typtype = "c"
    BY <1>1, <1>2, TypesAssumption
  <2>2. u = t
    BY <1>2, <2>1, TypesAssumption
  <2> QED BY <2>1, <2>2
<1>3. t.typtype = "c" => \E c \in PgClass : c.oid = t.typrelid /\ c.reltype = t.oid
  BY TypesAssumption
<1>4. \A a \in PgAttribute : ~a.attisdropped => Exists(a.atttypid)
  BY PartsAssumption
<1> QED BY <1>2, <1>3, <1>4 DEF Columns, TableCols

(* An OID that pg_type does not have has no columns.                        *)
LEMMA MissingHasNoColumns ==
  ASSUME NEW o \in OID, ~Exists(o)
  PROVE  Columns(o) = {}
<1>1. ASSUME NEW c \in PgClass, c.reltype = o PROVE FALSE
  BY <1>1, TypesAssumption DEF Exists
<1> QED BY <1>1 DEF Columns

(* What KindOf says of a row of pg_type, in the words of the statements.    *)
LEMMA KindOfRow ==
  ASSUME NEW t \in PgType, t.oid \notin Known
  PROVE  /\ Kind[t.oid] \in {"enum", "composite", "array", "other"}
         /\ Kind[t.oid] = "enum" <=> t.typtype = "e" /\ LabelsOf(t.oid) # {}
         /\ Kind[t.oid] = "composite" <=> t.typtype = "c" /\ TableCols(t.typrelid) # {}
         /\ Kind[t.oid] = "array" <=> t.typtype = "b" /\ t.typelem > 0 /\ t.typlen = -1
<1>1. TypeRow(t.oid) = t /\ Exists(t.oid) /\ t.oid \in OID
  BY RowIsTypeRow
<1>2. Kind[t.oid] = KindOf(t.oid)
  BY <1>1 DEF Kind
<1>3. t.typtype = "c" => Columns(t.oid) = TableCols(t.typrelid)
  BY ColumnsAreTableCols
<1> DEFINE e == t.typtype = "e" /\ LabelsOf(t.oid) # {}
<1> DEFINE c == t.typtype = "c" /\ TableCols(t.typrelid) # {}
<1> DEFINE b == t.typtype = "b" /\ t.typelem > 0 /\ t.typlen = -1
<1>4. (e => ~c /\ ~b) /\ (c => ~b)
  OBVIOUS
<1>5. KindOf(t.oid) = IF e THEN "enum" ELSE IF c THEN "composite" ELSE IF b THEN "array" ELSE "other"
  BY <1>1, <1>3 DEF KindOf
<1> HIDE DEF e, c, b
<1>6. /\ KindOf(t.oid) \in {"enum", "composite", "array", "other"}
      /\ KindOf(t.oid) = "enum" <=> e
      /\ KindOf(t.oid) = "composite" <=> c
      /\ KindOf(t.oid) = "array" <=> b
  BY <1>4, <1>5
<1> QED BY <1>2, <1>6 DEF e, c, b

LEMMA KindOfKnown ==
  ASSUME NEW o \in OID
  PROVE  /\ Kind[o] = "known" <=> o \in Known
         /\ Kind[o] = "missing" <=> ~Exists(o)
<1>1. CASE o \in Known
  <2>1. Exists(o)
    BY <1>1, TypesAssumption DEF Exists
  <2>2. KindOf(o) = "known"
    BY <1>1 DEF KindOf
  <2> QED BY <1>1, <2>1, <2>2 DEF Kind
<1>2. CASE o \notin Known /\ ~Exists(o)
  <2>1. KindOf(o) = "missing"
    BY <1>2 DEF KindOf
  <2> QED BY <1>2, <2>1 DEF Kind
<1>3. CASE o \notin Known /\ Exists(o)
  <2>1. PICK t \in PgType : t.oid = o
    BY <1>3 DEF Exists
  <2> QED BY <1>3, <2>1, KindOfRow
<1> QED BY <1>1, <1>2, <1>3

(* The parts of a type.                                                     *)
LEMMA ChildOfRow ==
  ASSUME NEW t \in PgType
  PROVE  /\ t.typtype = "c" => Child[t.oid] = {a.atttypid : a \in TableCols(t.typrelid)}
         /\ t.typtype # "c" => Child[t.oid] = {t.typelem} \ {0}
         /\ t.typtype = "e" => Child[t.oid] = {}
<1>1. TypeRow(t.oid) = t /\ Exists(t.oid) /\ t.oid \in OID
  BY RowIsTypeRow
<1>2. Child[t.oid] = {a.atttypid : a \in Columns(t.oid)} \cup ({t.typelem} \ {0})
  BY <1>1 DEF Child, ChildOf
<1>3. t.typtype \in {"e", "c"} => t.typelem = 0
  BY TypesAssumption
<1>4. Columns(t.oid) = IF t.typtype = "c" THEN TableCols(t.typrelid) ELSE {}
  BY ColumnsAreTableCols
<1> QED BY <1>2, <1>3, <1>4

LEMMA ChildExists ==
  ASSUME NEW o \in OID
  PROVE  /\ Child[o] \subseteq OID /\ \A c \in Child[o] : Exists(c)
         /\ ~Exists(o) => Child[o] = {}
<1>1. CASE ~Exists(o)
  BY <1>1 DEF Child, ChildOf
<1>2. CASE Exists(o)
  <2>1. PICK t \in PgType : t.oid = o
    BY <1>2 DEF Exists
  <2>2. \A a \in TableCols(t.typrelid) : Exists(a.atttypid)
    BY DEF TableCols
  <2>3. t.typelem # 0 => Exists(t.typelem)
    BY TypesAssumption
  <2>4. \A c \in Child[o] : Exists(c)
    BY <2>1, <2>2, <2>3, ChildOfRow
  <2>5. \A c : Exists(c) => c \in OID
    BY TypesAssumption DEF Exists
  <2> QED BY <1>2, <2>4, <2>5
<1> QED BY <1>1, <1>2

(* The recursive statement goes from the types to their parts.              *)
LEMMA DescendIsChild ==
  ASSUME NEW S \in SUBSET OID
  PROVE  Descend(S) = UNION {Child[o] : o \in S}
<1>1. \A a \in PgAttribute : ~a.attisdropped => Exists(a.atttypid)
  BY PartsAssumption
<1>2. ASSUME NEW c \in PgClass, c.reltype \in S
      PROVE  Exists(c.reltype)
  BY <1>2, TypesAssumption DEF Exists
<1> DEFINE cols == {a.atttypid : a \in {a \in PgAttribute :
                      /\ a.attnum > 0 /\ ~a.attisdropped
                      /\ \E c \in PgClass : c.oid = a.attrelid /\ c.reltype \in S}}
<1> DEFINE elems == {t.typelem : t \in {t \in PgType : t.oid \in S /\ Exists(t.typelem)}}
<1>3. cols = UNION {{a.atttypid : a \in Columns(o)} : o \in S}
  BY DEF Columns
<1>4. elems = UNION {IF Exists(o) THEN {TypeRow(o).typelem} \ {0} ELSE {} : o \in S}
  <2>1. ASSUME NEW t \in PgType, t.oid \in S, Exists(t.typelem)
        PROVE  \E o \in S : Exists(o) /\ t.typelem \in {TypeRow(o).typelem} \ {0}
    <3>1. Exists(t.oid) /\ TypeRow(t.oid) = t
      BY RowIsTypeRow
    <3>2. t.typelem # 0
      BY <2>1, TypesAssumption DEF Exists
    <3> QED BY <2>1, <3>1, <3>2
  <2>2. ASSUME NEW o \in S, Exists(o), TypeRow(o).typelem # 0
        PROVE  TypeRow(o).typelem \in elems
    <3>1. PICK t \in PgType : t.oid = o
      BY <2>2 DEF Exists
    <3>2. TypeRow(o) = t
      BY <3>1, RowIsTypeRow
    <3>3. Exists(t.typelem)
      BY <2>2, <3>2, TypesAssumption
    <3> QED BY <2>2, <3>1, <3>2, <3>3
  <2> QED BY <2>1, <2>2
<1>5. \A o \in S : Child[o] = {a.atttypid : a \in Columns(o)}
                               \cup IF Exists(o) THEN {TypeRow(o).typelem} \ {0} ELSE {}
  BY MissingHasNoColumns DEF Child, ChildOf
<1>6. Descend(S) = cols \cup elems
  BY DEF Descend
<1> QED BY <1>3, <1>4, <1>5, <1>6

-----------------------------------------------------------------------------
(* A non-empty set of numbers has a least one.                              *)
LEMMA LeastNat ==
  ASSUME NEW T \in SUBSET Nat, T # {}
  PROVE  \E n \in T : \A m \in T : n <= m
<1> DEFINE R == {ss \in Nat \X Nat : ss[1] < ss[2]}
<1>1. R = OpToRel(<, Nat)
  BY DEF OpToRel
<1>2. IsWellFoundedOn(R, Nat)
  BY <1>1, NatLessThanWellFounded
<1>3. \E x \in T : \A y \in T : ~(<<y, x>> \in R)
  <2> HIDE DEF R
  <2> QED BY <1>2, WFMin
<1>4. PICK n \in T : \A y \in T : <<y, n>> \notin R
  BY <1>3
<1>5. ASSUME NEW m \in T PROVE n <= m
  <2>1. ~(m < n)
    BY <1>4
  <2> QED BY <2>1
<1> QED BY <1>5

(* A set of numbers that holds 0 and, with each one below N, the next, has  *)
(* all numbers up to N.                                                     *)
LEMMA UpTo ==
  ASSUME NEW N \in Nat, NEW G, 0 \in G, \A k \in 0..(N - 1) : k \in G => k + 1 \in G
  PROVE  0..N \subseteq G
<1> DEFINE T == (0..N) \ G
<1>1. CASE T = {}
  BY <1>1
<1>2. CASE T # {}
  <2>1. T \in SUBSET Nat
    OBVIOUS
  <2>2. PICK n \in T : \A m \in T : n <= m
    BY <1>2, <2>1, LeastNat
  <2>3. n # 0 /\ n - 1 \in 0..(N - 1)
    BY <2>2
  <2>4. n - 1 \in G
    BY <2>2, <2>3
  <2>5. (n - 1) + 1 = n
    BY <2>2
  <2> QED BY <2>2, <2>3, <2>4, <2>5
<1> QED BY <1>1, <1>2

(* The rounds of the recursive statement.                                   *)
Rounds(S, g) ==
  g = [n \in 0..Cardinality(OID) |-> IF n = 0 THEN S ELSE g[n - 1] \cup Descend(g[n - 1])]

LEMMA RoundsExist ==
  ASSUME NEW S
  PROVE  \E g : Rounds(S, g)
<1> DEFINE N == Cardinality(OID)
<1>0. N \in Nat
  BY FS_CardinalityType, TypesAssumption
<1> HIDE DEF N
<1> DEFINE Upto(n, g) == g = [k \in 0..n |-> IF k = 0 THEN S ELSE g[k - 1] \cup Descend(g[k - 1])]
<1> DEFINE G == {n \in Nat : \E g : Upto(n, g)}
<1>1. 0 \in G
  <2> DEFINE g == [k \in 0..0 |-> S]
  <2>1. Upto(0, g)
    <3>1. \A k \in 0..0 : k = 0
      OBVIOUS
    <3> QED BY <3>1
  <2> HIDE DEF Upto
  <2> QED BY <2>1
<1>2. ASSUME NEW n \in 0..(N - 1), n \in G PROVE n + 1 \in G
  <2>1. PICK g : Upto(n, g)
    BY <1>2
  <2> DEFINE h == [k \in 0..(n + 1) |-> IF k = n + 1 THEN g[n] \cup Descend(g[n]) ELSE g[k]]
  <2>2. n \in Nat /\ n + 1 \in Nat
    BY <1>0
  <2>3. \A k \in 0..n : h[k] = g[k]
    BY <2>2
  <2>4. \A k \in 0..(n + 1) : h[k] = IF k = 0 THEN S ELSE h[k - 1] \cup Descend(h[k - 1])
    <3> SUFFICES ASSUME NEW k \in 0..(n + 1)
                 PROVE  h[k] = IF k = 0 THEN S ELSE h[k - 1] \cup Descend(h[k - 1])
      OBVIOUS
    <3>1. CASE k = n + 1
      <4>1. h[k] = g[n] \cup Descend(g[n])
        BY <3>1
      <4>2. h[k - 1] = g[n] /\ k # 0
        BY <2>2, <2>3, <3>1
      <4> HIDE DEF h
      <4> QED BY <4>1, <4>2
    <3>2. CASE k \in 0..n /\ k # 0
      <4>1. h[k] = g[k] /\ h[k - 1] = g[k - 1]
        BY <2>2, <2>3, <3>2
      <4>2. g[k] = g[k - 1] \cup Descend(g[k - 1])
        BY <2>1, <3>2
      <4> HIDE DEF h
      <4> QED BY <3>2, <4>1, <4>2
    <3>3. CASE k = 0
      <4>1. h[0] = g[0]
        BY <2>2, <2>3
      <4>2. g[0] = S
        BY <2>1, <2>2
      <4> QED BY <3>3, <4>1, <4>2
    <3> QED BY <2>2, <3>1, <3>2, <3>3
  <2>5. Upto(n + 1, h)
    <3>1. h = [k \in 0..(n + 1) |-> h[k]]
      OBVIOUS
    <3> HIDE DEF h
    <3> QED BY <2>4, <3>1
  <2> HIDE DEF h, Upto
  <2> QED BY <2>2, <2>5
<1>3. N \in G
  <2> HIDE DEF G
  <2>1. 0..N \subseteq G
    BY <1>0, <1>1, <1>2, UpTo
  <2> QED BY <1>0, <2>1
<1>4. \E g : Upto(N, g)
  BY <1>3
<1> QED BY <1>4 DEF Rounds, N

(* The fixed number of rounds is enough: each round either adds an OID or   *)
(* is the last that could.                                                  *)
LEMMA RoundsReachEnd ==
  ASSUME NEW S \in SUBSET OID, NEW g, Rounds(S, g)
  PROVE  LET last == g[Cardinality(OID)]
         IN /\ S \subseteq last /\ last \subseteq OID
            /\ \A o \in last : Child[o] \subseteq last
            /\ \A C \in SUBSET OID : S \subseteq C /\ (\A o \in C : Child[o] \subseteq C) => last \subseteq C
<1> DEFINE N == Cardinality(OID)
<1>0. N \in Nat /\ IsFiniteSet(OID)
  BY FS_CardinalityType, TypesAssumption
<1>1. g[0] = S /\ \A n \in 1..N : g[n] = g[n - 1] \cup Descend(g[n - 1])
  <2> DEFINE r == [n \in 0..N |-> IF n = 0 THEN S ELSE g[n - 1] \cup Descend(g[n - 1])]
  <2>1. r[0] = S /\ \A n \in 1..N : r[n] = g[n - 1] \cup Descend(g[n - 1])
    BY <1>0
  <2>2. g = r
    BY DEF Rounds
  <2> HIDE DEF r
  <2> QED BY <2>1, <2>2
<1>2. \A n \in 0..(N - 1) : g[n + 1] = g[n] \cup Descend(g[n])
  <2> TAKE n \in 0..(N - 1)
  <2>1. n + 1 \in 1..N /\ (n + 1) - 1 = n
    BY <1>0
  <2> QED BY <1>1, <2>1
<1> HIDE DEF N
<1>3. \A C \in SUBSET OID : S \subseteq C /\ (\A o \in C : Child[o] \subseteq C) =>
        \A n \in 0..N : g[n] \subseteq C
  <2> SUFFICES ASSUME NEW C \in SUBSET OID, S \subseteq C, \A o \in C : Child[o] \subseteq C
               PROVE  \A n \in 0..N : g[n] \subseteq C
    OBVIOUS
  <2> DEFINE G == {n \in Nat : g[n] \subseteq C}
  <2>1. 0 \in G
    BY <1>1
  <2>2. ASSUME NEW k \in 0..(N - 1), k \in G PROVE k + 1 \in G
    <3>1. g[k] \in SUBSET OID /\ g[k] \subseteq C /\ k + 1 \in Nat
      BY <2>2
    <3>2. Descend(g[k]) \subseteq C
      BY <3>1, DescendIsChild
    <3> QED BY <1>2, <3>1, <3>2
  <2> HIDE DEF G
  <2>3. 0..N \subseteq G
    BY <1>0, <2>1, <2>2, UpTo
  <2> QED BY <2>3 DEF G
<1>4. \A n \in 0..N : g[n] \subseteq OID
  <2>1. OID \in SUBSET OID /\ \A o \in OID : Child[o] \subseteq OID
    BY ChildExists
  <2> QED BY <1>3, <2>1
<1>5. \A n \in 0..N : S \subseteq g[n]
  <2> DEFINE G == {n \in Nat : S \subseteq g[n]}
  <2>1. 0 \in G
    BY <1>1
  <2>2. ASSUME NEW k \in 0..(N - 1), k \in G PROVE k + 1 \in G
    BY <1>2, <2>2
  <2> HIDE DEF G
  <2>3. 0..N \subseteq G
    BY <1>0, <2>1, <2>2, UpTo
  <2> QED BY <2>3 DEF G
<1> DEFINE Still(n) == Descend(g[n]) \subseteq g[n]
<1>6. \A n \in 0..N : (\E k \in 0..n : Still(k)) => Still(n)
  <2> DEFINE G == {n \in Nat : (\E k \in 0..n : Still(k)) => Still(n)}
  <2>1. 0 \in G
    <3>1. \A k \in 0..0 : k = 0
      OBVIOUS
    <3> HIDE DEF Still
    <3> QED BY <3>1
  <2>2. ASSUME NEW n \in 0..(N - 1), n \in G PROVE n + 1 \in G
    <3>1. n \in Nat /\ n + 1 \in Nat
      BY <1>0
    <3>2. Still(n) => g[n + 1] = g[n]
      BY <1>2
    <3>3. Still(n) => Still(n + 1)
      <4>1. ASSUME g[n + 1] = g[n] PROVE Still(n) <=> Still(n + 1)
        BY <4>1
      <4> QED BY <3>2, <4>1
    <3> HIDE DEF Still
    <3>4. \A k \in 0..(n + 1) : k \in 0..n \/ k = n + 1
      BY <3>1
    <3> QED BY <2>2, <3>1, <3>3, <3>4
  <2> HIDE DEF G, Still
  <2>3. 0..N \subseteq G
    BY <1>0, <2>1, <2>2, UpTo
  <2> QED BY <2>3 DEF G
<1>7. Still(N)
  <2> SUFFICES ASSUME ~Still(N) PROVE FALSE
    OBVIOUS
  <2> DEFINE G == {n \in Nat : n <= N => Cardinality(g[n]) >= n}
  <2>0. \A n \in 0..N : IsFiniteSet(g[n]) /\ Cardinality(g[n]) \in Nat
    BY <1>0, <1>4, FS_Subset, FS_CardinalityType
  <2>1. 0 \in G
    BY <1>0, <2>0
  <2>2. ASSUME NEW n \in 0..(N - 1), n \in G PROVE n + 1 \in G
    <3>1. n \in 0..N /\ n + 1 \in 0..N /\ n + 1 \in Nat /\ n <= N
      BY <1>0
    <3>2. ~Still(n)
      <4> HIDE DEF Still
      <4>1. n \in 0..N /\ N \in 0..N
        BY <1>0
      <4> QED BY <1>0, <1>6, <4>1
    <3>3. PICK x : x \in Descend(g[n]) /\ x \notin g[n]
      BY <3>2
    <3>4. g[n] \cup {x} \subseteq g[n + 1]
      BY <1>2, <3>3
    <3>5. IsFiniteSet(g[n] \cup {x}) /\ Cardinality(g[n] \cup {x}) = Cardinality(g[n]) + 1
      BY <2>0, <3>1, <3>3, FS_AddElement
    <3>6. Cardinality(g[n] \cup {x}) <= Cardinality(g[n + 1])
      BY <2>0, <3>1, <3>4, FS_Subset
    <3>7. Cardinality(g[n]) >= n
      BY <2>2, <3>1
    <3> QED BY <2>0, <3>1, <3>5, <3>6, <3>7
  <2>3. 0..N \subseteq G
    <3> HIDE DEF G
    <3> QED BY <1>0, <2>1, <2>2, UpTo
  <2>4. N \in 0..N /\ Cardinality(g[N]) >= N
    BY <1>0, <2>3
  <2>5. Cardinality(g[N]) <= N /\ (N = Cardinality(g[N]) => OID = g[N])
    BY <1>0, <1>4, <2>4, FS_Subset DEF N
  <2>6. g[N] = OID
    BY <1>0, <2>0, <2>4, <2>5
  <2>7. Descend(OID) \subseteq OID
    BY DescendIsChild, ChildExists
  <2> QED BY <2>6, <2>7
<1>8. N \in 0..N
  BY <1>0
<1>9. \A o \in g[N] : Child[o] \subseteq g[N]
  <2>1. Descend(g[N]) = UNION {Child[o] : o \in g[N]}
    BY <1>4, <1>8, DescendIsChild
  <2> QED BY <1>7, <2>1
<1> QED BY <1>3, <1>4, <1>5, <1>8, <1>9 DEF N

-----------------------------------------------------------------------------
TFP == INSTANCE TypeFetcher_proofs WITH
  pc <- Pass, cached <- Cached, holes <- Placeholders, rows <- ToBuild

(* Postgres catalogs are what TypeFetcher asks of a catalog.                *)
LEMMA AbstractKinds == TFP!KindAssumption
<1>1. \A o \in OID : KindOf(o) \in TFP!Kinds
  BY DEF KindOf, TFP!Kinds
<1> QED BY <1>1 DEF TFP!KindAssumption, Kind

LEMMA AbstractChildren == TFP!ChildAssumption
<1>1. Child \in [OID -> SUBSET OID]
  <2>1. \A o \in OID : ChildOf(o) \subseteq OID
    BY ChildExists DEF Child
  <2> QED BY <2>1 DEF Child
<1>2. \A o \in OID : \A c \in Child[o] : Kind[c] # "missing"
  BY ChildExists, KindOfKnown
<1>3. ASSUME NEW o \in OID, Kind[o] \in {"enum", "missing"} PROVE Child[o] = {}
  <2>1. CASE ~Exists(o)
    BY <2>1, ChildExists
  <2>2. CASE Exists(o)
    <3>1. PICK t \in PgType : t.oid = o
      BY <2>2 DEF Exists
    <3>2. o \notin Known /\ Kind[o] = "enum"
      BY <1>3, <2>2, KindOfKnown
    <3>3. t.typtype = "e"
      BY <3>1, <3>2, KindOfRow
    <3> QED BY <3>1, <3>3, ChildOfRow
  <2> QED BY <2>1, <2>2
<1> QED BY <1>1, <1>2, <1>3 DEF TFP!ChildAssumption

LEMMA AbstractRequests == TFP!RequestAssumption
BY RequestAssumption DEF TFP!RequestAssumption

(* The recursive statement returns the descendants of TypeFetcher.          *)
LEMMA DescendantsFound ==
  ASSUME NEW S \in Request
  PROVE  {r.oid : r \in DescendantRows[S]} = TFP!FindDescendantOIDs[S]
<1> DEFINE g == CHOOSE g : Rounds(S, g)
<1> DEFINE last == g[Cardinality(OID)]
<1>1. Rounds(S, g)
  BY RoundsExist
<1>2. DescendantRows[S] = {[oid |-> o] : o \in last}
  BY DEF DescendantRows, Rounds
<1>3. S \in SUBSET OID
  BY RequestAssumption
<1> HIDE DEF g
<1>4. /\ S \subseteq last /\ last \subseteq OID
      /\ \A o \in last : Child[o] \subseteq last
      /\ \A C \in SUBSET OID : S \subseteq C /\ (\A o \in C : Child[o] \subseteq C) => last \subseteq C
  BY <1>1, <1>3, RoundsReachEnd
<1> HIDE DEF last
<1>5. {r.oid : r \in DescendantRows[S]} = last
  <2>1. \A o \in last : [oid |-> o] \in DescendantRows[S] /\ [oid |-> o].oid = o
    BY <1>2
  <2>2. \A r \in DescendantRows[S] : r.oid \in last
    BY <1>2
  <2> QED BY <2>1, <2>2
<1>6. TFP!FindDescendantOIDs[S] = {o \in OID : \A C \in SUBSET OID :
         S \subseteq C /\ (\A p \in C : Child[p] \subseteq C) => o \in C}
  BY DEF TFP!FindDescendantOIDs, TFP!Closed
<1> QED BY <1>4, <1>5, <1>6

-----------------------------------------------------------------------------
(* With keys that differ, every place of an array_agg has its element.      *)
LEMMA RanksFill ==
  ASSUME NEW S, IsFiniteSet(S), NEW k \in [S -> Int], \A a, b \in S : k[a] = k[b] => a = b,
         NEW below, \A a \in S : below[a] \subseteq S /\ \A b \in S : b \in below[a] <=> k[b] < k[a],
         NEW r, \A a \in S : r[a] = Cardinality(below[a])
  PROVE  /\ Cardinality(S) \in Nat
         /\ \A a \in S : r[a] + 1 \in 1..Cardinality(S)
         /\ \A a, b \in S : k[a] < k[b] => r[a] < r[b]
         /\ \A a, b \in S : r[a] = r[b] => a = b
         /\ \A i \in 1..Cardinality(S) : \E a \in S : r[a] = i - 1
<1> DEFINE rank(a) == Cardinality(below[a])
<1> DEFINE N == Cardinality(S)
<1>0. N \in Nat
  BY FS_CardinalityType
<1>1. \A a \in S : IsFiniteSet(below[a]) /\ rank(a) \in Nat
  <2> TAKE a \in S
  <2>1. below[a] \in SUBSET S
    OBVIOUS
  <2> QED BY <2>1, FS_Subset, FS_CardinalityType
<1>2. ASSUME NEW a \in S, NEW b, IsFiniteSet(b), below[a] \subseteq b, a \in b
      PROVE  rank(a) < Cardinality(b)
  <2>1. a \notin below[a]
    OBVIOUS
  <2>2. below[a] \cup {a} \subseteq b
    BY <1>2
  <2>3. Cardinality(below[a] \cup {a}) = rank(a) + 1
    BY <1>1, <2>1, FS_AddElement
  <2>4. Cardinality(below[a] \cup {a}) <= Cardinality(b)
    BY <1>2, <2>2, FS_Subset
  <2>5. Cardinality(b) \in Nat
    BY <1>2, FS_CardinalityType
  <2> QED BY <1>1, <2>3, <2>4, <2>5
<1>3. ASSUME NEW a \in S, NEW b \in S, k[a] < k[b] PROVE rank(a) < rank(b)
  <2>1. below[a] \subseteq below[b] /\ a \in below[b]
    <3>1. k[a] \in Int /\ k[b] \in Int /\ \A c \in S : k[c] \in Int
      OBVIOUS
    <3> QED BY <1>3, <3>1
  <2> QED BY <1>1, <1>2, <2>1
<1>4. ASSUME NEW a \in S PROVE rank(a) < N
  <2>1. below[a] \subseteq S
    OBVIOUS
  <2> QED BY <1>2, <2>1
<1> DEFINE f == [a \in S |-> rank(a) + 1]
<1>5. \A a \in S : f[a] = rank(a) + 1
  OBVIOUS
<1> HIDE DEF rank
<1>6. \A a \in S : f[a] \in 1..N
  <2> SUFFICES ASSUME NEW a \in S PROVE rank(a) + 1 \in 1..N
    BY <1>5
  <2>1. rank(a) \in Nat /\ rank(a) < N
    BY <1>1, <1>4
  <2> QED BY <1>0, <2>1
<1>7. \A a, b \in S : k[a] < k[b] => f[a] < f[b]
  <2> SUFFICES ASSUME NEW a \in S, NEW b \in S, k[a] < k[b] PROVE rank(a) + 1 < rank(b) + 1
    BY <1>5
  <2>1. rank(a) \in Nat /\ rank(b) \in Nat /\ rank(a) < rank(b)
    BY <1>1, <1>3
  <2> QED BY <2>1
<1> HIDE DEF f
<1>8. \A a, b \in S : f[a] = f[b] => a = b
  <2> SUFFICES ASSUME NEW a \in S, NEW b \in S, f[a] = f[b] PROVE a = b
    OBVIOUS
  <2>1. ~(k[a] < k[b]) /\ ~(k[b] < k[a])
    BY <1>0, <1>6, <1>7
  <2>2. k[a] \in Int /\ k[b] \in Int
    OBVIOUS
  <2> QED BY <2>1, <2>2
<1>9. f \in Injection(S, 1..N)
  <2>1. f = [a \in S |-> f[a]]
    BY DEF f
  <2> QED BY <1>6, <1>8, <2>1 DEF Injection, IsInjective
<1>10. IsFiniteSet(1..N) /\ Cardinality(1..N) = N
  BY <1>0, FS_Interval
<1>11. f \in Surjection(S, 1..N)
  <2> HIDE DEF N
  <2>1. Cardinality(S) = Cardinality(1..N)
    BY <1>10 DEF N
  <2> QED BY <1>9, <1>10, <2>1, FS_Injection
<1>12. \A i \in 1..N : \E a \in S : f[a] = i
  BY <1>11 DEF Surjection
<1>13. /\ \A a \in S : rank(a) + 1 \in 1..N
       /\ \A a, b \in S : rank(a) = rank(b) => a = b
       /\ \A i \in 1..N : \E a \in S : rank(a) = i - 1
  <2>1. \A a, b \in S : rank(a) = rank(b) => f[a] = f[b]
    BY <1>5
  <2>2. ASSUME NEW i \in 1..N PROVE \E a \in S : rank(a) = i - 1
    <3>1. PICK a \in S : f[a] = i
      BY <1>12
    <3>2. rank(a) \in Nat /\ rank(a) + 1 = i
      BY <1>1, <1>5, <3>1
    <3>3. rank(a) = i - 1
      BY <1>0, <3>2
    <3> QED BY <3>3
  <2> QED BY <1>5, <1>6, <1>8, <2>1, <2>2
<1>14. \A a \in S : r[a] = rank(a)
  BY DEF rank
<1> QED BY <1>0, <1>3, <1>13, <1>14

-----------------------------------------------------------------------------
(* The column of o at place i, and the row that describes o.                *)
ColCount(o)  == Cardinality(Columns(o))
Rank(o, a)   == Cardinality({b \in Columns(o) : b.attnum < a.attnum})
Column(o, i) == CHOOSE a \in Columns(o) : Rank(o, a) = i - 1
CompositeRow(o) ==
  [oid |-> o, cols |-> [i \in 1..ColCount(o) |->
                          [name |-> Column(o, i).attname, oid |-> Column(o, i).atttypid]]]
EnumRow(o)  == [oid |-> o, labels |-> EnumLabels(o)]
ArrayRow(o) == [oid |-> o, elem |-> TypeRow(o).typelem]
OIDName(o)  == [oid |-> o, typtype |-> TypeRow(o).typtype]
OfKind(S, k) == {o \in S : Kind[o] = k}

(* Places and columns correspond.                                           *)
LEMMA ColumnsInPlace ==
  ASSUME NEW o \in OID
  PROVE  /\ ColCount(o) \in Nat
         /\ \A i \in 1..ColCount(o) : Column(o, i) \in Columns(o) /\ Rank(o, Column(o, i)) = i - 1
         /\ \A a \in Columns(o) : Rank(o, a) + 1 \in 1..ColCount(o) /\ Column(o, Rank(o, a) + 1) = a
<1> DEFINE S == Columns(o)
<1> DEFINE k == [a \in S |-> a.attnum]
<1>1. IsFiniteSet(S)
  <2>1. S \in SUBSET PgAttribute
    BY DEF Columns
  <2> QED BY <2>1, FS_Subset, PartsAssumption
<1>2. k \in [S -> Int]
  BY PartsAssumption DEF Columns
<1>3. ASSUME NEW a \in S, NEW b \in S PROVE a.attrelid = b.attrelid
  <2>1. CASE ~Exists(o)
    BY <2>1, MissingHasNoColumns
  <2>2. CASE Exists(o)
    <3>1. PICK t \in PgType : t.oid = o
      BY <2>2 DEF Exists
    <3> QED BY <3>1, ColumnsAreTableCols DEF TableCols
  <2> QED BY <2>1, <2>2
<1>4. \A a, b \in S : k[a] = k[b] => a = b
  BY <1>3, PartsAssumption DEF Columns
<1> DEFINE below == [a \in S |-> {b \in S : b.attnum < a.attnum}]
<1> DEFINE r == [a \in S |-> Rank(o, a)]
<1>5. \A a \in S : /\ below[a] \subseteq S /\ \A b \in S : b \in below[a] <=> k[b] < k[a]
                   /\ r[a] = Cardinality(below[a])
  BY DEF Rank
<1>6. /\ Cardinality(S) \in Nat
      /\ \A a \in S : r[a] + 1 \in 1..Cardinality(S)
      /\ \A a, b \in S : r[a] = r[b] => a = b
      /\ \A i \in 1..Cardinality(S) : \E a \in S : r[a] = i - 1
  <2> HIDE DEF S, k, r, below
  <2> QED BY <1>1, <1>2, <1>4, <1>5, RanksFill
<1>7. /\ ColCount(o) \in Nat
      /\ \A a \in S : Rank(o, a) + 1 \in 1..ColCount(o)
      /\ \A a, b \in S : Rank(o, a) = Rank(o, b) => a = b
      /\ \A i \in 1..ColCount(o) : \E a \in S : Rank(o, a) = i - 1
  BY <1>6 DEF ColCount
<1>8. \A i \in 1..ColCount(o) : Column(o, i) \in S /\ Rank(o, Column(o, i)) = i - 1
  BY <1>7 DEF Column
<1>9. ASSUME NEW a \in S PROVE Column(o, Rank(o, a) + 1) = a
  <2>1. Rank(o, a) + 1 \in 1..ColCount(o)
    BY <1>7
  <2>2. Rank(o, a) \in Int
    <3>1. IsFiniteSet({b \in Columns(o) : b.attnum < a.attnum})
      <4>1. {b \in Columns(o) : b.attnum < a.attnum} \in SUBSET S
        OBVIOUS
      <4> QED BY <1>1, <4>1, FS_Subset
    <3> QED BY <3>1, FS_CardinalityType DEF Rank
  <2>3. Rank(o, Column(o, Rank(o, a) + 1)) = Rank(o, a)
    BY <1>8, <2>1, <2>2
  <2> QED BY <1>7, <1>8, <2>1, <2>3
<1> QED BY <1>7, <1>8, <1>9

(* The statements, on types that are not well-known, return the types of    *)
(* their kind and describe each.                                            *)
LEMMA EnumAnswer ==
  ASSUME NEW S \in SUBSET OID, S \cap Known = {}
  PROVE  EnumRows(S) = {EnumRow(o) : o \in OfKind(S, "enum")}
<1>1. ASSUME NEW t \in PgType, t.oid \in S
      PROVE  t.typisdefined /\ t.typtype = "e" /\ LabelsOf(t.oid) # {} <=> Kind[t.oid] = "enum"
  BY <1>1, KindOfRow, TypesAssumption
<1>2. ASSUME NEW o \in OfKind(S, "enum") PROVE \E t \in PgType : t.oid = o
  BY KindOfKnown DEF OfKind, Exists
<1> QED BY <1>1, <1>2 DEF EnumRows, EnumRow, OfKind

LEMMA CompositeAnswers ==
  ASSUME NEW S \in SUBSET OID, S \cap Known = {}
  PROVE  CompositeRows(S) = {CompositeRow(o) : o \in OfKind(S, "composite")}
<1>1. ASSUME NEW t \in PgType, t.oid \in S
      PROVE  /\ t.typtype = "c" /\ TableCols(t.typrelid) # {} <=> Kind[t.oid] = "composite"
             /\ t.typtype = "c" => Columns(t.oid) = TableCols(t.typrelid)
  BY <1>1, KindOfRow, ColumnsAreTableCols
<1>2. ASSUME NEW o \in OfKind(S, "composite") PROVE \E t \in PgType : t.oid = o
  BY KindOfKnown DEF OfKind, Exists
<1> DEFINE row(t) == [oid |-> t.oid,
    cols |-> Aggregate(TableCols(t.typrelid), LAMBDA a : a.attnum,
                       LAMBDA a : [name |-> a.attname, oid |-> a.atttypid])]
<1>3. ASSUME NEW t \in PgType, t.oid \in S, t.typtype = "c"
      PROVE  row(t) = CompositeRow(t.oid)
  BY <1>1, <1>3 DEF CompositeRow, ColCount, Column, Rank, Aggregate
<1>4. CompositeRows(S) = {row(t) : t \in {t \in PgType : t.oid \in S /\ t.typtype = "c" /\ TableCols(t.typrelid) # {}}}
  BY DEF CompositeRows
<1> HIDE DEF row
<1>5. ASSUME NEW r \in CompositeRows(S) PROVE \E o \in OfKind(S, "composite") : r = CompositeRow(o)
  <2>1. PICK t \in PgType : r = row(t) /\ t.oid \in S /\ t.typtype = "c" /\ TableCols(t.typrelid) # {}
    BY <1>4
  <2> QED BY <1>1, <1>3, <2>1 DEF OfKind
<1>6. ASSUME NEW o \in OfKind(S, "composite") PROVE CompositeRow(o) \in CompositeRows(S)
  <2>1. PICK t \in PgType : t.oid = o
    BY <1>2
  <2>2. t.oid \in S /\ Kind[t.oid] = "composite"
    BY <2>1 DEF OfKind
  <2>3. t.typtype = "c" /\ TableCols(t.typrelid) # {}
    BY <1>1, <2>2
  <2>4. row(t) \in CompositeRows(S)
    BY <1>4, <2>2, <2>3
  <2> QED BY <1>3, <2>1, <2>2, <2>3, <2>4
<1> QED BY <1>5, <1>6

LEMMA ArrayAnswer ==
  ASSUME NEW S \in SUBSET OID, S \cap Known = {}
  PROVE  ArrayRows(S) = {ArrayRow(o) : o \in OfKind(S, "array")}
<1>1. ASSUME NEW t \in PgType, t.oid \in S
      PROVE  /\ t.typisdefined /\ t.typtype = "b" /\ t.typelem > 0 /\ t.typlen = -1 <=> Kind[t.oid] = "array"
             /\ TypeRow(t.oid) = t
  BY <1>1, KindOfRow, RowIsTypeRow, TypesAssumption
<1>2. ASSUME NEW o \in OfKind(S, "array") PROVE \E t \in PgType : t.oid = o
  BY KindOfKnown DEF OfKind, Exists
<1> QED BY <1>1, <1>2 DEF ArrayRows, ArrayRow, OfKind

LEMMA OIDNameAnswer ==
  ASSUME NEW S \in SUBSET OID
  PROVE  OIDNameRows(S) = {OIDName(o) : o \in {p \in S : Kind[p] # "missing"}}
<1>1. \A t \in PgType : TypeRow(t.oid) = t /\ Exists(t.oid)
  BY RowIsTypeRow
<1>2. \A o \in S : Kind[o] # "missing" <=> \E t \in PgType : t.oid = o
  BY KindOfKnown DEF Exists
<1> QED BY <1>1, <1>2 DEF OIDNameRows, OIDName

-----------------------------------------------------------------------------
(* The invariant.  TypeFetcher's own one holds of the mapped state, and:    *)
(* what is read from the connection is the answer to the statement, all of  *)
(* it unless the connection broke; the rows still to be built and the types *)
(* built from the others are the composites of the call; and every type in  *)
(* the cache is what the catalog says of it.                                *)
ColumnType == [name : {a.attname : a \in PgAttribute}, type : OID, hole : BOOLEAN]

Described(o) ==
  /\ cache[o].kind = Kind[o]
  /\ Kind[o] = "enum" => cache[o].labels = EnumLabels(o)
  /\ Kind[o] = "composite" =>
       /\ cache[o].cols \in [1..ColCount(o) -> ColumnType]
       /\ \A i \in 1..ColCount(o) : /\ cache[o].cols[i].name = Column(o, i).attname
                                    /\ cache[o].cols[i].type = Column(o, i).atttypid
  /\ Kind[o] = "array" => cache[o].elem = TypeRow(o).typelem

CacheDescribed == \A o \in Cached : Described(o)

Shapes ==
  /\ pc \in Queries \cup {"returned", "build", "resolve"}
  /\ err \in {"none", "query", "noElem", "placeholder", "unclassified"}
  /\ pc \in {"returned", "build"} => err = "none"
  /\ pc = "descendants" => err \in {"none", "query"} /\ ~(pending \subseteq Cached)
  /\ pending \in Request /\ req \in Request
  /\ uncached \subseteq OID /\ uncached \cap Known = {}
  /\ pc \in {"enums", "composites", "arrays", "unknowns"} => uncached \cap Cached = {}

Reading ==
  /\ stream = [open |-> stream.open, left |-> stream.left, broken |-> stream.broken]
  /\ stream.open \in BOOLEAN /\ stream.broken \in BOOLEAN
  /\ stream.open \/ stream = NoRows
  /\ ~Running => ~stream.open
  /\ stream.open /\ ~stream.broken => stream.left \cup items = Statement

Building ==
  pc = "build" =>
    /\ \A r \in items : /\ r.oid \in uncached \ Cached /\ Kind[r.oid] = "composite"
                        /\ r = CompositeRow(r.oid)
    /\ \A o \in uncached : Kind[o] = "composite" => o \in OIDs \cup Cached
    /\ \A o \in uncached \cap Cached : Kind[o] = "composite"

Missed == err = "unclassified" => \E o \in req : ~Exists(o)

PInv == TFP!IInv /\ Shapes /\ Reading /\ Building /\ CacheDescribed /\ Missed

-----------------------------------------------------------------------------
(* The items of an answer, when there is one for each OID of a set.         *)
LEMMA ItemsAre ==
  ASSUME NEW S, NEW R, \A o \in S : R[o].oid = o, items = {R[o] : o \in S}
  PROVE  OIDs = S
<1>1. \A o \in S : R[o] \in items /\ \A r \in items : r.oid = o => r = R[o]
  OBVIOUS
<1>2. OIDs = S
  <2>1. ASSUME NEW o \in S PROVE o \in OIDs
    BY <1>1 DEF OIDs
  <2>2. ASSUME NEW o \in OIDs PROVE o \in S
    BY DEF OIDs
  <2> QED BY <2>1, <2>2
<1> QED BY <1>2

(* An answer that was read to its end without an error is the whole answer. *)
LEMMA Whole ==
  ASSUME PInv, NEW q \in Queries, Answered(q)
  PROVE  pc = q /\ err = "none" /\ items = Statement /\ stream' = NoRows
BY DEF PInv, Reading, Answered

LEMMA DescendantItems ==
  ASSUME PInv, Answered("descendants")
  PROVE  OIDs = TFP!FindDescendantOIDs[pending]
<1>1. pc = "descendants" /\ items = Statement
  BY Whole DEF Queries
<1>2. items = DescendantRows[pending] /\ pending \in Request
  BY <1>1 DEF Statement, PInv, Shapes
<1> QED BY <1>2, DescendantsFound DEF OIDs

LEMMA EnumItems ==
  ASSUME PInv, Answered("enums")
  PROVE  OIDs = OfKind(uncached, "enum") /\ \A o \in OIDs : RowOf(o) = EnumRow(o)
<1>1. pc = "enums" /\ items = Statement
  BY Whole DEF Queries
<1>2. items = {EnumRow(o) : o \in OfKind(uncached, "enum")}
  BY <1>1, EnumAnswer DEF Statement, PInv, Shapes
<1> DEFINE S == OfKind(uncached, "enum")
<1> DEFINE R == [o \in S |-> EnumRow(o)]
<1>3. \A o \in S : R[o] = EnumRow(o) /\ R[o].oid = o
  BY DEF EnumRow
<1>4. items = {R[o] : o \in S}
  BY <1>2
<1> HIDE DEF R, S
<1>5. OIDs = S
  BY <1>3, <1>4, ItemsAre
<1>6. ASSUME NEW o \in S PROVE RowOf(o) = R[o]
  <2>1. R[o] \in items /\ \A r \in items : r.oid = o => r = R[o]
    BY <1>3, <1>4
  <2> QED BY <1>3, <2>1 DEF RowOf
<1> QED BY <1>3, <1>5, <1>6 DEF S

LEMMA ArrayItems ==
  ASSUME PInv, Answered("arrays")
  PROVE  /\ OIDs = OfKind(uncached, "array") /\ \A o \in OIDs : RowOf(o) = ArrayRow(o)
         /\ items = {ArrayRow(o) : o \in OIDs}
<1>1. pc = "arrays" /\ items = Statement
  BY Whole DEF Queries
<1>2. items = {ArrayRow(o) : o \in OfKind(uncached, "array")}
  BY <1>1, ArrayAnswer DEF Statement, PInv, Shapes
<1> DEFINE S == OfKind(uncached, "array")
<1> DEFINE R == [o \in S |-> ArrayRow(o)]
<1>3. \A o \in S : R[o] = ArrayRow(o) /\ R[o].oid = o
  BY DEF ArrayRow
<1>4. items = {R[o] : o \in S}
  BY <1>2
<1> HIDE DEF R, S
<1>5. OIDs = S
  BY <1>3, <1>4, ItemsAre
<1>6. ASSUME NEW o \in S PROVE RowOf(o) = R[o]
  <2>1. R[o] \in items /\ \A r \in items : r.oid = o => r = R[o]
    BY <1>3, <1>4
  <2> QED BY <1>3, <2>1 DEF RowOf
<1> QED BY <1>2, <1>3, <1>5, <1>6 DEF S

LEMMA UnknownItems ==
  ASSUME PInv, Answered("unknowns")
  PROVE  OIDs = {o \in uncached : Kind[o] # "missing"}
<1>1. pc = "unknowns" /\ items = Statement
  BY Whole DEF Queries
<1>2. items = {OIDName(o) : o \in {p \in uncached : Kind[p] # "missing"}}
  BY <1>1, OIDNameAnswer DEF Statement, PInv, Shapes
<1> DEFINE S == {p \in uncached : Kind[p] # "missing"}
<1> DEFINE R == [o \in S |-> OIDName(o)]
<1>3. \A o \in S : R[o] = OIDName(o) /\ R[o].oid = o
  BY DEF OIDName
<1>4. items = {R[o] : o \in S}
  BY <1>2
<1> HIDE DEF R, S
<1>5. OIDs = S
  BY <1>3, <1>4, ItemsAre
<1> QED BY <1>5 DEF S

LEMMA CompositeItems ==
  ASSUME PInv, Answered("composites")
  PROVE  OIDs = OfKind(uncached, "composite") /\ \A r \in items : r = CompositeRow(r.oid)
<1>1. pc = "composites" /\ items = Statement
  BY Whole DEF Queries
<1>2. items = {CompositeRow(o) : o \in OfKind(uncached, "composite")}
  BY <1>1, CompositeAnswers DEF Statement, PInv, Shapes
<1> DEFINE S == OfKind(uncached, "composite")
<1> DEFINE R == [o \in S |-> CompositeRow(o)]
<1>3. \A o \in S : R[o] = CompositeRow(o) /\ R[o].oid = o
  BY DEF CompositeRow
<1>4. items = {R[o] : o \in S}
  BY <1>2
<1> HIDE DEF R, S
<1>5. OIDs = S
  BY <1>3, <1>4, ItemsAre
<1>6. \A r \in items : r = CompositeRow(r.oid)
  BY <1>3, <1>4
<1> QED BY <1>5, <1>6 DEF S

-----------------------------------------------------------------------------
(* What a write to the cache leaves in it.                                  *)
LEMMA PutIs ==
  ASSUME NEW new, cache' = Put(new)
  PROVE  /\ Cached' = Cached \cup DOMAIN new
         /\ \A o \in DOMAIN new : cache'[o] = new[o]
         /\ \A o \in Cached \ DOMAIN new : cache'[o] = cache[o]
BY DEF Put, Cached

(* Types that are no composites bring no placeholders.                      *)
LEMMA SamePlaceholders ==
  ASSUME NEW N, Cached' = Cached \cup N, N \cap Cached = {},
         \A o \in Cached : cache'[o] = cache[o], \A o \in N : cache'[o].kind # "composite"
  PROVE  Placeholders' = Placeholders
<1>1. \A o \in Cached : cache[o].kind = cache'[o].kind /\ Holes(o)' = Holes(o)
  BY DEF Holes
<1>2. ASSUME NEW p PROVE p \in Placeholders' <=> p \in Placeholders
  BY <1>1 DEF Placeholders
<1> QED BY <1>2

-----------------------------------------------------------------------------
(* Each step of FindTypesByOIDs is a step of TypeFetcher, or none.          *)

(* A step that leaves the cache and the passes alone is none.               *)
LEMMA Stutters ==
  ASSUME Pass' = Pass, ToBuild' = ToBuild, UNCHANGED <<cache, req, types, uncached>>
  PROVE  UNCHANGED TFP!vars
<1>1. Cached' = Cached /\ Placeholders' = Placeholders
  BY DEF Cached, Placeholders, Holes
<1> QED BY <1>1 DEF TFP!vars

LEMMA ReadingStutters ==
  ASSUME PInv, Query \/ ScanRow \/ ConnBreaks \/ GaveUp \/ \E oids \in Request : SlowPath(oids)
  PROVE  UNCHANGED TFP!vars
<1>1. UNCHANGED <<cache, req, types, uncached>>
  BY DEF Query, ScanRow, ConnBreaks, GaveUp, SlowPath, vars
<1>2. Pass' = Pass
  BY DEF Query, ScanRow, ConnBreaks, GaveUp, SlowPath, vars, Pass, PInv, Shapes
<1>3. ToBuild' = ToBuild
  BY DEF Query, ScanRow, ConnBreaks, GaveUp, SlowPath, vars, ToBuild, Running, Queries, OIDs
<1> QED BY <1>1, <1>2, <1>3, Stutters

LEMMA FastPathSimulated ==
  ASSUME PInv, NEW oids \in Request, FastPath(oids)
  PROVE  TFP!FastPath(oids)
<1>1. pc = "returned" /\ err = "none" /\ UNCHANGED <<pc, err, cache, uncached, items>>
  BY DEF FastPath, PInv, Shapes
<1>2. Pass = "returned" /\ Pass' = Pass /\ ToBuild' = ToBuild
  BY <1>1 DEF Pass, ToBuild
<1>3. Cached' = Cached /\ Placeholders' = Placeholders
  BY <1>1 DEF Cached, Placeholders, Holes
<1> QED BY <1>1, <1>2, <1>3 DEF TFP!FastPath, FastPath

LEMMA LookupSimulated ==
  ASSUME PInv, Lookup
  PROVE  pending \in Request /\ TFP!Lookup(pending)
<1>1. Answered("descendants")
  BY DEF Lookup
<1>2. OIDs = TFP!FindDescendantOIDs[pending]
  BY <1>1, DescendantItems
<1>3. /\ pc = "descendants" /\ err = "none" /\ pc' = "enums" /\ err' = err /\ cache' = cache
      /\ req' = pending /\ types' = OIDs \cap Cached /\ uncached' = OIDs \ Cached
  BY <1>1 DEF Lookup, Answered
<1>4. Pass = "returned" /\ Pass' = "enums" /\ ToBuild = {} /\ ToBuild' = {}
  BY <1>3 DEF Pass, ToBuild
<1>5. Cached' = Cached /\ Placeholders' = Placeholders
  BY <1>3 DEF Cached, Placeholders, Holes
<1>6. pending \in Request /\ ~(pending \subseteq Cached)
  BY <1>3 DEF PInv, Shapes
<1> QED BY <1>2, <1>3, <1>4, <1>5, <1>6 DEF TFP!Lookup

(* What AddTypes does, for new types that are no composites.                *)
LEMMA AddTypesIs ==
  ASSUME NEW new, AddTypes(new), DOMAIN new \cap Cached = {},
         \A o \in DOMAIN new : new[o].kind # "composite"
  PROVE  /\ TFP!Classify(DOMAIN new) /\ Placeholders' = Placeholders
         /\ \A o \in DOMAIN new : cache'[o] = new[o]
         /\ \A o \in Cached : cache'[o] = cache[o]
<1>1. /\ Cached' = Cached \cup DOMAIN new
      /\ \A o \in DOMAIN new : cache'[o] = new[o]
      /\ \A o \in Cached \ DOMAIN new : cache'[o] = cache[o]
  BY PutIs DEF AddTypes
<1>2. \A o \in Cached : cache'[o] = cache[o]
  BY <1>1
<1>3. Placeholders' = Placeholders
  BY <1>1, <1>2, SamePlaceholders
<1> QED BY <1>1, <1>2, <1>3 DEF AddTypes, TFP!Classify

LEMMA EnumsSimulated ==
  ASSUME PInv, FindEnumTypes
  PROVE  /\ TFP!FindEnumTypes
         /\ \A o \in Cached' \ Cached : cache'[o] = [kind |-> "enum", labels |-> EnumLabels(o)]
         /\ \A o \in Cached' \ Cached : Kind[o] = "enum"
         /\ \A o \in Cached : cache'[o] = cache[o]
<1> DEFINE new == [o \in OIDs |-> [kind |-> "enum", labels |-> RowOf(o).labels]]
<1>1. Answered("enums")
  BY DEF FindEnumTypes
<1>2. OIDs = OfKind(uncached, "enum") /\ \A o \in OIDs : RowOf(o) = EnumRow(o)
  BY <1>1, EnumItems
<1>3. /\ pc = "enums" /\ err = "none" /\ pc' = "composites" /\ err' = err /\ req' = req
      /\ AddTypes(new)
  BY <1>1 DEF FindEnumTypes, Answered
<1>4. DOMAIN new = OIDs /\ \A o \in OIDs : new[o] = [kind |-> "enum", labels |-> EnumLabels(o)]
  BY <1>2 DEF EnumRow
<1> HIDE DEF new
<1>5. OIDs \cap Cached = {}
  BY <1>2, <1>3 DEF PInv, Shapes, OfKind
<1>6. /\ TFP!Classify(OIDs) /\ Placeholders' = Placeholders
      /\ \A o \in OIDs : cache'[o] = new[o]
      /\ \A o \in Cached : cache'[o] = cache[o]
  BY <1>3, <1>4, <1>5, AddTypesIs
<1>7. /\ types' = types \cup OIDs /\ Cached' = Cached \cup OIDs /\ uncached' = uncached \ OIDs
  BY <1>6 DEF TFP!Classify
<1>8. Pass = "enums" /\ Pass' = "composites" /\ ToBuild' = OfKind(uncached, "composite")
  BY <1>2, <1>3, <1>7 DEF Pass, ToBuild, OfKind
<1>9. TFP!FindEnumTypes
  BY <1>2, <1>3, <1>6, <1>8 DEF TFP!FindEnumTypes, TFP!OfKind, OfKind
<1> QED BY <1>2, <1>4, <1>6, <1>7, <1>9 DEF OfKind

LEMMA UnknownsSimulated ==
  ASSUME PInv, FindUnknownTypes
  PROVE  /\ TFP!FindUnknownTypes
         /\ \A o \in Cached' \ Cached : cache'[o].kind = "other"
         /\ \A o \in Cached' \ Cached : Kind[o] = "other"
         /\ \A o \in Cached : cache'[o] = cache[o]
<1> DEFINE new == [o \in OIDs |-> [kind |-> "other", typtype |-> RowOf(o).typtype]]
<1>1. Answered("unknowns")
  BY DEF FindUnknownTypes
<1>2. OIDs = {o \in uncached : Kind[o] # "missing"}
  BY <1>1, UnknownItems
<1>3. /\ pc = "unknowns" /\ err = "none" /\ pc' = "resolve" /\ err' = err /\ req' = req
      /\ AddTypes(new)
  BY <1>1 DEF FindUnknownTypes, Answered
<1>4. DOMAIN new = OIDs /\ \A o \in OIDs : new[o].kind = "other"
  OBVIOUS
<1> HIDE DEF new
<1>5. OIDs \cap Cached = {}
  BY <1>2, <1>3 DEF PInv, Shapes
<1>6. /\ TFP!Classify(OIDs) /\ Placeholders' = Placeholders
      /\ \A o \in OIDs : cache'[o] = new[o]
      /\ \A o \in Cached : cache'[o] = cache[o]
  BY <1>3, <1>4, <1>5, AddTypesIs
<1>7. Cached' = Cached \cup OIDs
  BY <1>6 DEF TFP!Classify
<1>8. Pass = "unknowns" /\ Pass' = "resolve" /\ ToBuild = {} /\ ToBuild' = {}
  BY <1>3 DEF Pass, ToBuild
<1>9. TFP!FindUnknownTypes
  BY <1>2, <1>3, <1>6, <1>8 DEF TFP!FindUnknownTypes
<1>10. ASSUME NEW o \in OIDs PROVE Kind[o] = "other"
  <2>1. o \in OID /\ o \notin Known /\ Kind[o] # "missing"
    BY <1>2 DEF PInv, Shapes
  <2>2. Kind[o] \notin {"enum", "composite", "array"}
    BY <1>2, <1>8 DEF PInv, TFP!IInv, TFP!OfKind, TFP!Failures
  <2>3. Kind[o] \in TFP!Kinds
    BY <2>1, AbstractKinds DEF TFP!KindAssumption
  <2> QED BY <2>1, <2>2, <2>3, KindOfKnown DEF TFP!Kinds
<1> QED BY <1>4, <1>6, <1>7, <1>9, <1>10

(* The part of an array is its element, the parts of a composite are the    *)
(* types of its columns.                                                    *)
LEMMA ArrayChild ==
  ASSUME NEW o \in OID, Kind[o] = "array"
  PROVE  Child[o] = {TypeRow(o).typelem}
<1>1. Exists(o) /\ o \notin Known
  BY KindOfKnown
<1>2. PICK t \in PgType : t.oid = o
  BY <1>1 DEF Exists
<1>3. TypeRow(o) = t
  BY <1>2, RowIsTypeRow
<1>4. t.typtype = "b" /\ t.typelem > 0
  BY <1>1, <1>2, KindOfRow
<1>5. t.typelem # 0
  BY <1>4, TypesAssumption
<1> QED BY <1>2, <1>3, <1>4, <1>5, ChildOfRow

LEMMA CompositeChild ==
  ASSUME NEW o \in OID, Kind[o] = "composite"
  PROVE  /\ \A i \in 1..ColCount(o) : Column(o, i).atttypid \in Child[o]
         /\ \A c \in Child[o] : \E i \in 1..ColCount(o) : Column(o, i).atttypid = c
         /\ \A i \in 1..ColCount(o) : Column(o, i) \in PgAttribute
<1>1. Exists(o) /\ o \notin Known
  BY KindOfKnown
<1>2. PICK t \in PgType : t.oid = o
  BY <1>1 DEF Exists
<1>3. t.typtype = "c"
  BY <1>1, <1>2, KindOfRow
<1>4. Columns(o) = TableCols(t.typrelid) /\ Child[o] = {a.atttypid : a \in Columns(o)}
  BY <1>2, <1>3, ColumnsAreTableCols, ChildOfRow
<1>5. /\ \A i \in 1..ColCount(o) : Column(o, i) \in Columns(o)
      /\ \A a \in Columns(o) : Rank(o, a) + 1 \in 1..ColCount(o) /\ Column(o, Rank(o, a) + 1) = a
  BY ColumnsInPlace
<1>6. ASSUME NEW c \in Child[o] PROVE \E i \in 1..ColCount(o) : Column(o, i).atttypid = c
  <2>1. PICK a \in Columns(o) : a.atttypid = c
    BY <1>4
  <2> QED BY <1>5, <2>1
<1>7. \A i \in 1..ColCount(o) : Column(o, i) \in PgAttribute
  BY <1>5 DEF Columns
<1> QED BY <1>4, <1>5, <1>6, <1>7

LEMMA ArraysSimulated ==
  ASSUME PInv, FindArrayTypes
  PROVE  /\ TFP!FindArrayTypes
         /\ \A o \in Cached' \ Cached : cache'[o] = [kind |-> "array", elem |-> TypeRow(o).typelem]
         /\ \A o \in Cached' \ Cached : Kind[o] = "array"
         /\ \A o \in Cached : cache'[o] = cache[o]
<1> DEFINE new == [o \in OIDs |-> [kind |-> "array", elem |-> RowOf(o).elem]]
<1> DEFINE ok == \A r \in items : r.elem \in Cached
<1>1. Answered("arrays")
  BY DEF FindArrayTypes
<1>2. /\ OIDs = OfKind(uncached, "array") /\ \A o \in OIDs : RowOf(o) = ArrayRow(o)
      /\ items = {ArrayRow(o) : o \in OIDs}
  BY <1>1, ArrayItems
<1>3. pc = "arrays" /\ err = "none" /\ req' = req /\ OIDs \subseteq OID /\ OIDs \cap Cached = {}
  BY <1>1, <1>2 DEF FindArrayTypes, Answered, OfKind, PInv, Shapes
<1>4. \A o \in OIDs : Child[o] = {TypeRow(o).typelem}
  BY <1>2, <1>3, ArrayChild DEF OfKind
<1>5. ok <=> \A o \in OIDs : Child[o] \subseteq Cached
  <2>1. ok <=> \A o \in OIDs : ArrayRow(o).elem \in Cached
    BY <1>2
  <2>2. \A o \in OIDs : ArrayRow(o).elem = TypeRow(o).typelem
    BY DEF ArrayRow
  <2> HIDE DEF ok
  <2> QED BY <1>4, <2>1, <2>2
<1>6. ok <=> \A a \in TFP!OfKind(uncached, "array") : Child[a] \subseteq Cached
  <2> HIDE DEF ok
  <2> QED BY <1>2, <1>5 DEF OfKind, TFP!OfKind
<1>7. CASE ok
  <2>1. pc' = "unknowns" /\ err' = err /\ AddTypes(new)
    BY <1>7 DEF FindArrayTypes
  <2>2. DOMAIN new = OIDs /\ \A o \in OIDs : new[o] = [kind |-> "array", elem |-> TypeRow(o).typelem]
    BY <1>2 DEF ArrayRow
  <2> HIDE DEF new, ok
  <2>3. /\ TFP!Classify(OIDs) /\ Placeholders' = Placeholders
        /\ \A o \in OIDs : cache'[o] = new[o]
        /\ \A o \in Cached : cache'[o] = cache[o]
    BY <1>3, <2>1, <2>2, AddTypesIs
  <2>4. Cached' = Cached \cup OIDs
    BY <2>3 DEF TFP!Classify
  <2>5. Pass = "arrays" /\ Pass' = "unknowns" /\ ToBuild' = ToBuild
    BY <1>3, <2>1 DEF Pass, ToBuild
  <2>6. TFP!Classify(TFP!OfKind(uncached, "array"))
    BY <1>2, <2>3 DEF OfKind, TFP!OfKind
  <2>7. TFP!FindArrayTypes
    BY <1>3, <1>6, <1>7, <2>3, <2>5, <2>6 DEF TFP!FindArrayTypes
  <2> QED BY <1>2, <2>2, <2>3, <2>4, <2>7 DEF OfKind
<1>8. CASE ~ok
  <2>1. pc' = pc /\ err' = "noElem" /\ UNCHANGED <<cache, types, uncached>>
    BY <1>8 DEF FindArrayTypes
  <2>2. Cached' = Cached /\ Placeholders' = Placeholders
    BY <2>1 DEF Cached, Placeholders, Holes
  <2>3. Pass = "arrays" /\ Pass' = "noElem" /\ ToBuild' = ToBuild
    BY <1>3, <2>1 DEF Pass, ToBuild
  <2>4. TFP!Classify({})
    BY <2>1, <2>2 DEF TFP!Classify
  <2> HIDE DEF ok
  <2>5. TFP!FindArrayTypes
    BY <1>3, <1>6, <1>8, <2>2, <2>3, <2>4 DEF TFP!FindArrayTypes
  <2> QED BY <2>1, <2>2, <2>5
<1> QED BY <1>7, <1>8

LEMMA BuildSimulated ==
  ASSUME PInv, NEW r \in items, BuildComposite(r)
  PROVE  /\ TFP!BuildComposite(r.oid)
         /\ r.oid \in uncached \ Cached /\ Kind[r.oid] = "composite"
         /\ Cached' = Cached \cup {r.oid} /\ Described(r.oid)'
         /\ \A o \in Cached : cache'[o] = cache[o]
         /\ OIDs' = OIDs \ {r.oid}
<1>0. PICK c, n : c = r.oid /\ n = ColCount(c)
  OBVIOUS
<1>1. pc = "build" /\ err = "none" /\ items' = items \ {r} /\ UNCHANGED <<pc, err, req, types, uncached>>
  BY DEF BuildComposite, PInv, Shapes
<1>2. /\ \A q \in items : q = CompositeRow(q.oid)
      /\ c \in uncached \ Cached /\ Kind[c] = "composite" /\ c \in OID
  BY <1>0, <1>1 DEF PInv, Building, Shapes
<1>3. OIDs' = OIDs \ {c} /\ c \in OIDs
  <2>1. \A q \in items : q.oid = c => q = r
    BY <1>0, <1>2
  <2> QED BY <1>0, <1>1, <2>1 DEF OIDs
<1>4. /\ Cached' = Cached \cup {c} /\ cache'[c] = CompositeOf(r)
      /\ \A o \in Cached : cache'[o] = cache[o]
  <2> DEFINE new == [o \in {r.oid} |-> CompositeOf(r)]
  <2>1. cache' = Put(new) /\ DOMAIN new = {c} /\ new[c] = CompositeOf(r)
    BY <1>0 DEF BuildComposite
  <2> HIDE DEF new
  <2>2. /\ Cached' = Cached \cup DOMAIN new
        /\ \A o \in DOMAIN new : cache'[o] = new[o]
        /\ \A o \in Cached \ DOMAIN new : cache'[o] = cache[o]
    BY <2>1, PutIs
  <2> QED BY <1>2, <2>1, <2>2
<1>5. /\ cache'[c].kind = "composite"
      /\ cache'[c].cols = [i \in 1..n |-> [name |-> Column(c, i).attname, type |-> Column(c, i).atttypid,
                                           hole |-> Column(c, i).atttypid \notin Cached]]
  <2>1. DOMAIN r.cols = 1..n /\ \A i \in 1..n : /\ r.cols[i].name = Column(c, i).attname
                                                /\ r.cols[i].oid = Column(c, i).atttypid
    <3>1. r.cols = CompositeRow(c).cols
      BY <1>0, <1>2
    <3>2. CompositeRow(c).cols = [i \in 1..n |-> [name |-> Column(c, i).attname, oid |-> Column(c, i).atttypid]]
      BY <1>0 DEF CompositeRow
    <3> QED BY <3>1, <3>2
  <2> QED BY <1>4, <2>1 DEF CompositeOf
<1>6. /\ \A i \in 1..n : Column(c, i).atttypid \in Child[c] /\ Column(c, i) \in PgAttribute
      /\ \A q \in Child[c] : \E i \in 1..n : Column(c, i).atttypid = q
  BY <1>0, <1>2, CompositeChild
<1>7. Child[c] \subseteq OID
  BY <1>2, ChildExists
<1>8. Described(c)'
  <2>1. cache'[c].cols \in [1..n -> ColumnType]
    BY <1>5, <1>6, <1>7 DEF ColumnType
  <2>2. \A i \in 1..n : /\ cache'[c].cols[i].name = Column(c, i).attname
                        /\ cache'[c].cols[i].type = Column(c, i).atttypid
    BY <1>5
  <2> QED BY <1>2, <1>5, <2>1, <2>2, <1>0 DEF Described
<1>9. Placeholders' = Placeholders \cup {<<c, o>> : o \in Child[c] \ Cached}
  <2>1. \A q : q \in Holes(c)' <=> q \in Child[c] \ Cached
    <3>1. \A q : q \in Holes(c)' <=> \E i \in 1..n : Column(c, i).atttypid = q /\ q \notin Cached
      <4> DEFINE f == cache'[c].cols
      <4> DEFINE g == [i \in 1..n |-> [name |-> Column(c, i).attname, type |-> Column(c, i).atttypid,
                                       hole |-> Column(c, i).atttypid \notin Cached]]
      <4>1. DOMAIN g = 1..n
        OBVIOUS
      <4>2. ASSUME NEW i \in 1..n
            PROVE  /\ g[i].type = Column(c, i).atttypid
                   /\ g[i].hole <=> Column(c, i).atttypid \notin Cached
        <5>1. g[i] = [name |-> Column(c, i).attname, type |-> Column(c, i).atttypid,
                      hole |-> Column(c, i).atttypid \notin Cached]
          OBVIOUS
        <5> HIDE DEF g
        <5>2. g[i].type = Column(c, i).atttypid
          BY <5>1
        <5>3. g[i].hole = (Column(c, i).atttypid \notin Cached)
          BY <5>1
        <5>4. g[i].hole <=> Column(c, i).atttypid \notin Cached
          BY <5>3
        <5> QED BY <5>2, <5>4
      <4>3. f = g
        BY <1>5
      <4>4. DOMAIN f = 1..n /\ \A i \in 1..n : /\ f[i].type = Column(c, i).atttypid
                                               /\ f[i].hole <=> Column(c, i).atttypid \notin Cached
        <5> HIDE DEF f, g
        <5> QED BY <4>1, <4>2, <4>3
      <4>5. Holes(c)' = {f[i].type : i \in {i \in DOMAIN f : f[i].hole}}
        BY DEF Holes
      <4> HIDE DEF f
      <4> QED BY <4>4, <4>5
    <3> QED BY <1>6, <3>1
  <2>2. \A o \in Cached : Holes(o)' = Holes(o)
    BY <1>4 DEF Holes
  <2>3. ASSUME NEW p PROVE p \in Placeholders' <=> p \in Placeholders \cup {<<c, o>> : o \in Child[c] \ Cached}
    <3>1. CASE p \in Placeholders'
      <4>1. p \in Cached' \X OID /\ cache'[p[1]].kind = "composite" /\ p[2] \in Holes(p[1])'
        BY <3>1 DEF Placeholders
      <4>2. p = <<p[1], p[2]>>
        BY <4>1
      <4>3. CASE p[1] = c
        <5>1. p[2] \in Holes(c)' /\ p = <<c, p[2]>>
          BY <4>1, <4>2, <4>3
        <5> QED BY <2>1, <3>1, <5>1
      <4>4. CASE p[1] \in Cached
        BY <1>4, <2>2, <4>1, <4>2, <4>4 DEF Placeholders
      <4> QED BY <1>4, <4>1, <4>3, <4>4
    <3>2. CASE p \in Placeholders
      BY <1>4, <2>2, <3>2 DEF Placeholders
    <3>3. CASE p \in {<<c, o>> : o \in Child[c] \ Cached}
      BY <1>4, <1>5, <1>7, <2>1, <3>3 DEF Placeholders
    <3> QED BY <3>1, <3>2, <3>3
  <2> QED BY <2>3
<1>10. Pass = "composites" /\ Pass' = Pass /\ ToBuild = OIDs /\ ToBuild' = OIDs'
  BY <1>1 DEF Pass, ToBuild
<1>11. TFP!BuildComposite(c)
  BY <1>1, <1>3, <1>4, <1>9, <1>10 DEF TFP!BuildComposite
<1> QED BY <1>0, <1>2, <1>3, <1>4, <1>8, <1>11

LEMMA CompositeAnswerStutters ==
  ASSUME PInv, CompositeAnswer
  PROVE  UNCHANGED TFP!vars
<1>1. Answered("composites")
  BY DEF CompositeAnswer
<1>2. OIDs = OfKind(uncached, "composite")
  BY <1>1, CompositeItems
<1>3. /\ pc = "composites" /\ err = "none" /\ pc' = "build" /\ err' = err
      /\ UNCHANGED <<cache, req, types, uncached, items>>
  BY <1>1 DEF CompositeAnswer, Answered
<1>4. Pass' = Pass
  BY <1>3 DEF Pass
<1>5. ToBuild' = ToBuild
  BY <1>2, <1>3 DEF ToBuild, OIDs, OfKind
<1> QED BY <1>3, <1>4, <1>5, Stutters

LEMMA CompositesSimulated ==
  ASSUME PInv, FindCompositeTypes
  PROVE  /\ TFP!FindCompositeTypes
         /\ Cached' = Cached /\ \A o \in Cached : cache'[o] = cache[o]
<1> DEFINE built == {o \in uncached \cap Cached : cache[o].kind = "composite"}
<1> DEFINE new == [o \in built |-> cache[o]]
<1>1. /\ pc = "build" /\ err = "none" /\ items = {} /\ pc' = "arrays" /\ err' = err
      /\ req' = req /\ items' = items /\ AddTypes(new)
  BY DEF FindCompositeTypes, PInv, Shapes
<1>2. built = OfKind(uncached, "composite") /\ built \subseteq Cached
  <2>1. \A o \in uncached : Kind[o] = "composite" => o \in Cached
    BY <1>1 DEF PInv, Building, OIDs
  <2>2. \A o \in Cached : cache[o].kind = Kind[o]
    BY DEF PInv, CacheDescribed, Described
  <2> QED BY <2>1, <2>2 DEF OfKind
<1>3. DOMAIN new = built /\ \A o \in built : new[o] = cache[o]
  OBVIOUS
<1> HIDE DEF new, built
<1>4. cache' = Put(new) /\ types' = types \cup built /\ uncached' = uncached \ built
  BY <1>1, <1>3 DEF AddTypes
<1>5. /\ Cached' = Cached \cup DOMAIN new
      /\ \A o \in DOMAIN new : cache'[o] = new[o]
      /\ \A o \in Cached \ DOMAIN new : cache'[o] = cache[o]
  BY <1>4, PutIs
<1>6. Cached' = Cached /\ \A o \in Cached : cache'[o] = cache[o]
  BY <1>2, <1>3, <1>5
<1>7. Placeholders' = Placeholders
  <2>1. Cached' = Cached \cup {} /\ {} \cap Cached = {}
    BY <1>6
  <2> QED BY <1>6, <2>1, SamePlaceholders
<1>8. Pass = "composites" /\ Pass' = "arrays" /\ ToBuild = {} /\ ToBuild' = {}
  BY <1>1 DEF Pass, ToBuild, OIDs
<1>9. built = TFP!OfKind(uncached, "composite")
  BY <1>2 DEF OfKind, TFP!OfKind
<1>10. TFP!Classify(built)
  BY <1>2, <1>4, <1>6 DEF TFP!Classify
<1>11. TFP!FindCompositeTypes
  BY <1>1, <1>7, <1>8, <1>9, <1>10 DEF TFP!FindCompositeTypes
<1> QED BY <1>6, <1>11

LEMMA FailSimulated ==
  ASSUME PInv, QueryFails
  PROVE  TFP!QueryFails \/ UNCHANGED TFP!vars
<1>1. /\ pc \in Queries /\ err = "none" /\ err' = "query"
      /\ UNCHANGED <<pc, cache, req, types, uncached, items>>
  BY DEF QueryFails, Running
<1>2. Cached' = Cached /\ Placeholders' = Placeholders /\ ToBuild' = ToBuild
  BY <1>1 DEF Cached, Placeholders, Holes, ToBuild, OIDs
<1>3. CASE pc = "descendants"
  <2>1. Pass' = Pass
    BY <1>1, <1>3 DEF Pass
  <2> QED BY <1>1, <1>2, <2>1, Stutters
<1>4. CASE pc # "descendants"
  <2>1. Pass = pc /\ Pass \in {"enums", "composites", "arrays", "unknowns"} /\ Pass' = "query"
    BY <1>1, <1>4 DEF Pass, Queries
  <2> QED BY <1>1, <1>2, <2>1 DEF TFP!QueryFails
<1> QED BY <1>3, <1>4

(* When the placeholders are resolved, all there are stand in types of the  *)
(* answer for types of the answer.                                          *)
LEMMA PlaceholdersOfAnswer ==
  ASSUME PInv, pc = "resolve", err = "none"
  PROVE  /\ \A h \in Placeholders : h[1] \in types /\ h[2] \in types
         /\ \A o \in uncached : ~Exists(o) /\ o \in TFP!FindDescendantOIDs[req]
<1>1. Pass = "resolve"
  BY DEF Pass
<1>2. /\ types \cup uncached = TFP!FindDescendantOIDs[req]
      /\ \A o \in uncached : Kind[o] = "missing"
      /\ \A h \in Placeholders : h[1] \in TFP!FindDescendantOIDs[req] /\ h[2] \in Child[h[1]]
  BY <1>1 DEF PInv, TFP!IInv, TFP!Passes, TFP!OfKind
<1>3. req \in Request
  BY DEF PInv, Shapes
<1>4. /\ TFP!FindDescendantOIDs[req] \subseteq OID
      /\ \A o \in TFP!FindDescendantOIDs[req] : Child[o] \subseteq TFP!FindDescendantOIDs[req]
  BY <1>3, TFP!DescendantsClosed, AbstractKinds, AbstractChildren, AbstractRequests
<1>5. ASSUME NEW h \in Placeholders PROVE h[1] \in types /\ h[2] \in types
  <2>1. h[1] \in OID /\ h[2] \in TFP!FindDescendantOIDs[req] /\ Kind[h[2]] # "missing"
    BY <1>2, <1>4, AbstractChildren DEF TFP!ChildAssumption
  <2>2. Kind[h[1]] # "missing"
    BY <1>2, <2>1, AbstractChildren DEF TFP!ChildAssumption
  <2> QED BY <1>2, <2>1, <2>2
<1> QED BY <1>2, <1>4, <1>5, KindOfKnown

LEMMA ResolveSimulated ==
  ASSUME PInv, ResolvePlaceholderTypes
  PROVE  /\ TFP!ResolvePlaceholderTypes
         /\ Cached' = Cached /\ \A o \in Cached : Described(o)'
         /\ err' = "unclassified" => uncached # {}
         /\ \/ err' = "unclassified" /\ pc' = "resolve"
            \/ err' = "none" /\ pc' = "returned"
<1>1. /\ pc = "resolve" /\ err = "none" /\ UNCHANGED <<req, types, uncached>>
      /\ cache' = Put([o \in Walked |-> Resolved(o)])
  BY DEF ResolvePlaceholderTypes
<1>2. /\ \A h \in Placeholders : h[1] \in types /\ h[2] \in types
  BY <1>1, PlaceholdersOfAnswer
<1>3. Pass = "resolve" /\ ToBuild = {}
  BY <1>1 DEF Pass, ToBuild
<1>4. types \subseteq Cached /\ Cached \subseteq OID
  BY DEF PInv, TFP!IInv, TFP!TypeOK
<1>5. /\ Walked \subseteq Cached /\ \A o \in Walked : cache[o].kind = "composite"
      /\ \A o \in types : cache[o].kind = "composite" => o \in Walked
  BY <1>4 DEF Walked
<1>6. /\ Cached' = Cached /\ \A o \in Walked : cache'[o] = Resolved(o)
      /\ \A o \in Cached \ Walked : cache'[o] = cache[o]
  <2> DEFINE new == [o \in Walked |-> Resolved(o)]
  <2>1. DOMAIN new = Walked /\ \A o \in Walked : new[o] = Resolved(o)
    OBVIOUS
  <2> HIDE DEF new
  <2>2. /\ Cached' = Cached \cup DOMAIN new
        /\ \A o \in DOMAIN new : cache'[o] = new[o]
        /\ \A o \in Cached \ DOMAIN new : cache'[o] = cache[o]
    BY <1>1, PutIs DEF new
  <2> QED BY <1>5, <2>1, <2>2
<1>7. \A o \in Cached : Described(o) /\ cache[o].kind = Kind[o]
  BY DEF PInv, CacheDescribed, Described
<1>8. ASSUME NEW o \in Walked
      PROVE  /\ cache'[o].kind = "composite" /\ Kind[o] = "composite"
             /\ cache[o].cols \in [1..ColCount(o) -> ColumnType]
             /\ cache'[o].cols \in [1..ColCount(o) -> ColumnType]
             /\ \A i \in 1..ColCount(o) :
                  /\ cache'[o].cols[i].name = cache[o].cols[i].name
                  /\ cache'[o].cols[i].type = cache[o].cols[i].type
                  /\ cache'[o].cols[i].hole = (cache[o].cols[i].hole /\ cache[o].cols[i].type \notin types)
  <2>1. Kind[o] = "composite" /\ Described(o)
    BY <1>5, <1>7
  <2>2. cache[o].cols \in [1..ColCount(o) -> ColumnType]
    BY <2>1 DEF Described
  <2> DEFINE f == cache[o].cols
  <2> DEFINE g == [i \in DOMAIN f |-> [f[i] EXCEPT !.hole = @ /\ f[i].type \notin types]]
  <2>3. cache'[o].kind = "composite" /\ cache'[o].cols = g
    <3>1. cache'[o] = Resolved(o)
      BY <1>6
    <3>2. Resolved(o) = [kind |-> "composite", cols |-> g]
      BY Zenon DEF Resolved
    <3> HIDE DEF g
    <3> QED BY <3>1, <3>2
  <2>4. DOMAIN f = 1..ColCount(o) /\ \A i \in 1..ColCount(o) : f[i] \in ColumnType
    BY <2>2
  <2> HIDE DEF f
  <2>5. ASSUME NEW i \in 1..ColCount(o)
        PROVE  /\ g[i] \in ColumnType /\ g[i].name = f[i].name /\ g[i].type = f[i].type
               /\ g[i].hole = (f[i].hole /\ f[i].type \notin types)
    BY <2>4 DEF ColumnType
  <2>6. g \in [1..ColCount(o) -> ColumnType]
    BY <2>4, <2>5
  <2> HIDE DEF g
  <2> QED BY <2>1, <2>2, <2>3, <2>5, <2>6 DEF f
<1>9. ASSUME NEW o \in Cached PROVE Described(o)'
  <2>1. CASE o \in Walked
    BY <1>7, <1>8, <2>1 DEF Described
  <2>2. CASE o \notin Walked
    <3>1. cache'[o] = cache[o]
      BY <1>6, <2>2
    <3> QED BY <1>7, <3>1 DEF Described
  <2> QED BY <2>1, <2>2
<1>10. ASSUME NEW o \in Cached, cache[o].kind = "composite", NEW q \in Holes(o)
       PROVE  q \in OID /\ <<o, q>> \in Placeholders /\ o \in types /\ q \in types
  <2>1. cache[o].cols \in [1..ColCount(o) -> ColumnType]
    BY <1>7, <1>10 DEF Described
  <2>2. q \in OID
    BY <2>1 DEF Holes, ColumnType
  <2>3. <<o, q>> \in Placeholders
    BY <1>10, <2>2 DEF Placeholders
  <2> QED BY <1>2, <2>2, <2>3
<1>11. Placeholders' = {}
  <2> SUFFICES ASSUME NEW p \in Placeholders' PROVE FALSE
    OBVIOUS
  <2> PICK o, q : o = p[1] /\ q = p[2]
    OBVIOUS
  <2>1. o \in Cached /\ cache'[o].kind = "composite" /\ q \in Holes(o)'
    BY <1>6 DEF Placeholders
  <2>2. CASE o \in Walked
    <3>1. PICK i \in DOMAIN cache'[o].cols : cache'[o].cols[i].hole /\ cache'[o].cols[i].type = q
      BY <2>1 DEF Holes
    <3>2. /\ i \in DOMAIN cache[o].cols /\ cache[o].cols[i].type = q
          /\ cache'[o].cols[i].hole = (cache[o].cols[i].hole /\ cache[o].cols[i].type \notin types)
      BY <1>8, <2>2, <3>1
    <3>3. cache[o].cols[i].hole /\ q \notin types
      BY <3>1, <3>2
    <3>4. q \in Holes(o) /\ cache[o].kind = "composite"
      BY <1>5, <2>2, <3>2, <3>3 DEF Holes
    <3> QED BY <1>10, <2>1, <3>3, <3>4
  <2>3. CASE o \notin Walked
    <3>1. cache'[o] = cache[o]
      BY <1>6, <2>1, <2>3
    <3>2. q \in Holes(o) /\ cache[o].kind = "composite"
      BY <2>1, <3>1 DEF Holes
    <3> QED BY <1>5, <1>10, <2>1, <2>3, <3>2
  <2> QED BY <2>2, <2>3
<1>12. \A o \in Walked : Holes(o) \subseteq types
  BY <1>5, <1>10
<1>13. \/ uncached # {} /\ pc' = pc /\ err' = "unclassified"
       \/ uncached = {} /\ pc' = "returned" /\ err' = err
  BY <1>12 DEF ResolvePlaceholderTypes
<1>14. Pass' = (IF uncached # {} THEN "unclassified" ELSE "returned") /\ ToBuild' = {}
  BY <1>1, <1>13 DEF Pass, ToBuild
<1>15. TFP!ResolvePlaceholderTypes
  <2>1. TFP!Unresolved = {}
    BY <1>2 DEF TFP!Unresolved
  <2> QED BY <1>1, <1>2, <1>3, <1>6, <1>11, <1>14, <2>1 DEF TFP!ResolvePlaceholderTypes
<1>16. /\ err' = "unclassified" => uncached # {}
       /\ \/ err' = "unclassified" /\ pc' = "resolve"
          \/ err' = "none" /\ pc' = "returned"
  BY <1>1, <1>13
<1> QED BY <1>6, <1>9, <1>15, <1>16

(* Every step of FindTypesByOIDs is one of TypeFetcher, or none.            *)
LEMMA NextSimulated ==
  ASSUME PInv, [Next]_vars
  PROVE  [TFP!Next]_TFP!vars
<1>1. CASE Query \/ ScanRow \/ ConnBreaks \/ GaveUp \/ \E oids \in Request : SlowPath(oids)
  BY <1>1, ReadingStutters
<1>2. ASSUME NEW oids \in Request, FastPath(oids) PROVE TFP!Next
  BY <1>2, FastPathSimulated DEF TFP!Next, TFP!Call
<1>3. CASE Lookup
  BY <1>3, LookupSimulated DEF TFP!Next, TFP!Call
<1>4. CASE FindEnumTypes
  BY <1>4, EnumsSimulated DEF TFP!Next
<1>5. CASE CompositeAnswer
  BY <1>5, CompositeAnswerStutters
<1>6. ASSUME NEW r \in items, BuildComposite(r) PROVE TFP!Next
  <2>1. TFP!BuildComposite(r.oid)
    BY <1>6, BuildSimulated
  <2>2. r.oid \in ToBuild
    BY <2>1 DEF TFP!BuildComposite
  <2> QED BY <2>1, <2>2 DEF TFP!Next
<1>7. CASE FindCompositeTypes
  BY <1>7, CompositesSimulated DEF TFP!Next
<1>8. CASE FindArrayTypes
  BY <1>8, ArraysSimulated DEF TFP!Next
<1>9. CASE FindUnknownTypes
  BY <1>9, UnknownsSimulated DEF TFP!Next
<1>10. CASE ResolvePlaceholderTypes
  BY <1>10, ResolveSimulated DEF TFP!Next
<1>11. CASE QueryFails
  BY <1>11, FailSimulated DEF TFP!Next
<1>12. CASE UNCHANGED vars
  <2>1. Pass' = Pass /\ ToBuild' = ToBuild
    BY <1>12 DEF vars, Pass, ToBuild, OIDs
  <2> QED BY <1>12, <2>1, Stutters DEF vars
<1> QED BY <1>1, <1>2, <1>3, <1>4, <1>5, <1>6, <1>7, <1>8, <1>9, <1>10, <1>11, <1>12
        DEF Next, Call, Step

-----------------------------------------------------------------------------
(* The invariant.                                                           *)
LEMMA InitSimulated == Init => TFP!Init
<1> SUFFICES ASSUME Init PROVE TFP!Init
  OBVIOUS
<1>1. Known \subseteq OID
  BY TypesAssumption
<1>2. Cached = Known
  BY DEF Init, Cached
<1>3. Cached = TFP!OfKind(OID, "known")
  BY <1>1, <1>2, KindOfKnown DEF TFP!OfKind
<1>4. Placeholders = {}
  <2>1. \A o \in Cached : cache[o].kind # "composite"
    BY <1>2 DEF Init, Base
  <2> QED BY <2>1 DEF Placeholders
<1>5. Pass = "returned" /\ ToBuild = {}
  BY DEF Init, Pass, ToBuild
<1> QED BY <1>3, <1>4, <1>5 DEF Init, TFP!Init

LEMMA InitPInv == Init => PInv
<1> SUFFICES ASSUME Init PROVE PInv
  OBVIOUS
<1>1. TFP!IInv
  BY InitSimulated, TFP!InitIInv, AbstractKinds, AbstractChildren, AbstractRequests
<1>2. Shapes
  BY RequestAssumption DEF Init, Shapes
<1>3. Reading
  BY DEF Init, Reading, NoRows
<1>4. Building /\ Missed
  BY DEF Init, Building, Missed
<1>5. CacheDescribed
  <2>1. Cached = Known /\ \A o \in Known : cache[o].kind = "known"
    BY DEF Init, Cached, Base
  <2>2. \A o \in Known : Kind[o] = "known"
    BY KindOfKnown, TypesAssumption
  <2> QED BY <2>1, <2>2 DEF CacheDescribed, Described
<1> QED BY <1>1, <1>2, <1>3, <1>4, <1>5 DEF PInv

LEMMA ReadingClosed ==
  ASSUME stream' = NoRows
  PROVE  Reading'
BY DEF Reading, NoRows

LEMMA DescribedKept ==
  ASSUME \A o \in Cached : Described(o) /\ cache'[o] = cache[o], NEW N, Cached' \subseteq Cached \cup N,
         \A o \in N : Described(o)'
  PROVE  CacheDescribed'
<1>1. ASSUME NEW o \in Cached PROVE Described(o)'
  BY DEF Described
<1> QED BY <1>1 DEF CacheDescribed

(* A part of a type always exists, so what is missing was asked for.        *)
LEMMA MissingRequested ==
  ASSUME NEW S \in Request, NEW o \in TFP!FindDescendantOIDs[S], ~Exists(o)
  PROVE  o \in S
<1> DEFINE C == S \cup {p \in OID : Exists(p)}
<1>1. S \subseteq OID
  BY RequestAssumption
<1>2. C \in SUBSET OID /\ S \subseteq C
  BY <1>1
<1>3. ASSUME NEW p \in C PROVE Child[p] \subseteq C
  <2>1. p \in OID
    BY <1>2
  <2> QED BY <2>1, ChildExists
<1>4. TFP!Closed(C)
  BY <1>3 DEF TFP!Closed
<1> HIDE DEF C
<1>5. o \in C
  BY <1>2, <1>4 DEF TFP!FindDescendantOIDs
<1> QED BY <1>5 DEF C

(* The parts of the invariant that are not TypeFetcher's own.               *)
Here == Shapes /\ Reading /\ Building /\ CacheDescribed /\ Missed

LEMMA CallKeeps ==
  ASSUME PInv, NEW oids \in Request, FastPath(oids) \/ SlowPath(oids)
  PROVE  Here'
<1>1. pc = "returned" /\ err = "none" /\ pc' \in {"returned", "descendants"}
      /\ UNCHANGED <<err, cache, uncached, stream, items>>
  BY DEF FastPath, SlowPath, PInv, Shapes
<1>2. Cached' = Cached
  BY <1>1 DEF Cached
<1>3. Shapes'
  BY <1>1, <1>2 DEF FastPath, SlowPath, PInv, Shapes, Queries
<1>4. Reading'
  <2>1. stream = NoRows
    BY <1>1 DEF PInv, Reading, Running, Queries
  <2> QED BY <1>1, <2>1, ReadingClosed
<1>5. CacheDescribed'
  BY <1>1, <1>2 DEF PInv, CacheDescribed, Described
<1>6. Building' /\ Missed'
  BY <1>1 DEF Building, Missed
<1> QED BY <1>3, <1>4, <1>5, <1>6 DEF Here

LEMMA ReadKeeps ==
  ASSUME PInv, Query \/ ScanRow \/ ConnBreaks \/ QueryFails
  PROVE  Here'
<1>1. /\ pc \in Queries /\ err = "none" /\ err' \in {"none", "query"}
      /\ UNCHANGED <<pc, cache, pending, req, types, uncached>>
  BY DEF Query, ScanRow, ConnBreaks, QueryFails, Running
<1>2. Cached' = Cached /\ Statement' = Statement
  BY <1>1 DEF Cached, Statement
<1>3. Shapes'
  BY <1>1, <1>2 DEF PInv, Shapes, Queries
<1>4. CacheDescribed'
  BY <1>1, <1>2 DEF PInv, CacheDescribed, Described
<1>5. Building' /\ Missed'
  BY <1>1 DEF Building, Missed, Queries
<1>6. Reading'
  <2> DEFINE L == stream.left
  <2>1. CASE Query
    <3>1. stream' = [open |-> TRUE, left |-> Statement, broken |-> FALSE] /\ items' = {} /\ Running'
      BY <1>1, <2>1 DEF Query, Running
    <3> QED BY <1>2, <3>1 DEF Reading
  <2>2. CASE ScanRow
    <3>1. PICK r \in stream.left : stream' = [stream EXCEPT !.left = @ \ {r}] /\ items' = items \cup {r}
      BY <2>2 DEF ScanRow
    <3>2. /\ stream = [open |-> stream.open, left |-> stream.left, broken |-> stream.broken]
          /\ stream.open \in BOOLEAN /\ stream.broken \in BOOLEAN /\ stream.open
      BY <3>1 DEF PInv, Reading, NoRows
    <3>3. stream' = [open |-> stream.open, left |-> stream.left \ {r}, broken |-> stream.broken]
      BY <3>1, <3>2
    <3>4. Running' /\ stream'.left \cup items' = stream.left \cup items
      BY <1>1, <2>2, <3>1, <3>3 DEF Running, ScanRow
    <3>5. stream.open /\ ~stream.broken => stream.left \cup items = Statement
      BY DEF PInv, Reading
    <3> QED BY <1>2, <3>2, <3>3, <3>4, <3>5 DEF Reading
  <2>3. CASE ConnBreaks
    <3>1. stream' = [stream EXCEPT !.left = {}, !.broken = TRUE] /\ stream.open /\ Running'
      BY <1>1, <2>3 DEF ConnBreaks, Running
    <3>2. stream = [open |-> stream.open, left |-> stream.left, broken |-> stream.broken]
      BY DEF PInv, Reading
    <3>3. stream' = [open |-> stream.open, left |-> {}, broken |-> TRUE]
      BY <3>1, <3>2
    <3> QED BY <3>1, <3>3 DEF Reading
  <2>4. CASE QueryFails
    BY <2>4, ReadingClosed DEF QueryFails
  <2> QED BY <2>1, <2>2, <2>3, <2>4
<1> QED BY <1>3, <1>4, <1>5, <1>6 DEF Here

LEMMA LookupKeeps ==
  ASSUME PInv, Lookup
  PROVE  Here'
<1>1. TFP!Lookup(pending) /\ pending \in Request
  BY LookupSimulated
<1>2. /\ pc' = "enums" /\ err' = "none" /\ UNCHANGED <<cache, pending>> /\ req' = pending
      /\ stream' = NoRows
  BY DEF Lookup, Answered
<1>3. Cached' = Cached
  BY <1>2 DEF Cached
<1>4. uncached' = TFP!FindDescendantOIDs[pending] \ Cached
  BY <1>1 DEF TFP!Lookup
<1>5. TFP!FindDescendantOIDs[pending] \subseteq OID
  BY <1>1, TFP!DescendantsClosed, AbstractKinds, AbstractChildren, AbstractRequests
<1>6. Known \subseteq Cached
  <2>1. \A o \in Known : o \in OID /\ Kind[o] = "known"
    BY KindOfKnown, TypesAssumption
  <2> QED BY <2>1 DEF PInv, TFP!IInv, TFP!OfKind
<1>7. Shapes'
  BY <1>1, <1>2, <1>3, <1>4, <1>5, <1>6 DEF Shapes, Queries
<1>8. Reading'
  BY <1>2, ReadingClosed
<1>9. CacheDescribed'
  BY <1>2, <1>3 DEF PInv, CacheDescribed, Described
<1>10. Building' /\ Missed'
  BY <1>2 DEF Building, Missed
<1> QED BY <1>7, <1>8, <1>9, <1>10 DEF Here

LEMMA EnumsKeep ==
  ASSUME PInv, FindEnumTypes
  PROVE  Here'
<1>1. /\ TFP!FindEnumTypes
      /\ \A o \in Cached' \ Cached : cache'[o] = [kind |-> "enum", labels |-> EnumLabels(o)]
      /\ \A o \in Cached' \ Cached : Kind[o] = "enum"
      /\ \A o \in Cached : cache'[o] = cache[o]
  BY EnumsSimulated
<1>2. /\ pc = "enums" /\ pc' = "composites" /\ err' = "none" /\ UNCHANGED <<pending, req>>
      /\ stream' = NoRows
  BY DEF FindEnumTypes, Answered
<1>3. \E found : Cached' = Cached \cup found /\ uncached' = uncached \ found
  BY <1>1 DEF TFP!FindEnumTypes, TFP!Classify
<1>4. Shapes'
  BY <1>2, <1>3 DEF PInv, Shapes, Queries
<1>5. Reading'
  BY <1>2, ReadingClosed
<1>6. CacheDescribed'
  <2>1. ASSUME NEW o \in Cached' \ Cached PROVE Described(o)'
    <3>1. cache'[o] = [kind |-> "enum", labels |-> EnumLabels(o)] /\ Kind[o] = "enum"
      BY <1>1
    <3> QED BY <3>1 DEF Described
  <2>2. \A o \in Cached : Described(o)
    BY DEF PInv, CacheDescribed
  <2> DEFINE N == Cached' \ Cached
  <2>3. Cached' \subseteq Cached \cup N /\ \A o \in N : Described(o)'
    BY <2>1
  <2> HIDE DEF N
  <2> QED BY <1>1, <2>2, <2>3, DescribedKept
<1>7. Building' /\ Missed'
  BY <1>2 DEF Building, Missed
<1> QED BY <1>4, <1>5, <1>6, <1>7 DEF Here

LEMMA ArraysKeep ==
  ASSUME PInv, FindArrayTypes
  PROVE  Here'
<1>1. /\ TFP!FindArrayTypes
      /\ \A o \in Cached' \ Cached : cache'[o] = [kind |-> "array", elem |-> TypeRow(o).typelem]
      /\ \A o \in Cached' \ Cached : Kind[o] = "array"
      /\ \A o \in Cached : cache'[o] = cache[o]
  BY ArraysSimulated
<1>2. /\ pc = "arrays" /\ pc' \in {"arrays", "unknowns"} /\ err' \in {"none", "noElem"}
      /\ UNCHANGED <<pending, req>> /\ stream' = NoRows
  BY DEF FindArrayTypes, Answered
<1>3. \E found : Cached' = Cached \cup found /\ uncached' = uncached \ found
  BY <1>1 DEF TFP!FindArrayTypes, TFP!Classify
<1>4. Shapes'
  BY <1>2, <1>3 DEF PInv, Shapes, Queries
<1>5. Reading'
  BY <1>2, ReadingClosed
<1>6. CacheDescribed'
  <2>1. ASSUME NEW o \in Cached' \ Cached PROVE Described(o)'
    <3>1. cache'[o] = [kind |-> "array", elem |-> TypeRow(o).typelem] /\ Kind[o] = "array"
      BY <1>1
    <3> QED BY <3>1 DEF Described
  <2>2. \A o \in Cached : Described(o)
    BY DEF PInv, CacheDescribed
  <2> DEFINE N == Cached' \ Cached
  <2>3. Cached' \subseteq Cached \cup N /\ \A o \in N : Described(o)'
    BY <2>1
  <2> HIDE DEF N
  <2> QED BY <1>1, <2>2, <2>3, DescribedKept
<1>7. Building' /\ Missed'
  BY <1>2 DEF Building, Missed
<1> QED BY <1>4, <1>5, <1>6, <1>7 DEF Here

LEMMA UnknownsKeep ==
  ASSUME PInv, FindUnknownTypes
  PROVE  Here'
<1>1. /\ TFP!FindUnknownTypes
      /\ \A o \in Cached' \ Cached : cache'[o].kind = "other"
      /\ \A o \in Cached' \ Cached : Kind[o] = "other"
      /\ \A o \in Cached : cache'[o] = cache[o]
  BY UnknownsSimulated
<1>2. /\ pc = "unknowns" /\ pc' = "resolve" /\ err' = "none" /\ UNCHANGED <<pending, req>>
      /\ stream' = NoRows
  BY DEF FindUnknownTypes, Answered
<1>3. \E found : Cached' = Cached \cup found /\ uncached' = uncached \ found
  BY <1>1 DEF TFP!FindUnknownTypes, TFP!Classify
<1>4. Shapes'
  BY <1>2, <1>3 DEF PInv, Shapes, Queries
<1>5. Reading'
  BY <1>2, ReadingClosed
<1>6. CacheDescribed'
  <2>1. ASSUME NEW o \in Cached' \ Cached PROVE Described(o)'
    <3>1. cache'[o].kind = "other" /\ Kind[o] = "other"
      BY <1>1
    <3> QED BY <3>1 DEF Described
  <2>2. \A o \in Cached : Described(o)
    BY DEF PInv, CacheDescribed
  <2> DEFINE N == Cached' \ Cached
  <2>3. Cached' \subseteq Cached \cup N /\ \A o \in N : Described(o)'
    BY <2>1
  <2> HIDE DEF N
  <2> QED BY <1>1, <2>2, <2>3, DescribedKept
<1>7. Building' /\ Missed'
  BY <1>2 DEF Building, Missed
<1> QED BY <1>4, <1>5, <1>6, <1>7 DEF Here

LEMMA CompositesKeep ==
  ASSUME PInv, CompositeAnswer \/ FindCompositeTypes \/ \E r \in items : BuildComposite(r)
  PROVE  Here'
<1>1. CASE CompositeAnswer
  <2>1. /\ pc = "composites" /\ pc' = "build" /\ err' = "none" /\ stream' = NoRows
        /\ UNCHANGED <<cache, pending, req, uncached, items>> /\ Answered("composites")
    BY <1>1 DEF CompositeAnswer, Answered
  <2>2. Cached' = Cached /\ OIDs' = OIDs
    BY <2>1 DEF Cached, OIDs
  <2>3. Shapes'
    BY <2>1, <2>2 DEF PInv, Shapes, Queries
  <2>4. Reading'
    BY <2>1, ReadingClosed
  <2>5. Building'
    <3>1. OIDs = OfKind(uncached, "composite") /\ \A r \in items : r = CompositeRow(r.oid)
      BY <2>1, CompositeItems
    <3>2. uncached \cap Cached = {}
      BY <2>1 DEF PInv, Shapes
    <3>3. \A r \in items : r.oid \in OIDs
      BY DEF OIDs
    <3> QED BY <2>1, <2>2, <3>1, <3>2, <3>3 DEF Building, OfKind
  <2>6. CacheDescribed' /\ Missed'
    BY <2>1, <2>2 DEF PInv, CacheDescribed, Described, Missed
  <2> QED BY <2>3, <2>4, <2>5, <2>6 DEF Here
<1>2. CASE FindCompositeTypes
  <2>1. TFP!FindCompositeTypes /\ Cached' = Cached /\ \A o \in Cached : cache'[o] = cache[o]
    BY <1>2, CompositesSimulated
  <2>2. /\ pc = "build" /\ pc' = "arrays" /\ err' = "none" /\ UNCHANGED <<pending, req, stream>>
    BY <1>2 DEF FindCompositeTypes, PInv, Shapes
  <2>3. uncached' = uncached \ TFP!OfKind(uncached, "composite")
    BY <2>1 DEF TFP!FindCompositeTypes, TFP!Classify
  <2>4. uncached' \cap Cached = {} /\ uncached' \subseteq uncached
    BY <2>2, <2>3 DEF PInv, Building, TFP!OfKind
  <2>5. Shapes'
    BY <2>1, <2>2, <2>4 DEF PInv, Shapes, Queries
  <2>6. Reading'
    <3>1. stream = NoRows
      BY <2>2 DEF PInv, Reading, Running, Queries
    <3> QED BY <2>2, <3>1, ReadingClosed
  <2>7. CacheDescribed'
    <3>1. \A o \in Cached : Described(o)
      BY DEF PInv, CacheDescribed
    <3> DEFINE N == {}
    <3>2. Cached' \subseteq Cached \cup N /\ \A o \in N : Described(o)'
      BY <2>1
    <3> HIDE DEF N
    <3> QED BY <2>1, <3>1, <3>2, DescribedKept
  <2>8. Building' /\ Missed'
    BY <2>2 DEF Building, Missed
  <2> QED BY <2>5, <2>6, <2>7, <2>8 DEF Here
<1>3. ASSUME NEW r \in items, BuildComposite(r) PROVE Here'
  <2>1. /\ r.oid \in uncached \ Cached /\ Kind[r.oid] = "composite"
        /\ Cached' = Cached \cup {r.oid} /\ Described(r.oid)'
        /\ \A o \in Cached : cache'[o] = cache[o]
        /\ OIDs' = OIDs \ {r.oid}
    BY <1>3, BuildSimulated
  <2>2. /\ pc = "build" /\ err = "none" /\ items' = items \ {r}
        /\ UNCHANGED <<pc, err, pending, req, uncached, stream>>
    BY <1>3 DEF BuildComposite, PInv, Shapes
  <2>3. Shapes'
    BY <2>1, <2>2 DEF PInv, Shapes, Queries
  <2>4. Reading'
    <3>1. stream = NoRows
      BY <2>2 DEF PInv, Reading, Running, Queries
    <3> QED BY <2>2, <3>1, ReadingClosed
  <2>5. Building'
    <3>1. /\ \A q \in items : /\ q.oid \in uncached \ Cached /\ Kind[q.oid] = "composite"
                              /\ q = CompositeRow(q.oid)
          /\ \A o \in uncached : Kind[o] = "composite" => o \in OIDs \cup Cached
          /\ \A o \in uncached \cap Cached : Kind[o] = "composite"
      BY <2>2 DEF PInv, Building
    <3>2. \A q \in items' : q \in items /\ q.oid # r.oid
      BY <2>2, <3>1
    <3> QED BY <2>1, <2>2, <3>1, <3>2 DEF Building
  <2>6. CacheDescribed'
    <3>1. \A o \in Cached : Described(o)
      BY DEF PInv, CacheDescribed
    <3> DEFINE N == {r.oid}
    <3>2. Cached' \subseteq Cached \cup N
      BY <2>1
    <3>3. ASSUME NEW o \in N PROVE Described(o)'
      BY <2>1
    <3> HIDE DEF N
    <3> QED BY <2>1, <3>1, <3>2, <3>3, DescribedKept
  <2>7. Missed'
    BY <2>2 DEF Missed
  <2> QED BY <2>3, <2>4, <2>5, <2>6, <2>7 DEF Here
<1> QED BY <1>1, <1>2, <1>3

LEMMA ResolveKeeps ==
  ASSUME PInv, ResolvePlaceholderTypes
  PROVE  Here'
<1>1. /\ Cached' = Cached /\ \A o \in Cached : Described(o)'
      /\ err' = "unclassified" => uncached # {}
      /\ \/ err' = "unclassified" /\ pc' = "resolve"
         \/ err' = "none" /\ pc' = "returned"
  BY ResolveSimulated
<1>2. pc = "resolve" /\ err = "none" /\ UNCHANGED <<pending, req, uncached, stream>>
  BY DEF ResolvePlaceholderTypes
<1>3. Shapes'
  BY <1>1, <1>2 DEF PInv, Shapes, Queries
<1>4. Reading'
  <2>1. stream = NoRows
    BY <1>2 DEF PInv, Reading, Running, Queries
  <2> QED BY <1>2, <2>1, ReadingClosed
<1>5. CacheDescribed'
  BY <1>1 DEF CacheDescribed
<1>6. Missed'
  <2>1. \A o \in uncached : ~Exists(o) /\ o \in TFP!FindDescendantOIDs[req]
    BY <1>2, PlaceholdersOfAnswer
  <2>2. req \in Request
    BY DEF PInv, Shapes
  <2>3. \A o \in uncached : o \in req
    BY <2>1, <2>2, MissingRequested
  <2> QED BY <1>1, <1>2, <2>1, <2>3 DEF Missed
<1>7. Building'
  BY <1>1 DEF Building
<1> QED BY <1>3, <1>4, <1>5, <1>6, <1>7 DEF Here

(* Every step of FindTypesByOIDs preserves the invariant.                   *)
LEMMA NextPInv == PInv /\ [Next]_vars => PInv'
<1> SUFFICES ASSUME PInv, [Next]_vars PROVE PInv'
  OBVIOUS
<1>1. TFP!IInv'
  <2>1. TFP!IInv
    BY DEF PInv
  <2> QED BY <2>1, NextSimulated, TFP!NextIInv, AbstractKinds, AbstractChildren, AbstractRequests
<1>2. CASE UNCHANGED vars
  <2>1. Here
    BY DEF PInv, Here
  <2>2. UNCHANGED <<pc, err, cache, pending, req, types, uncached, stream, items>>
    BY <1>2 DEF vars
  <2>3. Cached' = Cached /\ OIDs' = OIDs /\ Statement' = Statement /\ Running' = Running
    BY <2>2 DEF Cached, OIDs, Statement, Running
  <2>4. Shapes' /\ Reading' /\ Building' /\ Missed'
    BY <2>1, <2>2, <2>3 DEF Here, Shapes, Reading, Building, Missed
  <2>5. CacheDescribed'
    BY <2>1, <2>2, <2>3 DEF Here, CacheDescribed, Described
  <2> QED BY <2>4, <2>5, <1>1 DEF PInv
<1>3. CASE Next /\ ~UNCHANGED vars
  <2>1. Here'
    BY <1>3, CallKeeps, ReadKeeps, LookupKeeps, EnumsKeep, ArraysKeep, UnknownsKeep,
       CompositesKeep, ResolveKeeps DEF Next, Call, Step, GaveUp
  <2> QED BY <2>1, <1>1 DEF PInv, Here
<1> QED BY <1>2, <1>3

-----------------------------------------------------------------------------
(* The state of the fetcher always satisfies the invariant.                 *)
THEOREM PInvHolds == Spec => []PInv
BY InitPInv, NextPInv, PTL DEF Spec

(* FindTypesByOIDs, statement by statement and row by row, does what        *)
(* TypeFetcher says it does, so all that is proved of TypeFetcher holds of  *)
(* it for every catalog.                                                    *)
THEOREM FetcherImplements == Spec => ImplementsTypeFetcher
<1>1. Init => TF!Init
  BY InitSimulated DEF TFP!Init, TF!Init, TFP!OfKind, TF!OfKind
<1>2. TFP!Next => TF!Next
  <2>1. TFP!FindDescendantOIDs = TF!FindDescendantOIDs
    BY DEF TFP!FindDescendantOIDs, TF!FindDescendantOIDs, TFP!Closed, TF!Closed
  <2>2. \A S, k : TFP!OfKind(S, k) = TF!OfKind(S, k)
    BY DEF TFP!OfKind, TF!OfKind
  <2>3. TFP!Call => TF!Call
    BY <2>1 DEF TFP!Call, TF!Call, TFP!FastPath, TF!FastPath, TFP!Lookup, TF!Lookup
  <2>4. TFP!FindEnumTypes => TF!FindEnumTypes
    BY DEF TFP!FindEnumTypes, TF!FindEnumTypes, TFP!Classify, TF!Classify, TFP!OfKind, TF!OfKind
  <2>5. ASSUME NEW c, TFP!BuildComposite(c) PROVE TF!BuildComposite(c)
    BY <2>5 DEF TFP!BuildComposite, TF!BuildComposite
  <2>6. TFP!FindCompositeTypes => TF!FindCompositeTypes
    BY DEF TFP!FindCompositeTypes, TF!FindCompositeTypes, TFP!Classify, TF!Classify,
           TFP!OfKind, TF!OfKind
  <2>7. TFP!FindArrayTypes => TF!FindArrayTypes
    BY DEF TFP!FindArrayTypes, TF!FindArrayTypes, TFP!Classify, TF!Classify, TFP!OfKind, TF!OfKind
  <2>8. TFP!FindUnknownTypes => TF!FindUnknownTypes
    BY DEF TFP!FindUnknownTypes, TF!FindUnknownTypes, TFP!Classify, TF!Classify
  <2>9. TFP!ResolvePlaceholderTypes => TF!ResolvePlaceholderTypes
    BY DEF TFP!ResolvePlaceholderTypes, TF!ResolvePlaceholderTypes, TFP!Unresolved, TF!Unresolved
  <2>10. TFP!QueryFails => TF!QueryFails
    BY DEF TFP!QueryFails, TF!QueryFails
  <2>11. TFP!GaveUp => TF!GaveUp
    BY DEF TFP!GaveUp, TF!GaveUp, TFP!Failures, TF!Failures, TFP!vars, TF!vars
  <2> QED BY <2>3, <2>4, <2>5, <2>6, <2>7, <2>8, <2>9, <2>10, <2>11 DEF TFP!Next, TF!Next
<1>3. PInv /\ [Next]_vars => [TF!Next]_TF!vars
  BY <1>2, NextSimulated DEF TFP!vars, TF!vars
<1> QED BY <1>1, <1>3, PInvHolds, PTL DEF Spec, ImplementsTypeFetcher, TF!Spec

-----------------------------------------------------------------------------
(* The labels of an enum are in the order of enumsortorder.                 *)
LEMMA LabelsInOrder ==
  ASSUME NEW o
  PROVE  /\ Len(EnumLabels(o)) = Cardinality(LabelsOf(o))
         /\ DOMAIN EnumLabels(o) = 1..Cardinality(LabelsOf(o))
         /\ \A e, f \in LabelsOf(o) : e.enumsortorder < f.enumsortorder =>
              \E i, j \in DOMAIN EnumLabels(o) :
                i < j /\ EnumLabels(o)[i] = e.enumlabel /\ EnumLabels(o)[j] = f.enumlabel
<1> DEFINE S == LabelsOf(o)
<1> DEFINE N == Cardinality(S)
<1> DEFINE k == [e \in S |-> e.enumsortorder]
<1> DEFINE below == [e \in S |-> {b \in S : b.enumsortorder < e.enumsortorder}]
<1> DEFINE r == [e \in S |-> Cardinality(below[e])]
<1>1. IsFiniteSet(S)
  <2>1. S \in SUBSET PgEnum
    BY DEF LabelsOf
  <2> QED BY <2>1, FS_Subset, PartsAssumption
<1>2. k \in [S -> Int] /\ \A a, b \in S : k[a] = k[b] => a = b
  BY PartsAssumption DEF LabelsOf
<1>3. \A e \in S : /\ below[e] \subseteq S /\ \A b \in S : b \in below[e] <=> k[b] < k[e]
                   /\ r[e] = Cardinality(below[e])
  OBVIOUS
<1>4. /\ N \in Nat
      /\ \A a \in S : r[a] + 1 \in 1..N
      /\ \A a, b \in S : k[a] < k[b] => r[a] < r[b]
      /\ \A a, b \in S : r[a] = r[b] => a = b
      /\ \A i \in 1..N : \E a \in S : r[a] = i - 1
  <2> HIDE DEF S, k, r, below
  <2> QED BY <1>1, <1>2, <1>3, RanksFill
<1> DEFINE rank(a) == Cardinality({b \in S : b.enumsortorder < a.enumsortorder})
<1> DEFINE at == [i \in 1..N |-> CHOOSE a \in S : rank(a) = i - 1]
<1>5. \A i \in 1..N : at[i] \in S /\ r[at[i]] = i - 1
  <2>1. \A a \in S : r[a] = rank(a)
    OBVIOUS
  <2> HIDE DEF S, r, N, rank
  <2>2. ASSUME NEW i \in 1..N PROVE \E a \in S : rank(a) = i - 1
    BY <1>4, <2>1
  <2>3. ASSUME NEW i \in 1..N PROVE at[i] \in S /\ rank(at[i]) = i - 1
    BY <2>2
  <2> QED BY <2>1, <2>3
<1>6. EnumLabels(o) = [i \in 1..N |-> at[i].enumlabel]
  BY DEF EnumLabels, Aggregate
<1>7. DOMAIN EnumLabels(o) = 1..N /\ \A i \in 1..N : EnumLabels(o)[i] = at[i].enumlabel
  <2> HIDE DEF at, N
  <2> QED BY <1>6
<1>8. Len(EnumLabels(o)) = N
  <2>1. EnumLabels(o) \in [1..N -> {e.enumlabel : e \in S}]
    <3> HIDE DEF at, N, S
    <3> QED BY <1>5, <1>6
  <2>2. EnumLabels(o) \in Seq({e.enumlabel : e \in S})
    <3> HIDE DEF N, S
    <3> QED BY <1>4, <2>1, SeqDef
  <2> HIDE DEF N, S
  <2> QED BY <1>4, <1>7, <2>2, LenProperties
<1>9. ASSUME NEW e \in S, NEW f \in S, e.enumsortorder < f.enumsortorder
      PROVE  \E i, j \in 1..N : i < j /\ at[i].enumlabel = e.enumlabel /\ at[j].enumlabel = f.enumlabel
  <2>1. r[e] < r[f]
    <3>1. k[e] < k[f]
      BY <1>9
    <3> HIDE DEF k, r, S
    <3> QED BY <1>4, <3>1
  <2> HIDE DEF r, S, N, at
  <2>2. r[e] + 1 \in 1..N /\ r[f] + 1 \in 1..N
    BY <1>4
  <2>3. r[e] \in Int /\ r[f] \in Int
    <3>1. \A x \in S : r[x] \in Int
      <4>1. \A x \in S : IsFiniteSet(below[x])
        <5>1. \A x \in S : below[x] \in SUBSET S
          BY <1>3
        <5> QED BY <1>1, <5>1, FS_Subset
      <4> HIDE DEF below
      <4> QED BY <1>3, <4>1, FS_CardinalityType
    <3> QED BY <3>1
  <2>4. at[r[e] + 1] = e /\ at[r[f] + 1] = f
    <3>1. r[at[r[e] + 1]] = r[e] /\ r[at[r[f] + 1]] = r[f] /\ at[r[e] + 1] \in S /\ at[r[f] + 1] \in S
      BY <1>5, <2>2, <2>3
    <3> QED BY <1>4, <3>1
  <2>5. r[e] + 1 < r[f] + 1
    BY <2>1, <2>3
  <2> QED BY <2>2, <2>4, <2>5
<1> HIDE DEF at, N, r, below, k
<1>10. \A e, f \in S : e.enumsortorder < f.enumsortorder =>
         \E i, j \in 1..N : i < j /\ EnumLabels(o)[i] = e.enumlabel /\ EnumLabels(o)[j] = f.enumlabel
  BY <1>7, <1>9
<1> QED BY <1>7, <1>8, <1>10 DEF N

(* A type in the cache is the type of the catalog.                          *)
LEMMA DescribedIsCatalog == PInv => DescribesCatalog
<1> SUFFICES ASSUME PInv, NEW o \in Cached
             PROVE  LET t == cache[o]
    IN /\ t.kind = Kind[o]
       /\ t.kind = "enum" =>
            /\ Len(t.labels) = Cardinality(LabelsOf(o))
            /\ \A e, f \in LabelsOf(o) : e.enumsortorder < f.enumsortorder =>
                 \E i, j \in DOMAIN t.labels :
                   i < j /\ t.labels[i] = e.enumlabel /\ t.labels[j] = f.enumlabel
       /\ t.kind = "composite" =>
            /\ Len(t.cols) = Cardinality(Columns(o))
            /\ \A a \in Columns(o) :
                 LET before == {b \in Columns(o) : b.attnum < a.attnum}
                     col    == t.cols[Cardinality(before) + 1]
                 IN col.name = a.attname /\ col.type = a.atttypid
       /\ t.kind = "array" => t.elem = TypeRow(o).typelem
  BY DEF DescribesCatalog
<1>1. Described(o) /\ o \in OID
  BY DEF PInv, CacheDescribed, TFP!IInv, TFP!TypeOK
<1>2. cache[o].kind = Kind[o] /\ (Kind[o] = "array" => cache[o].elem = TypeRow(o).typelem)
  BY <1>1 DEF Described
<1>3. ASSUME Kind[o] = "enum"
      PROVE  /\ Len(cache[o].labels) = Cardinality(LabelsOf(o))
             /\ \A e, f \in LabelsOf(o) : e.enumsortorder < f.enumsortorder =>
                  \E i, j \in DOMAIN cache[o].labels :
                    i < j /\ cache[o].labels[i] = e.enumlabel /\ cache[o].labels[j] = f.enumlabel
  <2>1. cache[o].labels = EnumLabels(o)
    BY <1>1, <1>3 DEF Described
  <2> QED BY <2>1, LabelsInOrder
<1>4. ASSUME Kind[o] = "composite"
      PROVE  /\ Len(cache[o].cols) = Cardinality(Columns(o))
             /\ \A a \in Columns(o) : /\ cache[o].cols[Rank(o, a) + 1].name = a.attname
                                      /\ cache[o].cols[Rank(o, a) + 1].type = a.atttypid
  <2>1. /\ cache[o].cols \in [1..ColCount(o) -> ColumnType]
        /\ \A i \in 1..ColCount(o) : /\ cache[o].cols[i].name = Column(o, i).attname
                                     /\ cache[o].cols[i].type = Column(o, i).atttypid
    BY <1>1, <1>4 DEF Described
  <2>2. /\ ColCount(o) \in Nat
        /\ \A a \in Columns(o) : Rank(o, a) + 1 \in 1..ColCount(o) /\ Column(o, Rank(o, a) + 1) = a
    BY <1>1, ColumnsInPlace
  <2>3. cache[o].cols \in Seq(ColumnType)
    BY <2>1, <2>2, SeqDef
  <2>4. Len(cache[o].cols) = ColCount(o)
    BY <2>1, <2>2, <2>3, LenProperties
  <2>5. ASSUME NEW a \in Columns(o)
        PROVE  /\ cache[o].cols[Rank(o, a) + 1].name = a.attname
               /\ cache[o].cols[Rank(o, a) + 1].type = a.atttypid
    BY <2>1, <2>2
  <2> QED BY <2>4, <2>5 DEF ColCount
<1> QED BY <1>2, <1>3, <1>4 DEF Rank

(* A returned type has all its parts in the cache.                          *)
LEMMA PartsArePresent == PInv => PartsPresent
<1> SUFFICES ASSUME PInv, pc = "returned", NEW o \in types
             PROVE  /\ cache[o].kind = "composite" => Holes(o) = {}
                    /\ Below(o) \subseteq Cached
  BY DEF PartsPresent
<1>1. Pass = "returned"
  BY DEF PInv, Shapes, Pass
<1>2. /\ Placeholders = {} /\ types \subseteq Cached /\ Cached \subseteq OID
      /\ \A p \in Cached : Kind[p] \in {"composite", "array"} => Child[p] \subseteq Cached
  BY <1>1 DEF PInv, TFP!IInv, TFP!TypeOK, TFP!CacheSound
<1>3. Described(o) /\ o \in OID /\ cache[o].kind = Kind[o]
  BY <1>2 DEF PInv, CacheDescribed, Described
<1>4. ASSUME Kind[o] = "composite" PROVE Holes(o) = {} /\ Below(o) \subseteq Cached
  <2>1. /\ cache[o].cols \in [1..ColCount(o) -> ColumnType]
        /\ \A i \in 1..ColCount(o) : cache[o].cols[i].type = Column(o, i).atttypid
    BY <1>3, <1>4 DEF Described
  <2>2. Holes(o) \subseteq OID
    BY <2>1 DEF Holes, ColumnType
  <2>3. Holes(o) = {}
    <3> SUFFICES ASSUME NEW q \in Holes(o) PROVE FALSE
      OBVIOUS
    <3>1. <<o, q>> \in Placeholders
      BY <1>2, <1>3, <1>4, <2>2 DEF Placeholders
    <3> QED BY <1>2, <3>1
  <2>4. \A i \in 1..ColCount(o) : cache[o].cols[i].type \in Cached
    BY <1>2, <1>3, <1>4, <2>1, CompositeChild
  <2>5. Below(o) \subseteq Cached
    BY <1>3, <1>4, <2>1, <2>4 DEF Below
  <2> QED BY <2>3, <2>5
<1>5. ASSUME Kind[o] = "array" PROVE Below(o) \subseteq Cached
  <2>1. cache[o].elem = TypeRow(o).typelem
    BY <1>3, <1>5 DEF Described
  <2>2. Child[o] = {TypeRow(o).typelem}
    BY <1>3, <1>5, ArrayChild
  <2> QED BY <1>2, <1>3, <1>5, <2>1, <2>2 DEF Below
<1>6. ASSUME Kind[o] \notin {"composite", "array"} PROVE Below(o) = {}
  BY <1>3, <1>6 DEF Below
<1> QED BY <1>3, <1>4, <1>5, <1>6

(* A call that fails has a cause.                                           *)
LEMMA FailuresHaveCause == PInv => FailsForCause
<1> SUFFICES ASSUME PInv PROVE FailsForCause
  OBVIOUS
<1>1. err \notin {"none", "query"} => Pass = err
  BY DEF PInv, Shapes, Pass
<1>2. Pass # "placeholder"
  BY DEF PInv, TFP!IInv, TFP!PlaceholdersResolvable
<1>3. ASSUME err = "noElem"
      PROVE  \E o \in uncached : Kind[o] = "array" /\ \A e \in Child[o] : Kind[e] \in {"array", "other"}
  <2>1. Pass = "noElem"
    BY <1>1, <1>3
  <2>2. PICK a \in uncached : Kind[a] = "array" /\ \E e \in Child[a] : Kind[e] \in {"array", "other"}
    BY <2>1 DEF PInv, TFP!IInv, TFP!ArrayElemFound, TFP!OfKind
  <2>3. a \in OID
    BY DEF PInv, Shapes
  <2>4. Child[a] = {TypeRow(a).typelem}
    BY <2>2, <2>3, ArrayChild
  <2> QED BY <2>2, <2>4
<1>4. err = "unclassified" => \E o \in req : ~Exists(o)
  BY DEF PInv, Missed
<1>5. err # "placeholder"
  BY <1>1, <1>2
<1> QED BY <1>3, <1>4, <1>5 DEF FailsForCause

(* The answer of a call describes the catalog, whole and with all of its    *)
(* parts, and a call fails only for a cause in the catalog or in the        *)
(* connection: for every catalog and every connection.                      *)
THEOREM AnswersAlwaysDescribe == Spec => []AnswersDescribeCatalog
<1>1. PInv => AnswersDescribeCatalog
  BY DescribedIsCatalog, PartsArePresent, FailuresHaveCause DEF AnswersDescribeCatalog
<1> QED BY <1>1, PInvHolds, PTL

(* The state keeps its shape, and no well-known type becomes a composite.   *)
THEOREM CatalogTypeCorrect == Spec => []TypeOK
<1>1. PInv => TypeOK
  <2> SUFFICES ASSUME PInv PROVE TypeOK
    OBVIOUS
  <2>1. Cached \subseteq OID /\ types \subseteq Cached /\ uncached \subseteq OID
    BY DEF PInv, TFP!IInv, TFP!TypeOK, Shapes
  <2>2. ASSUME NEW o \in Cached, cache[o].kind = "composite" PROVE o \notin Known
    <3>1. o \in OID /\ Kind[o] = "composite"
      BY <2>1, <2>2 DEF PInv, CacheDescribed, Described
    <3> QED BY <3>1, KindOfKnown
  <2>3. /\ pc \in Queries \cup {"returned", "build", "resolve"}
        /\ err \in {"none", "query", "noElem", "placeholder", "unclassified"}
        /\ pending \in Request /\ req \in Request
    BY DEF PInv, Shapes
  <2>4. stream.open \/ stream = NoRows
    BY DEF PInv, Reading
  <2> QED BY <2>1, <2>2, <2>3, <2>4 DEF TypeOK
<1> QED BY <1>1, PInvHolds, PTL
=============================================================================
