----------------------------- MODULE Keyset_proofs -----------------------------
(***************************************************************************)
(* The cursor predicate of a generated statement is "strictly after" in the *)
(* order of its ORDER BY, and a walk by such a predicate returns no row     *)
(* twice and skips none: for every sort block whose keys end in a column    *)
(* that is not nullable and whose default ordering has no nullable column,  *)
(* every table and every page size.  pggen accepts other blocks as well,    *)
(* for which the walk is wrong (KeysetSingleNullable, KeysetNullableDefault).*)
(***************************************************************************)
EXTENDS Keyset, FiniteSetTheorems, SequenceTheorems, WellFoundedInduction, TLAPS

(* A sort block that parseSortSpec accepts and that orders the table.       *)
Sound(spec) ==
  /\ \A i \in DOMAIN spec.keys :
       spec.keys[i] # <<>> /\ spec.keys[i][Len(spec.keys[i])] \notin spec.nullable
  /\ ColumnsOf(spec.default) \cap spec.nullable = {}

BlocksAreSound == \A spec \in SortSpec : ParseSortSpec(spec) /\ IsKeyset(spec) => Sound(spec)

Value == Int \cup {NULL}

(* What a statement of a sound block has: at most its leading column is     *)
(* nullable, the last one never, and it knows of every NULL it can meet.    *)
Good(v) ==
  /\ Len(v.columns) \in Nat \ {0} /\ DOMAIN v.columns = 1..Len(v.columns)
  /\ \A i \in 1..Len(v.columns) : v.columns[i] \in Column
  /\ \A i \in 2..Len(v.columns) : v.columns[i] \notin v.declared
  /\ v.columns[1] \in v.declared => v.columns[1] \in v.nullable /\ Len(v.columns) >= 2
  /\ v.nullable \subseteq v.declared
  /\ v.native => v.strict = {}

(* A row without NULLs that the sort block does not declare.                *)
Fits(v, r) == r \in [Column -> Value] /\ \A c \in Column : r[c] = NULL => c \in v.declared

-----------------------------------------------------------------------------
(* Every statement of sound blocks is good.                                 *)
LEMMA VariantsAreGood ==
  ASSUME BlocksAreSound, NEW v \in Variants
  PROVE  Good(v)
<1>1. PICK spec \in SortSpec : ParseSortSpec(spec) /\ IsKeyset(spec) /\ v \in FanOut(spec)
  BY DEF Variants
<1>2. /\ Sound(spec) /\ spec.keys \in Seq(Seq(Column)) /\ spec.default \in Seq(Column)
      /\ spec.default # <<>> /\ (spec.native => spec.strict = {})
      /\ \A i \in DOMAIN spec.keys : ValidateNullable(spec.keys[i], spec.nullable)
  BY <1>1, SortAssumption DEF BlocksAreSound, ParseSortSpec, ValidateCursorBindings
<1>3. CASE /\ v.columns = spec.default /\ v.nullable = {} /\ v.native = spec.native
           /\ v.strict = spec.strict /\ v.declared = spec.nullable
  <2>1. /\ Len(v.columns) \in Nat \ {0} /\ DOMAIN v.columns = 1..Len(v.columns)
        /\ \A i \in 1..Len(v.columns) : v.columns[i] \in Column
    BY <1>2, <1>3, EmptySeq, LenProperties, ElementOfSeq
  <2>2. \A i \in 1..Len(v.columns) : v.columns[i] \notin v.declared
    BY <1>2, <1>3, <2>1 DEF Sound, ColumnsOf
  <2> QED BY <1>2, <1>3, <2>1, <2>2 DEF Good
<1>4. ASSUME NEW i \in DOMAIN spec.keys, v.columns = spec.keys[i], v.nullable = spec.nullable,
             v.native = spec.native, v.strict = spec.strict, v.declared = spec.nullable
      PROVE  Good(v)
  <2>1. v.columns \in Seq(Column) /\ v.columns # <<>>
    BY <1>2, <1>4, ElementOfSeq, LenProperties DEF Sound
  <2>2. /\ Len(v.columns) \in Nat \ {0} /\ DOMAIN v.columns = 1..Len(v.columns)
        /\ \A k \in 1..Len(v.columns) : v.columns[k] \in Column
    BY <2>1, EmptySeq, LenProperties, ElementOfSeq
  <2>3. \A k \in 2..Len(v.columns) : v.columns[k] \notin v.declared
    BY <1>2, <1>4, <2>2 DEF ValidateNullable
  <2>4. v.columns[Len(v.columns)] \notin v.declared
    BY <1>2, <1>4 DEF Sound
  <2>5. v.columns[1] \in v.declared => v.columns[1] \in v.nullable /\ Len(v.columns) >= 2
    BY <1>4, <2>2, <2>4
  <2> QED BY <1>2, <1>4, <2>2, <2>3, <2>5 DEF Good
<1> QED BY <1>1, <1>3, <1>4 DEF FanOut

-----------------------------------------------------------------------------
(* A term of the ORDER BY is a strict total order of the values, NULL       *)
(* included.                                                                *)
LEMMA TermOrder ==
  ASSUME NEW v, NEW c
  PROVE  /\ \A x \in Value : ~TermBefore(v, c, x, x)
         /\ \A x, y, z \in Value :
              TermBefore(v, c, x, y) /\ TermBefore(v, c, y, z) => TermBefore(v, c, x, z)
         /\ \A x, y \in Value : x # y => TermBefore(v, c, x, y) \/ TermBefore(v, c, y, x)
<1> USE NullAssumption DEF Value, TermBefore
<1>1. \A x \in Value : ~TermBefore(v, c, x, x)
  OBVIOUS
<1>2. \A x, y, z \in Value :
         TermBefore(v, c, x, y) /\ TermBefore(v, c, y, z) => TermBefore(v, c, x, z)
  OBVIOUS
<1>3. \A x, y \in Value : x # y => TermBefore(v, c, x, y) \/ TermBefore(v, c, y, x)
  OBVIOUS
<1> QED BY <1>1, <1>2, <1>3

(* A non-empty set of numbers has a least one.                              *)
LEMMA LeastNat ==
  ASSUME NEW T \in SUBSET Nat, T # {}
  PROVE  \E n \in T : \A m \in T : n <= m
<1> DEFINE R == {ss \in Nat \X Nat : ss[1] < ss[2]}
<1>1. R = OpToRel(<, Nat)
  BY DEF OpToRel
<1>2. IsWellFoundedOn(R, Nat)
  BY <1>1, NatLessThanWellFounded
<1>3. \E x \in T : \A y \in T : ~(<<y, x>> \in R)
  <2> HIDE DEF R
  <2> QED BY <1>2, WFMin
<1>4. PICK n \in T : \A y \in T : <<y, n>> \notin R
  BY <1>3
<1>5. ASSUME NEW m \in T PROVE n <= m
  <2>1. ~(m < n)
    BY <1>4
  <2> QED BY <2>1
<1> QED BY <1>5

(* The ORDER BY is a strict order of rows, and total on rows that differ in *)
(* the last column.                                                         *)
LEMMA OrderIrreflexive ==
  ASSUME NEW v, Good(v), NEW r, Fits(v, r)
  PROVE  ~OrderByClause(v, r, r)
<1>1. \A i \in DOMAIN v.columns : r[v.columns[i]] \in Value
  BY DEF Good, Fits
<1> QED BY <1>1, TermOrder DEF OrderByClause

LEMMA OrderTransitive ==
  ASSUME NEW v, Good(v), NEW r, NEW s, NEW t, Fits(v, r), Fits(v, s), Fits(v, t),
         OrderByClause(v, r, s), OrderByClause(v, s, t)
  PROVE  OrderByClause(v, r, t)
<1> DEFINE rv(i) == r[v.columns[i]]
           sv(i) == s[v.columns[i]]
           tv(i) == t[v.columns[i]]
<1>1. Len(v.columns) \in Nat /\ DOMAIN v.columns = 1..Len(v.columns)
      /\ \A i \in DOMAIN v.columns : rv(i) \in Value /\ sv(i) \in Value /\ tv(i) \in Value
  BY DEF Good, Fits
<1>2. PICK i \in DOMAIN v.columns :
         (\A k \in 1..(i - 1) : rv(k) = sv(k)) /\ TermBefore(v, v.columns[i], rv(i), sv(i))
  BY DEF OrderByClause
<1>3. PICK j \in DOMAIN v.columns :
         (\A k \in 1..(j - 1) : sv(k) = tv(k)) /\ TermBefore(v, v.columns[j], sv(j), tv(j))
  BY DEF OrderByClause
<1>4. SUFFICES \E k \in DOMAIN v.columns :
                 (\A l \in 1..(k - 1) : rv(l) = tv(l)) /\ TermBefore(v, v.columns[k], rv(k), tv(k))
  BY DEF OrderByClause
<1> HIDE DEF rv, sv, tv
<1>5. CASE i < j
  <2>1. sv(i) = tv(i) /\ \A l \in 1..(i - 1) : rv(l) = tv(l)
    BY <1>1, <1>2, <1>3, <1>5
  <2> QED BY <1>2, <2>1
<1>6. CASE j < i
  <2>1. rv(j) = sv(j) /\ \A l \in 1..(j - 1) : rv(l) = tv(l)
    BY <1>1, <1>2, <1>3, <1>6
  <2> QED BY <1>3, <2>1
<1>7. CASE i = j
  <2>1. \A l \in 1..(i - 1) : rv(l) = tv(l)
    BY <1>1, <1>2, <1>3, <1>7
  <2>2. TermBefore(v, v.columns[i], rv(i), tv(i))
    BY <1>1, <1>2, <1>3, <1>7, TermOrder
  <2> QED BY <2>1, <2>2
<1> QED BY <1>1, <1>5, <1>6, <1>7

LEMMA OrderTotal ==
  ASSUME NEW v, Good(v), NEW r, NEW s, Fits(v, r), Fits(v, s), r[LastColumn(v)] # s[LastColumn(v)]
  PROVE  OrderByClause(v, r, s) \/ OrderByClause(v, s, r)
<1> DEFINE D == {i \in 1..Len(v.columns) : r[v.columns[i]] # s[v.columns[i]]}
<1>1. Len(v.columns) \in Nat \ {0} /\ DOMAIN v.columns = 1..Len(v.columns)
      /\ \A i \in DOMAIN v.columns : r[v.columns[i]] \in Value /\ s[v.columns[i]] \in Value
  BY DEF Good, Fits
<1>2. D \in SUBSET Nat /\ Len(v.columns) \in D
  BY <1>1 DEF LastColumn
<1>3. PICK i \in D : \A j \in D : i <= j
  BY <1>2, LeastNat
<1>4. \A j \in 1..(i - 1) : r[v.columns[j]] = s[v.columns[j]]
  BY <1>1, <1>3
<1>5. \/ TermBefore(v, v.columns[i], r[v.columns[i]], s[v.columns[i]])
      \/ TermBefore(v, v.columns[i], s[v.columns[i]], r[v.columns[i]])
  BY <1>1, <1>3, TermOrder
<1> QED BY <1>1, <1>4, <1>5 DEF OrderByClause
-----------------------------------------------------------------------------
TruthValues == {"true", "false", "null"}

(* SQL's connectives, as far as WHERE asks for them.                        *)
LEMMA SqlTrue ==
  /\ \A S : SqlOr(S) = "true" <=> "true" \in S
  /\ \A a, b \in TruthValues : SqlAnd({a, b}) = "true" <=> a = "true" /\ b = "true"
  /\ \A a, b \in TruthValues : SqlAnd({a, b}) \in TruthValues
  BY DEF SqlOr, SqlAnd, TruthValues

(* The comparison with a cursor argument is the term of the ORDER BY,       *)
(* where neither is NULL.                                                   *)
LEMMA CompareIsTerm ==
  ASSUME NEW v, NEW c, NEW x \in Value, NEW y \in Value
  PROVE  Compare(v.desc, x, y) = "true" <=> x # NULL /\ y # NULL /\ TermBefore(v, c, y, x)
<1> USE NullAssumption DEF Value, Compare, TermBefore, Truth
<1>1. CASE x = NULL \/ y = NULL
  BY <1>1
<1>2. CASE x # NULL /\ y # NULL /\ v.desc
  BY <1>2
<1>3. CASE x # NULL /\ y # NULL /\ ~v.desc
  BY <1>3
<1> QED BY <1>1, <1>2, <1>3

(* A row comparison of columns without NULLs is the tail of the ORDER BY.   *)
LEMMA RowComparisonIsTail ==
  ASSUME NEW v, Good(v), NEW r, NEW arg, Fits(v, r), Fits(v, arg), NEW from \in Nat \ {0},
         \A i \in from..Len(v.columns) : r[v.columns[i]] # NULL /\ arg[v.columns[i]] # NULL
  PROVE  RowComparison(v, from, r, arg) = "true" <=>
           \E i \in from..Len(v.columns) :
             /\ \A j \in from..(i - 1) : arg[v.columns[j]] = r[v.columns[j]]
             /\ TermBefore(v, v.columns[i], arg[v.columns[i]], r[v.columns[i]])
<1> DEFINE value(i) == r[v.columns[i]]
           given(i) == arg[v.columns[i]]
           equalTo(i) == \A j \in from..(i - 1) :
                           value(j) # NULL /\ given(j) # NULL /\ value(j) = given(j)
           at == {i \in from..Len(v.columns) : equalTo(i)}
<1>1. /\ Len(v.columns) \in Nat
      /\ \A i \in from..Len(v.columns) : value(i) \in Value /\ given(i) \in Value
                                        /\ value(i) # NULL /\ given(i) # NULL
  BY DEF Good, Fits
<1>2. RowComparison(v, from, r, arg) = "true" <=> \E i \in at : Compare(v.desc, value(i), given(i)) = "true"
  BY DEF RowComparison
<1>3. \A i \in from..Len(v.columns) : equalTo(i) <=> \A j \in from..(i - 1) : given(j) = value(j)
  BY <1>1
<1>4. \A i \in from..Len(v.columns) :
         Compare(v.desc, value(i), given(i)) = "true" <=> TermBefore(v, v.columns[i], given(i), value(i))
  BY <1>1, CompareIsTerm
<1> HIDE DEF value, given, equalTo
<1>5. (\E i \in at : Compare(v.desc, value(i), given(i)) = "true") <=>
        \E i \in from..Len(v.columns) : /\ \A j \in from..(i - 1) : given(j) = value(j)
                                       /\ TermBefore(v, v.columns[i], given(i), value(i))
  BY <1>3, <1>4
<1> QED BY <1>2, <1>5 DEF value, given

(* keysetPredicate and orderByClause agree: the rows behind a cursor are    *)
(* the ones the ORDER BY puts after the row it was taken from.              *)
LEMMA PredicateIsAfter ==
  ASSUME NEW v, Good(v), NEW r, NEW arg, Fits(v, r), Fits(v, arg)
  PROVE  KeysetPredicate(v, r, arg) = "true" <=> OrderByClause(v, arg, r)
<1> DEFINE c1 == v.columns[1]
           x == r[c1]
           y == arg[c1]
           nullArm == IF v.desc THEN SqlAnd({Truth(x # NULL), Truth(y = NULL)})
                                ELSE SqlAnd({Truth(x = NULL), Truth(y # NULL)})
           sameLead == IF Len(v.columns) = 1 THEN {}
                       ELSE {SqlAnd({NotDistinct(v, x, y), RowComparison(v, 2, r, arg)})}
           main == IF c1 \notin v.nullable THEN {RowComparison(v, 1, r, arg)}
                   ELSE sameLead \cup {Compare(v.desc, x, y), nullArm}
           tail(from) == \E i \in from..Len(v.columns) :
                           /\ \A j \in from..(i - 1) : arg[v.columns[j]] = r[v.columns[j]]
                           /\ TermBefore(v, v.columns[i], arg[v.columns[i]], r[v.columns[i]])
<1>1. /\ Len(v.columns) \in Nat \ {0} /\ DOMAIN v.columns = 1..Len(v.columns)
      /\ c1 \in Column /\ x \in Value /\ y \in Value
      /\ \A i \in 2..Len(v.columns) : r[v.columns[i]] # NULL /\ arg[v.columns[i]] # NULL
      /\ c1 \notin v.nullable => x # NULL /\ y # NULL
      /\ c1 \in v.nullable => Len(v.columns) >= 2
  BY DEF Good, Fits
<1>2. ~FirstPage(v, arg)
  <2>1. CASE Len(v.columns) = 1
    <3>1. c1 \notin v.nullable
      BY <1>1, <2>1
    <3> QED BY <1>1, <2>1, <3>1 DEF FirstPage
  <2>2. CASE Len(v.columns) # 1
    <3>1. Len(v.columns) \in 2..Len(v.columns)
      <4>1. Len(v.columns) \in Nat \ {0}
        BY <1>1
      <4>2. \A n \in Nat \ {0} : n # 1 => n \in 2..n
        OBVIOUS
      <4> QED BY <2>2, <4>1, <4>2
    <3> QED BY <1>1, <3>1 DEF FirstPage
  <2> QED BY <2>1, <2>2
<1>3. KeysetPredicate(v, r, arg) = "true" <=> "true" \in main
  <2>1. Truth(FirstPage(v, arg)) = "false"
    BY <1>2 DEF Truth
  <2>2. KeysetPredicate(v, r, arg) = SqlOr(main \cup {Truth(FirstPage(v, arg))})
    BY DEF KeysetPredicate
  <2> HIDE DEF main
  <2> QED BY <2>1, <2>2, SqlTrue
<1>4. OrderByClause(v, arg, r) <=> tail(1)
  BY <1>1 DEF OrderByClause
<1>5. CASE c1 \notin v.nullable
  <2>1. \A i \in 1..Len(v.columns) : r[v.columns[i]] # NULL /\ arg[v.columns[i]] # NULL
    BY <1>1, <1>5
  <2>2. RowComparison(v, 1, r, arg) = "true" <=> tail(1)
    BY <2>1, RowComparisonIsTail
  <2> QED BY <1>3, <1>4, <1>5, <2>2
<1>6. CASE c1 \in v.nullable
  <2>1. Len(v.columns) # 1
    <3>1. Len(v.columns) \in Nat /\ Len(v.columns) >= 2
      BY <1>1, <1>6
    <3>2. \A n \in Nat : n >= 2 => n # 1
      OBVIOUS
    <3> QED BY <3>1, <3>2
  <2>2. RowComparison(v, 2, r, arg) = "true" <=> tail(2)
    BY <1>1, RowComparisonIsTail
  <2>3. RowComparison(v, 2, r, arg) \in TruthValues
    BY DEF RowComparison, TruthValues
  <2>4. /\ NotDistinct(v, x, y) = "true" <=> x = y
        /\ NotDistinct(v, x, y) \in TruthValues
    <3>1. CASE ~v.native
      BY <3>1 DEF NotDistinct, Truth, TruthValues
    <3>2. CASE v.native /\ x = NULL /\ y = NULL
      BY <3>2 DEF NotDistinct, Truth, TruthValues, SqlOr, SqlAnd
    <3>3. CASE v.native /\ (x = NULL \/ y = NULL) /\ x # y
      BY <3>3 DEF NotDistinct, Truth, TruthValues, SqlOr, SqlAnd
    <3>4. CASE v.native /\ x # NULL /\ y # NULL
      BY <3>4 DEF NotDistinct, Truth, TruthValues, SqlOr, SqlAnd
    <3> QED BY <3>1, <3>2, <3>3, <3>4
  <2>5. nullArm = "true" \/ Compare(v.desc, x, y) = "true" <=> TermBefore(v, c1, y, x)
    <3>1. Compare(v.desc, x, y) = "true" <=> x # NULL /\ y # NULL /\ TermBefore(v, c1, y, x)
      BY <1>1, CompareIsTerm
    <3>2. NullsFirst(v, c1) <=> v.desc
      BY <1>6 DEF NullsFirst
    <3>3. nullArm = "true" <=> IF v.desc THEN x # NULL /\ y = NULL ELSE x = NULL /\ y # NULL
      <4>1. CASE v.desc
        BY <4>1 DEF SqlAnd, Truth
      <4>2. CASE ~v.desc
        BY <4>2 DEF SqlAnd, Truth
      <4> QED BY <4>1, <4>2
    <3> HIDE DEF nullArm, x, y, c1
    <3>4. CASE x # NULL /\ y # NULL
      BY <3>1, <3>3, <3>4
    <3>5. CASE x = NULL \/ y = NULL
      BY <3>1, <3>2, <3>3, <3>5 DEF TermBefore
    <3> QED BY <3>4, <3>5
  <2>6. tail(1) <=> TermBefore(v, c1, y, x) \/ (x = y /\ tail(2))
    <3> DEFINE same(j) == arg[v.columns[j]] = r[v.columns[j]]
               term(i) == TermBefore(v, v.columns[i], arg[v.columns[i]], r[v.columns[i]])
    <3>1. Len(v.columns) \in Nat \ {0}
      BY <1>1
    <3> SUFFICES (\E i \in 1..Len(v.columns) : (\A j \in 1..(i - 1) : same(j)) /\ term(i)) <=>
                 term(1) \/ (same(1) /\ \E i \in 2..Len(v.columns) :
                                           (\A j \in 2..(i - 1) : same(j)) /\ term(i))
      BY DEF tail
    <3> HIDE DEF same, term
    <3>2. ASSUME NEW i \in 1..Len(v.columns), \A j \in 1..(i - 1) : same(j), term(i)
          PROVE  term(1) \/ (same(1) /\ \E k \in 2..Len(v.columns) :
                                           (\A j \in 2..(k - 1) : same(j)) /\ term(k))
      <4>1. CASE i = 1
        BY <3>2, <4>1
      <4>2. CASE i # 1
        <5>1. i \in 2..Len(v.columns) /\ 1 \in 1..(i - 1) /\ 2..(i - 1) \subseteq 1..(i - 1)
          BY <3>1, <4>2
        <5> QED BY <3>2, <5>1
      <4> QED BY <4>1, <4>2
    <3>3. ASSUME term(1) PROVE \E i \in 1..Len(v.columns) : (\A j \in 1..(i - 1) : same(j)) /\ term(i)
      BY <3>1, <3>3
    <3>4. ASSUME same(1), NEW k \in 2..Len(v.columns), \A j \in 2..(k - 1) : same(j), term(k)
          PROVE  \E i \in 1..Len(v.columns) : (\A j \in 1..(i - 1) : same(j)) /\ term(i)
      <4>1. k \in 1..Len(v.columns) /\ \A j \in 1..(k - 1) : j = 1 \/ j \in 2..(k - 1)
        BY <3>1
      <4> QED BY <3>4, <4>1
    <3> QED BY <3>2, <3>3, <3>4
  <2>7. "true" \in main <=>
          \/ SqlAnd({NotDistinct(v, x, y), RowComparison(v, 2, r, arg)}) = "true"
          \/ Compare(v.desc, x, y) = "true" \/ nullArm = "true"
    <3> HIDE DEF nullArm, x, y
    <3>1. main = {SqlAnd({NotDistinct(v, x, y), RowComparison(v, 2, r, arg)})}
                   \cup {Compare(v.desc, x, y), nullArm}
      BY <1>6, <2>1
    <3> HIDE DEF main
    <3> QED BY <3>1
  <2>8. SqlAnd({NotDistinct(v, x, y), RowComparison(v, 2, r, arg)}) = "true" <=> x = y /\ tail(2)
    BY <2>2, <2>3, <2>4, SqlTrue
  <2> HIDE DEF main, nullArm, tail, x, y
  <2> QED BY <1>3, <1>4, <2>5, <2>6, <2>7, <2>8
<1> QED BY <1>5, <1>6
-----------------------------------------------------------------------------
(* The walk: the cursor is the last row returned so far, every row returned *)
(* so far is it or before it, and every row that was there all along and    *)
(* has not been returned is behind it.                                      *)
Types ==
  /\ variant \in Variants /\ table \subseteq Row /\ seen \subseteq Row
  /\ stable \subseteq table /\ Promised(variant, table)

Cursor ==
  /\ seen = {} => cursor = [c \in Column |-> NULL]
  /\ seen # {} => /\ cursor \in seen
                  /\ \A c \in Column : cursor[c] = NULL => c \in variant.declared

Behind ==
  seen # {} => /\ \A r \in seen : Fits(variant, r) /\ (r = cursor \/ OrderByClause(variant, r, cursor))
               /\ \A r \in stable \ seen : OrderByClause(variant, cursor, r)

IInv == Types /\ Cursor /\ Behind /\ NoRowTwice /\ NoRowSkipped

(* The rows of a table that keeps the promise.                              *)
LEMMA PromisedFits ==
  ASSUME NEW v, NEW T \in SUBSET Row, Promised(v, T)
  PROVE  \A r \in T : Fits(v, r)
  BY RowAssumption DEF Promised, Fits, Value

(* The order is total on it.                                                *)
LEMMA PromisedTotal ==
  ASSUME NEW v, Good(v), NEW T \in SUBSET Row, Promised(v, T), NEW r \in T, NEW s \in T, r # s
  PROVE  OrderByClause(v, r, s) \/ OrderByClause(v, s, r)
<1>1. Fits(v, r) /\ Fits(v, s)
  BY PromisedFits
<1>2. r[LastColumn(v)] # s[LastColumn(v)]
  BY DEF Promised
<1> QED BY <1>1, <1>2, OrderTotal

LEMMA InitIInv == Init => IInv
  BY DEF Init, IInv, Types, Cursor, Behind, NoRowTwice, NoRowSkipped

(* A page: what the WHERE keeps is what is behind the cursor, on the first  *)
(* page everything.                                                         *)
LEMMA MatchingIsBehind ==
  ASSUME BlocksAreSound, IInv
  PROVE  /\ \A r \in Matching : r \in table /\ Fits(variant, r)
         /\ seen = {} => Matching = table
         /\ seen # {} => \A r \in table : r \in Matching <=> OrderByClause(variant, cursor, r)
<1>1. Good(variant) /\ \A r \in table : Fits(variant, r)
  BY VariantsAreGood, PromisedFits DEF IInv, Types
<1>2. ASSUME seen = {} PROVE Matching = table
  <2>1. cursor = [c \in Column |-> NULL]
    BY <1>2 DEF IInv, Cursor
  <2>2. FirstPage(variant, cursor)
    BY <1>1, <2>1 DEF FirstPage, Good
  <2>3. \A r \in table : KeysetPredicate(variant, r, cursor) = "true"
    BY <2>2, SqlTrue DEF KeysetPredicate, Truth
  <2> QED BY <2>3 DEF Matching
<1>3. ASSUME seen # {}, NEW r \in table PROVE r \in Matching <=> OrderByClause(variant, cursor, r)
  <2>1. Fits(variant, cursor)
    BY <1>3 DEF IInv, Cursor, Behind
  <2> QED BY <1>1, <2>1, PredicateIsAfter DEF Matching
<1> QED BY <1>1, <1>2, <1>3 DEF Matching

LEMMA FetchPageIInv ==
  ASSUME BlocksAreSound, IInv, FetchPage
  PROVE  IInv'
<1>1. PICK page \in SUBSET Matching :
         /\ \A r \in page, s \in Matching \ page : ~OrderByClause(variant, s, r)
         /\ \/ Cardinality(page) = PageSize /\ done' = FALSE
            \/ page = Matching /\ Cardinality(page) < PageSize /\ done' = TRUE
         /\ seen' = seen \cup page
         /\ twice' = twice \cup (seen \cap page)
         /\ \/ page = {} /\ UNCHANGED cursor
            \/ /\ cursor' \in page
               /\ \A r \in page : ~OrderByClause(variant, cursor', r)
  BY DEF FetchPage
<1>2. variant' = variant /\ table' = table /\ stable' = stable
  BY DEF FetchPage
<1>3. /\ Good(variant) /\ table \in SUBSET Row /\ Promised(variant, table) /\ stable \subseteq table
      /\ page \subseteq table /\ \A r \in table : Fits(variant, r)
  BY VariantsAreGood, MatchingIsBehind, PromisedFits DEF IInv, Types
<1>4. ASSUME seen # {}
      PROVE  /\ Fits(variant, cursor) /\ \A r \in page : OrderByClause(variant, cursor, r)
             /\ \A r \in seen : Fits(variant, r) /\ (r = cursor \/ OrderByClause(variant, r, cursor))
             /\ \A r \in stable \ seen : r \in Matching
  BY <1>3, <1>4, MatchingIsBehind DEF IInv, Types, Cursor, Behind
<1>5. \A r \in stable \ seen : r \in Matching
  BY <1>3, <1>4, MatchingIsBehind
<1>6. page = {} => page = Matching
  <2>1. Cardinality({}) = 0 /\ PageSize # 0
    BY FS_EmptySet, PageAssumption
  <2> QED BY <1>1, <2>1
<1>7. Types'
  BY <1>1, <1>2, <1>3 DEF IInv, Types
<1>8. NoRowTwice'
  <2>1. ASSUME NEW r \in seen, r \in page PROVE FALSE
    <3>1. /\ Fits(variant, cursor) /\ Fits(variant, r) /\ OrderByClause(variant, cursor, r)
          /\ r = cursor \/ OrderByClause(variant, r, cursor)
      BY <1>4, <2>1
    <3>2. ~OrderByClause(variant, r, r)
      BY <1>3, <3>1, OrderIrreflexive
    <3> QED BY <1>3, <3>1, <3>2, OrderTransitive
  <2> QED BY <1>1, <2>1 DEF IInv, NoRowTwice
<1>9. NoRowSkipped'
  BY <1>1, <1>2, <1>5 DEF NoRowSkipped
<1>10. CASE page = {}
  <2>1. seen' = seen /\ cursor' = cursor
    BY <1>1, <1>10
  <2>2. Cursor' /\ Behind'
    BY <1>2, <2>1 DEF IInv, Cursor, Behind
  <2> QED BY <1>7, <1>8, <1>9, <2>2 DEF IInv
<1>11. CASE page # {}
  <2>1. /\ cursor' \in page /\ \A r \in page : ~OrderByClause(variant, cursor', r)
        /\ seen' # {} /\ cursor' \in seen' /\ cursor' \in table /\ Fits(variant, cursor')
    BY <1>1, <1>3, <1>11
  <2>2. Cursor'
    BY <1>2, <2>1 DEF Cursor, Fits
  <2>3. ASSUME NEW r \in seen'
        PROVE  Fits(variant, r) /\ (r = cursor' \/ OrderByClause(variant, r, cursor'))
    <3>1. CASE r \in page
      <4>1. r \in table /\ Fits(variant, r)
        BY <1>3, <3>1
      <4> QED BY <1>3, <2>1, <3>1, <4>1, PromisedTotal
    <3>2. CASE r \in seen
      <4>1. /\ Fits(variant, cursor) /\ Fits(variant, r) /\ OrderByClause(variant, cursor, cursor')
            /\ r = cursor \/ OrderByClause(variant, r, cursor)
        BY <1>4, <2>1, <3>2
      <4> QED BY <1>3, <2>1, <4>1, OrderTransitive
    <3> QED BY <1>1, <3>1, <3>2
  <2>4. ASSUME NEW r \in stable \ seen' PROVE OrderByClause(variant, cursor', r)
    <3>1. r \in Matching \ page /\ r \in table /\ r # cursor'
      BY <1>1, <1>3, <1>5, <2>1
    <3>2. ~OrderByClause(variant, r, cursor')
      BY <1>1, <2>1, <3>1
    <3> QED BY <1>3, <2>1, <3>1, <3>2, PromisedTotal
  <2>5. Behind'
    BY <1>2, <2>3, <2>4 DEF Behind
  <2> QED BY <1>7, <1>8, <1>9, <2>2, <2>5 DEF IInv
<1> QED BY <1>10, <1>11

(* Writes of other sessions leave the walk where it is.                     *)
LEMMA NextIInv == BlocksAreSound /\ IInv /\ [Next]_vars => IInv'
<1> SUFFICES ASSUME BlocksAreSound, IInv, [Next]_vars PROVE IInv'
  OBVIOUS
<1>1. CASE FetchPage
  BY <1>1, FetchPageIInv
<1>2. ASSUME NEW r \in Row, Insert(r) PROVE IInv'
  <2>1. /\ table' = table \cup {r} /\ Promised(variant, table \cup {r}) /\ variant' = variant
        /\ cursor' = cursor /\ seen' = seen /\ twice' = twice /\ stable' = stable /\ done' = done
    BY <1>2 DEF Insert
  <2>2. Types'
    BY <2>1 DEF IInv, Types
  <2>3. Cursor' /\ Behind' /\ NoRowTwice' /\ NoRowSkipped'
    BY <2>1 DEF IInv, Cursor, Behind, NoRowTwice, NoRowSkipped
  <2> QED BY <2>2, <2>3 DEF IInv
<1>3. ASSUME NEW r \in table, Delete(r) PROVE IInv'
  <2>1. /\ table' = table \ {r} /\ variant' = variant /\ stable' = stable \ {r}
        /\ cursor' = cursor /\ seen' = seen /\ twice' = twice /\ done' = done
    BY <1>3 DEF Delete
  <2>2. Types'
    BY <2>1 DEF IInv, Types, Promised
  <2>3. Cursor' /\ Behind' /\ NoRowTwice' /\ NoRowSkipped'
    BY <2>1 DEF IInv, Cursor, Behind, NoRowTwice, NoRowSkipped
  <2> QED BY <2>2, <2>3 DEF IInv
<1>4. CASE UNCHANGED vars
  BY <1>4 DEF vars, IInv, Types, Cursor, Behind, NoRowTwice, NoRowSkipped
<1> QED BY <1>1, <1>2, <1>3, <1>4 DEF Next, WalkEnded

(* The invariant holds all along every walk by a statement of sound blocks. *)
THEOREM IInvHolds == BlocksAreSound => (Spec => []IInv)
<1> SUFFICES ASSUME BlocksAreSound PROVE Spec => []IInv
  OBVIOUS
<1>1. Init => IInv
  BY InitIInv
<1>2. IInv /\ [Next]_vars => IInv'
  BY NextIInv
<1> QED BY <1>1, <1>2, PTL DEF Spec

(* No walk returns a row twice, whatever other sessions write: for every    *)
(* table, every page size and every sound set of sort blocks.               *)
THEOREM NoRowIsReturnedTwice == BlocksAreSound => (Spec => []NoRowTwice)
<1> SUFFICES ASSUME BlocksAreSound PROVE Spec => []NoRowTwice
  OBVIOUS
<1>1. IInv => NoRowTwice
  BY DEF IInv
<1> QED BY <1>1, IInvHolds, PTL

(* A walk that ends has returned every row that was there all along, and    *)
(* every cursor it passed fits its parameters.                              *)
THEOREM WalksAreWhole == BlocksAreSound => (Spec => []WalkWhole)
<1> SUFFICES ASSUME BlocksAreSound PROVE Spec => []WalkWhole
  OBVIOUS
<1>1. IInv => WalkWhole
  <2> SUFFICES ASSUME IInv PROVE CursorFits /\ NoRowSkipped
    BY DEF WalkWhole
  <2>1. Good(variant)
    BY VariantsAreGood DEF IInv, Types
  <2>2. CursorFits
    BY <2>1 DEF Good, CursorFits
  <2> QED BY <2>2 DEF IInv
<1> QED BY <1>1, IInvHolds, PTL
(* On every page but the first, the WHERE of the statement keeps exactly    *)
(* the rows its ORDER BY puts after the row the cursor was taken from.      *)
THEOREM WhereFollowsOrderBy == BlocksAreSound => (Spec => []PredicateIsStrictlyAfter)
<1> SUFFICES ASSUME BlocksAreSound PROVE Spec => []PredicateIsStrictlyAfter
  OBVIOUS
<1>1. IInv => PredicateIsStrictlyAfter
  <2> SUFFICES ASSUME IInv, seen # {}, NEW r \in table
               PROVE  KeysetPredicate(variant, r, cursor) = "true" <=> OrderByClause(variant, cursor, r)
    BY DEF PredicateIsStrictlyAfter
  <2>1. Good(variant) /\ Fits(variant, r) /\ Fits(variant, cursor)
    BY VariantsAreGood, PromisedFits DEF IInv, Types, Cursor, Behind
  <2> QED BY <2>1, PredicateIsAfter
<1> QED BY <1>1, IInvHolds, PTL
=============================================================================
