----------------------------- MODULE MCPgCatalog -----------------------------
(***************************************************************************)
(* A catalog with the rows the statements have to tell apart: an enum with  *)
(* a value added in between, and one without values, a composite            *)
(* nested in a table that also has an array of it, dropped and system       *)
(* columns, a composite without columns and its array, a fixed-length type  *)
(* that can be subscripted, and an OID pg_type does not have.               *)
(***************************************************************************)
EXTENDS PgCatalog

Type(o, k, elem, len, rel) ==
  [oid |-> o, typtype |-> k, typelem |-> elem, typlen |-> len, typrelid |-> rel,
   typisdefined |-> TRUE]

text == 25
mood == 101
img == 104
aimg == 105
product == 106
void == 107
avoid == 108
vec == 109
hollow == 110
gone == 999

MCPgType ==
  {Type(text, "b", 0, -1, 0), Type(mood, "e", 0, 4, 0),
   Type(img, "c", 0, -1, 201), Type(aimg, "b", img, -1, 0), Type(product, "c", 0, -1, 202),
   Type(void, "c", 0, -1, 203), Type(avoid, "b", void, -1, 0), Type(vec, "b", text, 24, 0), Type(hollow, "e", 0, 4, 0)}

Label(o, ord, l) == [oid |-> o, enumtypid |-> mood, enumsortorder |-> ord, enumlabel |-> l]
MCPgEnum == {Label(302, 10, "sad"), Label(304, 20, "happy"), Label(305, 15, "ok")}

MCPgClass == {[oid |-> 201, reltype |-> img], [oid |-> 202, reltype |-> product],
              [oid |-> 203, reltype |-> void]}

Col(rel, n, name, t) ==
  [attrelid |-> rel, attnum |-> n, attname |-> name, atttypid |-> t, attisdropped |-> FALSE]
Dropped(rel, n) == [Col(rel, n, "dropped", 0) EXCEPT !.attisdropped = TRUE]

MCPgAttribute ==
  {Col(201, 1, "url", text), Dropped(201, 2), Col(201, 3, "mood", mood), Col(201, 4, "size", vec),
   Col(202, -1, "ctid", text), Col(202, 1, "main", img), Col(202, 2, "all", aimg),
   Dropped(202, 4), Col(202, 5, "mark", void), Dropped(203, 1)}

MCOID   == {t.oid : t \in MCPgType} \cup {gone}
MCKnown == {text}
MCRequest == {{}} \cup {{o} : o \in MCOID}
             \cup {{product, mood}, {aimg, avoid}, {text, gone}, {void, vec}, {hollow, img}}
=============================================================================
