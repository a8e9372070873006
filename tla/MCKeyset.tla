------------------------------ MODULE MCKeyset ------------------------------
(***************************************************************************)
(* Keyset for TLC: tables with a nullable column a, a column b with ties    *)
(* and a unique id, and the sort blocks the README's example stands for.    *)
(***************************************************************************)
EXTENDS Keyset

CONSTANT null
MCColumn == {"a", "b", "id"}
MCRow == {r \in [MCColumn -> {null, 1, 2, 3}] :
            r["a"] \in {null, 1, 2} /\ r["b"] \in {1, 2} /\ r["id"] \in 1..3}

Block(keys, nullable, default, native) ==
  [keys |-> keys, nullable |-> nullable, default |-> default,
   bound |-> MCColumn, strict |-> {}, native |-> native]

(* README: key payment_date: payment_date, payment_id; nullable:            *)
(* payment_date; default: payment_id.  Also three columns, and both         *)
(* dialects.  The last two blocks are refused: a nullable column that is    *)
(* not the leading one, and a ClickHouse parameter that cannot hold NULL.   *)
MCSortSpec ==
  {Block(<< <<"a", "id">> >>, {"a"}, <<"id">>, native) : native \in BOOLEAN}
  \cup {Block(<< <<"a", "b", "id">>, <<"b", "id">> >>, {"a"}, <<"b", "id">>, FALSE),
        Block(<< <<"b", "a", "id">> >>, {"a"}, <<"id">>, FALSE),
        [Block(<< <<"b", "id">> >>, {}, <<"id">>, TRUE) EXCEPT !.strict = {"id"}]}

(* Blocks pggen accepts as well: a key of one nullable column; a default    *)
(* ordering over a column that is marked nullable.                          *)
SingleNullable  == {Block(<< <<"a">> >>, {"a"}, <<"id">>, FALSE)}
NullableDefault == {Block(<< <<"a", "id">> >>, {"a"}, <<"a", "id">>, FALSE)}
=============================================================================
