----------------------------- MODULE MCChQuery -----------------------------
(***************************************************************************)
(* Query files put together from what the two scanners react to, and        *)
(* INSERT statements with each spelling of a target.                        *)
(***************************************************************************)
EXTENDS ChQuery

CONSTANT MaxPieces

Value == <<"{", "a", ":", "S", "}">>
Ident == <<"{", "t", ":", "I", "}">>
Pieces == {Value, Ident, <<";">>, <<"'">>, <<"btick">>, <<"bslash">>,
           <<"-", "-">>, <<"/", "*">>, <<"*", "/">>, <<"newline">>, <<"a">>}
Delims == {<<"'">>, <<"btick">>, <<"bslash">>, <<";">>, <<"-", "-">>, <<"newline">>}
Holes  == {Value, Ident, <<"{", "space", "u", "space", ":", "space", "I", "}">>, <<"{", "a", ":", "b", "}">>,
           <<"{", "b", ":", "S", "}">>, <<"{">>, <<"{", "a", "}">>, <<"'">>, <<"a">>}

Pasted(P, n) == UNION {{FlattenSeq(f) : f \in [1..k -> P]} : k \in 0..n}

Targets == {<<"t">>, <<"a", ".", "t">>, <<"btick", "a", ".", "t", "btick">>, <<"b">>,
            <<"btick", "a", "btick", ".", "dquote", "t", "dquote">>, <<"'", "t", "'">>,
            <<"TABLE", "space", "t">>, <<"FUNCTION", "space", "t">>, Ident, <<"t", "-", "-", "newline">>}
Lists   == {<<>>, <<"(", "a", ")">>, <<"(", "a", ",", "btick", "b", "btick", ")">>, <<"(", "u", ")">>,
            <<"(", "a", "/", "*", "*", "/", ")">>, <<"(", "*", ")">>, <<"(", "a">>}
Inserts == {<<"INSERT", "space", "INTO", "space">> \o t \o s \o c : t \in Targets, s \in {<<>>, <<"space">>}, c \in Lists}

(* Files on which the two scanners part, and tokens that a comment divides. *)
Crossed == {<<"btick", "-", "-", "btick", ";", "newline", "a">>, <<"btick", "'", "btick", ";", "'">>,
            <<"btick", "'", "btick", ";", "-", "-", "'">>, <<"'", "bslash", "'", ";", "'">>,
            <<"a", "-", "-", ";", "newline", "a">>, <<"a", "/", "*", ";", "*", "/", "a">>}

MCFiles == {f \o <<";">> : f \in Pasted(Pieces, MaxPieces) \cup Pasted(Holes, MaxPieces)
                                 \cup Pasted(Delims, MaxPieces + 1) \cup Inserts \cup Crossed}

Known   == <<"known">>
MCResults == {<<>>, <<Known>>, <<Known, Known>>, <<Known, <<"unparsable">>>>}
(* Table t, table t of database a, and a table whose name holds a dot.      *)
MCTables ==
  (<<<<"t">>>> :> {<<"a">>, <<"b">>}) @@ (<<<<"a">>, <<"t">>>> :> {<<"a">>, <<"b">>})
    @@ (<<<<"a", ".", "t">>>> :> {<<"a">>})
MCValues == {<<"b">>, <<"a", ".", "b">>, <<>>, <<"a", "'">>, <<"{", "t", ":", "I", "}">>}

(* An identifier parameter, and its text again in a literal; a brace in a   *)
(* comment; a parameter whose name is two words.                            *)
LiteralHole == {Ident \o <<"'">> \o Ident \o <<"'", ";">>}
BadName     == {<<"{", "a", "space", "b", ":", "S", "}", ";">>}
CommentHole == {<<"a", "/", "*">> \o Value \o <<"*", "/">> \o Value \o <<";">>}
=============================================================================
