----------------------------- MODULE MCScanner -----------------------------
(***************************************************************************)
(* Query files put together from the pieces the scanner reacts to.          *)
(***************************************************************************)
EXTENDS Scanner, SequencesExt

CONSTANT MaxPieces

Pieces == {<<"x">>, <<"0">>, <<";">>, <<"'">>, <<"dquote">>, <<"$">>, <<"$", "x", "$">>,
           <<"-", "-">>, <<"-">>, <<"/", "*">>, <<"*", "/">>, <<"newline">>}
Wide   == {<<"e1", "e2">>, <<"space">>, <<"bom">>, <<"e2">>, <<"/">>, <<"'">>, <<"x">>, <<"other">>}

Files(P) == UNION {{FlattenSeq(f) : f \in [1..n -> P]} : n \in 0..MaxPieces}
MCFiles     == Files(Pieces) \cup Files(Wide)

(* A letter beyond ASCII in a dollar-quoted string; a NUL byte.             *)
WideDollar == {<<"$", "$", "e1", "e2", "$", "$", ";", "x">>}
NulFile    == {<<"x", "nul", ";">>}
=============================================================================
