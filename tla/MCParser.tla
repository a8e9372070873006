------------------------------ MODULE MCParser ------------------------------
(***************************************************************************)
(* Files of up to two statements: what stands above the statement, what it  *)
(* is made of, and how it ends.  A piece gives the lines it moves down.     *)
(***************************************************************************)
EXTENDS Parser, SequencesExt

Comment(name, pragma, down) ==
  [tok |-> "LineComment", name |-> name, pragma |-> pragma, line |-> down]
Fragment(close, open, down) ==
  [tok |-> "QueryFragment", close |-> close, open |-> open, line |-> down]
Str(name)  == [tok |-> "String", name |-> name, line |-> 0]
Only(tok)  == [tok |-> tok, line |-> 0]

Select  == Fragment(FALSE, FALSE, 1)
Open    == Fragment(FALSE, TRUE, 1)
Close   == Fragment(TRUE, FALSE, 0)
Reopen  == Fragment(TRUE, TRUE, 0)

Headers ==
  {<<>>, <<Comment("a", "none", 1)>>, <<Comment("b", "paginate", 1)>>, <<Comment("a", "invalid", 1)>>,
   <<Comment("b", "unknownSpec", 1)>>, <<Comment("text", "none", 1), Comment("a", "none", 1)>>,
   <<Comment("b", "none", 2), Comment("text", "none", 2)>>, <<Comment("b", "none", 0)>>}
Bodies ==
  {<<Select>>, <<Select, Comment("text", "none", 0), Select>>, <<Open, Str("a"), Close>>,
   <<Open, Str("a"), Reopen, Str("b"), Reopen, Str("a"), Close>>, <<Open, Str("unquoted"), Close>>,
   <<Open, Str("b"), Select>>, <<Open, Select>>, <<Open, Comment("b", "none", 1), Select>>,
   <<[Select EXCEPT !.line = 2]>>,
   <<[Only("BlockComment") EXCEPT !.line = 1], Select, Only("QuotedIdent")>>}
Ends == {<<Only("Semicolon")>>, <<>>}

Statements == {h \o b \o e : h \in Headers, b \in Bodies, e \in Ends}
Texts == {<<>>} \cup Statements \cup {s \o t : s \in Statements, t \in Statements}

(* Lines are counted from 1; a line comment ends its line.                  *)
Place(t) ==
  LET down(k) == IF k > 1 /\ t[k - 1].tok = "LineComment" /\ t[k].line = 0 THEN 1 ELSE t[k].line
      L[k \in 0..Len(t)] == IF k = 0 THEN 1 ELSE L[k - 1] + (IF k = 1 THEN 0 ELSE down(k))
  IN [k \in DOMAIN t |-> [t[k] EXCEPT !.line = L[k]]]
Ending(tok) == {Append(t, Only(tok)) : t \in Texts}
MCFiles == {Place(t) : t \in Ending("EOF") \cup {u \in Ending("Illegal") : Len(u) < 6}}

(* A comment behind the semicolon of the first query, above the second.     *)
Trailing == {Place(<<Comment("a", "none", 1), Select, Only("Semicolon"), Comment("b", "none", 0),
                     Select, Only("Semicolon"), Only("EOF")>>)}
=============================================================================
