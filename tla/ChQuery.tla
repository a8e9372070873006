------------------------------ MODULE ChQuery ------------------------------
(***************************************************************************)
(* A ClickHouse query from its file to the server.  The Postgres scanner    *)
(* cuts the statement out of the file; internal/ch reads it again by        *)
(* ClickHouse's rules to find parameters, statements and insert targets;    *)
(* internal/chinfer sends rewritten copies of it to be described; the       *)
(* generated code fills its identifiers in and sends what it holds.         *)
(*                                                                          *)
(* Text is a sequence of bytes.  A keyword, the type String ("S") and the   *)
(* type Identifier ("I") are one byte each; a type is a bare name, of which *)
(* only "S" has a zero literal (ChTypes has the types with arguments).      *)
(***************************************************************************)
EXTENDS Naturals, Sequences, SequencesExt, FiniteSetsExt

CONSTANTS
  Files,    \* query files: sequences of bytes
  Tables,   \* the server's tables: from names (sequences of parts) to columns
  Results,  \* what DESCRIBE may answer: sequences of column types
  Values    \* what a caller passes for an identifier parameter

Quotes    == {"'", "btick", "dquote"}
Blanks    == {"space", "newline"}
Letters   == {"a", "b", "t", "u", "S", "I", "INSERT", "INTO", "TABLE", "FUNCTION", "cast", "AS",
              "pggen_param_"}
Digits    == <<"0", "1", "2">>               \* of a query's up to three parameters
WordBytes == Letters \cup Range(Digits)      \* isIdentByte
Text      == Seq(Quotes \cup Blanks \cup WordBytes
                 \cup {"bslash", "-", "/", "*", ";", "{", "}", ":", "(", ")", ",", ".", "@"})

ASSUME ChQueryAssumption ==
  /\ Files \subseteq Text /\ Values \subseteq Text
  /\ \A n \in DOMAIN Tables : n \in Seq(Text) /\ Tables[n] \subseteq Text
  /\ Results \subseteq Seq({<<"known">>, <<"unparsable">>})

VARIABLES
  file, sql,  \* the query file and the PreparedSQL cut out of it
  kind,       \* "exec" or "rows" (:one and :many)
  pc,         \* the place in InferTypes, then in the generated method
  params,     \* ch.ScanParams: [name, type] in order of first appearance
  stmt,       \* what the server was asked to analyse
  args,       \* the parameter names bound for it
  target,     \* checkInsertTarget: ScanInsertTarget's answer
  rows, cells, \* rows of DESCRIBE still to come, and those scanned
  call, todo, \* the generated method: its SQL so far, identifiers to fill in
  value       \* the caller's identifiers

infer == <<stmt, args, target, rows, cells>>
vars  == <<file, sql, kind, pc, params, infer, call, todo, value>>

-----------------------------------------------------------------------------
(* skipLiteral, skipComment: the index just past what begins at i, or i.    *)
First(S, else) == IF S = {} THEN else ELSE Min(S)

SkipLiteral(s, i) ==
  IF s[i] \notin Quotes THEN i
  ELSE LET escapes[j \in i..Len(s)] == j > i /\ s[j] = "bslash" /\ ~escapes[j - 1]
       IN First({j \in (i + 1)..Len(s) : s[j] = s[i] /\ ~escapes[j - 1]}, Len(s)) + 1

At(s, i, c, d) == i < Len(s) /\ s[i] = c /\ s[i + 1] = d
SkipComment(s, i) ==
  IF At(s, i, "-", "-") THEN First({j \in (i + 2)..Len(s) : s[j] = "newline"}, Len(s) + 1)
  ELSE IF At(s, i, "/", "*") THEN First({j \in (i + 2)..Len(s) : At(s, j, "*", "/")}, Len(s) - 1) + 2
  ELSE i

Trim(s) ==
  LET ink == {i \in DOMAIN s : s[i] \notin Blanks}
  IN IF ink = {} THEN <<>> ELSE SubSeq(s, Min(ink), Max(ink))

(* {name:Type}, from its { at i; the body runs to the next }, whatever is   *)
(* between.  Parse takes a bare name.                                       *)
Param(s, i) ==
  LET end   == First({j \in i..Len(s) : s[j] = "}"}, 0)
      body  == SubSeq(s, i + 1, end - 1)
      colon == First({j \in DOMAIN body : body[j] = ":"}, 0)
      name  == Trim(SubSeq(body, 1, colon - 1))
      type  == Trim(SubSeq(body, colon + 1, Len(body)))
  IN IF end = 0 \/ colon = 0 \/ name = <<>> \/ type = <<>> \/ ~(Range(type) \subseteq WordBytes)
     THEN [is |-> "bad", lo |-> i, hi |-> Len(s)]
     ELSE [is |-> "param", lo |-> i, hi |-> end, name |-> name, type |-> type]

(* The walk that scanSQL and SplitStatements have in common: comments,      *)
(* literals, parameters (for scanSQL) and single bytes, in order.           *)
Walk(s, braces) ==
  LET piece(i) ==
        IF SkipComment(s, i) # i THEN [is |-> "comment", lo |-> i, hi |-> SkipComment(s, i) - 1]
        ELSE IF SkipLiteral(s, i) # i THEN [is |-> "literal", lo |-> i, hi |-> SkipLiteral(s, i) - 1]
        ELSE IF braces /\ s[i] = "{" THEN Param(s, i)
        ELSE [is |-> "byte", lo |-> i, hi |-> i]
      from[i \in 1..(Len(s) + 1)] ==
        IF i > Len(s) THEN <<>> ELSE <<piece(i)>> \o from[piece(i).hi + 1]
  IN from[1]
Slice(s, p) == SubSeq(s, p.lo, p.hi)

(* scanSQL: refused if a parameter is malformed; else its text with every   *)
(* parameter replaced.                                                      *)
Malformed(s) == \E p \in Range(Walk(s, TRUE)) : p.is = "bad"
ScanSQL(s, OnParam(_)) ==
  LET w == Walk(s, TRUE)
  IN FlattenSeq([k \in DOMAIN w |-> IF w[k].is = "param" THEN OnParam(w[k]) ELSE Slice(s, w[k])])

Hole(name, type) == <<"{">> \o name \o <<":">> \o type \o <<"}">>
Cast(name, type) ==
  <<"cast", "(", "@">> \o name \o <<"space", "AS", "space">> \o type \o <<")">>
IsIdentifier(p)  == p.type = <<"I">>

(* ScanParams: parameters in order of first appearance.                     *)
(* Mutant: a repeated parameter is a second input.                          *)
ScanParamsRepeated(s) ==
  LET all == SelectSeq(Walk(s, TRUE), LAMBDA p : p.is = "param")
  IN [k \in DOMAIN all |-> [name |-> all[k].name, type |-> all[k].type]]
ScanParams(s) ==
  LET all == SelectSeq(Walk(s, TRUE), LAMBDA p : p.is = "param")
      first(k) == \A j \in 1..(k - 1) : all[j].name # all[k].name
      keep == SelectSeq([k \in DOMAIN all |-> k], first)
  IN [k \in DOMAIN keep |-> [name |-> all[keep[k]].name, type |-> all[keep[k]].type]]
Disagree(s) ==
  \E p, q \in Range(Walk(s, TRUE)) :
    p.is = "param" /\ q.is = "param" /\ p.name = q.name /\ p.type # q.type

SubstituteIdentifiers(s) ==
  ScanSQL(s, LAMBDA p : IF IsIdentifier(p) THEN p.name ELSE Hole(p.name, p.type))
RewriteParams(s) ==
  ScanSQL(s, LAMBDA p : IF IsIdentifier(p) THEN Hole(p.name, p.type) ELSE Cast(p.name, p.type))
RenameParams(s, names) ==
  ScanSQL(s, LAMBDA p : Hole(IF p.name \in DOMAIN names THEN names[p.name] ELSE <<>>, p.type))

(* SplitStatements: a comment becomes a newline.  Mutant: it vanishes.      *)
NoSeparator == <<>>
Separator   == <<"newline">>
SplitStatements(s) ==
  LET add(parts, p) ==
        IF p.is = "byte" /\ s[p.lo] = ";" THEN Append(parts, <<>>)
        ELSE [parts EXCEPT ![Len(parts)] = @ \o IF p.is = "comment" THEN Separator ELSE Slice(s, p)]
      keep(parts, t) == IF Trim(t) = <<>> THEN parts ELSE Append(parts, Trim(t))
  IN FoldLeft(keep, <<>>, FoldLeft(add, <<<<>>>>, Walk(s, FALSE)))
Single(s) == Len(SplitStatements(s)) = 1

-----------------------------------------------------------------------------
(* insert.go: the places up to which the functions read.                    *)
SkipSpaceAndComments(s, i) ==
  LET skip[j \in i..(Len(s) + 1)] ==
        IF j > Len(s) THEN j
        ELSE IF s[j] \in Blanks THEN skip[j + 1]
        ELSE IF SkipComment(s, j) # j THEN skip[SkipComment(s, j)] ELSE j
  IN skip[i]
ReadWord(s, i) == First({j \in i..Len(s) : s[j] \notin WordBytes}, Len(s) + 1)
Word(s, i)     == SubSeq(s, i, ReadWord(s, i) - 1)

Unescape(s) ==
  LET escapes[j \in 0..Len(s)] == j > 0 /\ s[j] = "bslash" /\ ~escapes[j - 1] /\ j < Len(s)
  IN FlattenSeq([j \in DOMAIN s |-> IF escapes[j] THEN <<>> ELSE <<s[j]>>])
(* From a place to [name, next]; the name is empty if there is none.        *)
ReadIdent(s) == [i \in 1..(Len(s) + 1) |->
  LET none == [name |-> <<>>, next |-> i]
      end  == IF i > Len(s) THEN i ELSE SkipLiteral(s, i)
  IN IF i > Len(s) THEN none
     ELSE IF end = i THEN [name |-> Word(s, i), next |-> ReadWord(s, i)]
     ELSE IF s[i] = "'" THEN none
     ELSE IF end < i + 2 \/ s[end - 1] # s[i] THEN [none EXCEPT !.next = end]
     ELSE [name |-> Unescape(SubSeq(s, i + 1, end - 2)), next |-> end]]
ReadQualifiedIdent(s, i) ==
  LET r == ReadIdent(s)[i]
      q == ReadIdent(s)[r.next + 1]
      dotted == r.next <= Len(s) /\ s[r.next] = "."
  IN IF r.name = <<>> \/ (dotted /\ q.name = <<>>) THEN [name |-> <<>>, next |-> i]
     ELSE IF dotted THEN [name |-> r.name \o <<".">> \o q.name, next |-> q.next]
     ELSE r
(* The names of a column list, or "give up": anything but names and commas. *)
ReadColumnList(s, i) ==
  LET more[j \in i..(Len(s) + 1)] ==
        LET r     == ReadIdent(s)[j]
            after == SkipSpaceAndComments(s, r.next)
            next  == IF after <= Len(s) /\ s[after] = ","
                     THEN SkipSpaceAndComments(s, after + 1) ELSE after
        IN IF j > Len(s) THEN [ok |-> FALSE, names |-> <<>>]
           ELSE IF s[j] = ")" THEN [ok |-> TRUE, names |-> <<>>]
           ELSE IF r.name = <<>> THEN [ok |-> FALSE, names |-> <<>>]
           ELSE [more[next] EXCEPT !.names = <<r.name>> \o @]
  IN more[SkipSpaceAndComments(s, i + 1)]

NoTarget == [ok |-> FALSE, sqlName |-> <<>>, columns |-> <<>>]
(* Mutant: the table is named without its quotes.                           *)
SQLNameUnquoted(s, i) == ReadQualifiedIdent(s, i).name
SQLName(s, i) == SubSeq(s, i, ReadQualifiedIdent(s, i).next - 1)
NextWord(s, i) == SkipSpaceAndComments(s, ReadWord(s, i))
ListAt(s, table, i) ==
  IF i > Len(s) \/ s[i] # "(" THEN table
  ELSE LET list == ReadColumnList(s, i)
       IN IF list.ok THEN [table EXCEPT !.columns = list.names] ELSE NoTarget
TableAt(s, i) ==
  LET t == ReadQualifiedIdent(s, i)
  IN IF t.name = <<>> THEN NoTarget
     ELSE ListAt(s, [ok |-> TRUE, sqlName |-> SQLName(s, i), columns |-> <<>>],
                 SkipSpaceAndComments(s, t.next))
TargetAt(s, i) ==
  CASE Word(s, i) = <<"FUNCTION">> -> NoTarget
    [] Word(s, i) = <<"TABLE">>    -> TableAt(s, NextWord(s, i))
    [] OTHER                       -> TableAt(s, i)
ScanInsertTarget(s) ==
  LET insert == SkipSpaceAndComments(s, 1)
      into   == NextWord(s, insert)
  IN IF Word(s, insert) # <<"INSERT">> \/ Word(s, into) # <<"INTO">> THEN NoTarget
     ELSE TargetAt(s, NextWord(s, into))

-----------------------------------------------------------------------------
(* The Postgres scanner reads the file first.  Its tokens are those of the  *)
(* grammar that Scanner's TokenGrammar checks it against; what Postgres     *)
(* gives no meaning to is "other".                                          *)
Pg(b) == IF b \in Letters THEN "x" ELSE IF b \in Range(Digits) THEN "0"
         ELSE IF b \in {"'", "dquote", "-", "/", "*", ";", "space", "newline"} THEN b ELSE "other"
PgScanner(text) ==
  INSTANCE Scanner WITH Source <- {text}, src <- text, at <- [off |-> 0], mode <- "scan",
                        lo <- 0, count <- 0, toks <- <<>>
(* The statement the parser takes: from the first token that is no line     *)
(* comment to the first semicolon; empty if there is none.                  *)
Cut(f, text) ==
  LET token(l) == {<<tok, h>> \in {"LineComment", "BlockComment", "String", "QuotedIdent",
                                   "QueryFragment", "Semicolon"} \X ((l + 1)..Len(f)) :
                     PgScanner(text)!IsToken(tok, l, h)}
      cut[l \in 0..Len(f), start \in 0..(Len(f) + 1)] ==
        IF l < Len(f) /\ f[l + 1] \in Blanks THEN cut[l + 1, start]
        ELSE LET t == token(l) IN
             IF t = {} THEN <<>>
             ELSE LET k     == (CHOOSE x \in t : TRUE)[1]
                      h     == (CHOOSE x \in t : TRUE)[2]
                      begin == IF start > Len(f) /\ k # "LineComment" THEN l ELSE start
                  IN IF k = "Semicolon" THEN SubSeq(f, begin + 1, h) ELSE cut[h, begin]
  IN cut[0, Len(f) + 1]
Statement(f) == Cut(f, [i \in DOMAIN f |-> Pg(f[i])])

-----------------------------------------------------------------------------
(* ClickHouse's own reading of a text, byte by byte: where it is after      *)
(* byte i.                                                                  *)
Modes(s) ==
  LET in(m, q) == [m |-> m, q |-> q]
      mode[i \in 0..Len(s)] ==
        LET was == mode[i - 1].m
            q   == mode[i - 1].q
        IN CASE i = 0 -> in("code", "none")
             [] i > 0 /\ was = "code" ->
                  IF s[i] \in Quotes THEN in("quoted", s[i])
                  ELSE IF s[i] = "{" THEN in("param", "none")
                  ELSE IF At(s, i, "-", "-") THEN in("line", "none")
                  ELSE IF At(s, i, "/", "*") THEN in("open", "none") ELSE in("code", "none")
             [] i > 0 /\ was = "quoted" ->
                  IF s[i] = "bslash" THEN in("escaped", q)
                  ELSE IF s[i] = q THEN in("code", "none") ELSE in("quoted", q)
             [] i > 0 /\ was = "escaped" -> in("quoted", q)
             [] i > 0 /\ was = "param" -> IF s[i] = "}" THEN in("code", "none") ELSE in("param", "none")
             [] i > 0 /\ was = "line" -> IF s[i] = "newline" THEN in("code", "none") ELSE in("line", "none")
             [] i > 0 /\ was = "open" -> in("block", "none")
             [] i > 0 /\ was = "block" -> IF At(s, i, "*", "/") THEN in("close", "none") ELSE in("block", "none")
             [] i > 0 /\ was = "close" -> in("code", "none")
  IN [i \in 0..Len(s) |-> mode[i].m]

(* What a text says: its code and literals; comments, blanks and their      *)
(* number do not count.  A parameter counts as what Fill puts in its place. *)
Squash(s) ==
  FlattenSeq([i \in DOMAIN s |->
    IF \/ s[i] # "blank"
       \/ i > 1 /\ s[i - 1] # "blank" /\ \E j \in (i + 1)..Len(s) : s[j] # "blank"
    THEN <<s[i]>> ELSE <<>>])
Meaning(s, Fill(_)) ==
  LET m == Modes(s)
      body(i) == SubSeq(s, 1 + Max({j \in 0..(i - 1) : m[j] # "param"}), i)
      blank(t) == [i \in DOMAIN t |-> IF t[i] \in Blanks THEN "blank" ELSE t[i]]
      says(i) ==
        CASE m[i] = "param" -> <<>>
          [] m[i - 1] = "param" /\ m[i] # "param" -> 
               IF Param(body(i), 1).is = "bad" THEN <<"bad">> ELSE blank(Fill(Param(body(i), 1)))
          [] {m[i - 1], m[i]} \cap {"line", "open", "block", "close"} # {} -> <<"blank">>
          [] m[i - 1] = "code" /\ m[i] = "code" -> blank(<<s[i]>>)
          [] OTHER -> <<s[i]>>
  IN Squash(FlattenSeq([i \in DOMAIN s |-> says(i)]))

(* Its statements: cut at the semicolons of its code; the last one is what  *)
(* is left, which may be open.                                              *)
Statements(s) ==
  LET m    == Modes(s)
      cuts == {i \in DOMAIN s : s[i] = ";" /\ m[i - 1] = "code"}
      ends == SetToSortSeq(cuts \cup {Len(s) + 1}, <)
  IN [k \in DOMAIN ends |-> SubSeq(s, 1 + (IF k = 1 THEN 0 ELSE ends[k - 1]), ends[k] - 1)]

-----------------------------------------------------------------------------
Init ==
  /\ file \in Files
  /\ sql = Statement(file) /\ sql # <<>>
  /\ kind \in {"exec", "rows"}
  /\ pc = "scan" /\ params = <<>> /\ stmt = <<>> /\ args = {} /\ target = NoTarget
  /\ rows = <<>> /\ cells = <<>> /\ call = <<>> /\ todo = {} /\ value = <<>>

(* InferTypes: the inputs come from the text alone.                         *)
InferParams ==
  /\ pc = "scan"
  /\ IF Malformed(sql) \/ Disagree(sql)
     THEN pc' = "error" /\ UNCHANGED params
     ELSE pc' = "prepare" /\ params' = ScanParams(sql)
  /\ UNCHANGED <<file, sql, kind, infer, call, todo, value>>

(* prepare: identifiers become their own names, other parameters are        *)
(* renamed and bound to a zero literal.                                     *)
Bound == {i \in DOMAIN params : ~IsIdentifier(params[i])}
DescribeNames ==
  [n \in {params[i].name : i \in Bound} |->
     <<"pggen_param_", Digits[CHOOSE i \in Bound : params[i].name = n]>>]
BoundNames == {<<"pggen_param_", Digits[i]>> : i \in Bound}
Prepare ==
  /\ pc = "prepare"
  /\ \E named \in {SubstituteIdentifiers(sql)} : \E sent \in {RenameParams(named, DescribeNames)} :
       IF Malformed(named) \/ (\E i \in Bound : params[i].type # <<"S">>) \/ ~Single(sent)
       THEN pc' = "error" /\ UNCHANGED <<stmt, args>>
       ELSE /\ pc' = IF kind = "exec" THEN "explain" ELSE "describe"
            /\ stmt' = SplitStatements(sent)[1] /\ args' = BoundNames
  /\ UNCHANGED <<file, sql, kind, params, target, rows, cells, call, todo, value>>

(* The server refuses a literal, comment or parenthesis that is not closed  *)
(* before the text it is spliced into goes on, and a parameter that is not  *)
(* set; what else it refuses is its own affair.                             *)
Readable(s) ==
  LET m == Modes(s)
      count(c) == Cardinality({i \in DOMAIN s : s[i] = c /\ m[i - 1] = "code"})
  IN m[Len(s)] = "code" /\ count("(") = count(")")
HoleNames(s) ==
  {Param(s, i).name : i \in {j \in DOMAIN s : s[j] = "{" /\ Modes(s)[j - 1] = "code"}}
MayAccept(s, set) == Readable(s) /\ ~Malformed(s) /\ HoleNames(s) \subseteq set

ExplainAST ==
  /\ pc = "explain"
  /\ \/ pc' = "error"
     \/ MayAccept(stmt, args) /\ pc' = "target"
  /\ UNCHANGED <<file, sql, kind, params, infer, call, todo, value>>

Describe ==
  /\ pc = "describe"
  /\ \/ pc' = "error" /\ UNCHANGED rows
     \/ MayAccept(stmt, args) /\ pc' = "rows" /\ rows' \in Results
  /\ UNCHANGED <<file, sql, kind, params, stmt, args, target, cells, call, todo, value>>

(* The parts of a name, as the server reads it: quoted or bare, by dots.    *)
NameParts(s) ==
  LET m    == Modes(s)
      dots == {i \in DOMAIN s : s[i] = "." /\ m[i - 1] = "code"}
      ends == SetToSortSeq(dots \cup {Len(s) + 1}, <)
      part(k) == SubSeq(s, 1 + (IF k = 1 THEN 0 ELSE ends[k - 1]), ends[k] - 1)
      bare(t) == IF t # <<>> /\ t[1] \in Quotes THEN Unescape(SubSeq(t, 2, Len(t) - 1)) ELSE t
  IN [k \in DOMAIN ends |-> bare(part(k))]

(* checkInsertTarget reads the query as written, holes and all.             *)
CheckTarget(t) ==
  \/ ~t.ok /\ pc' = "typed" /\ UNCHANGED <<target, rows>>
  \/ t.ok /\ pc' = "error" /\ UNCHANGED <<target, rows>>
  \/ /\ t.ok /\ pc' = "columns" /\ target' = t
     /\ \E name \in DOMAIN Tables \cap {NameParts(t.sqlName)} : rows' = SetToSeq(Tables[name])
CheckInsertTarget ==
  /\ pc = "target"
  /\ \/ ~Single(sql) /\ pc' = "error" /\ UNCHANGED <<target, rows>>
     \/ /\ Single(sql)
        /\ \E q \in Range(SplitStatements(sql)) : \E t \in {ScanInsertTarget(q)} : CheckTarget(t)
  /\ UNCHANGED <<file, sql, kind, params, stmt, args, cells, call, todo, value>>

(* The loops over rows.Next, the check of rows.Err after them, and what is  *)
(* done with what was read.                                                 *)
NextRow ==
  /\ pc \in {"rows", "columns"} /\ rows # <<>>
  /\ IF Head(rows) = <<"unparsable">> THEN pc' = "error" /\ UNCHANGED <<rows, cells>>
     ELSE rows' = Tail(rows) /\ cells' = Append(cells, Head(rows)) /\ UNCHANGED pc
  /\ UNCHANGED <<file, sql, kind, params, stmt, args, target, call, todo, value>>

AfterRows ==
  pc' = IF \/ pc = "rows" /\ cells # <<>>
           \/ pc = "columns" /\ Range(target.columns) \subseteq Range(cells)
        THEN "typed" ELSE "error"
RowsEnd ==
  /\ pc \in {"rows", "columns"} /\ rows = <<>>
  /\ AfterRows
  /\ UNCHANGED <<file, sql, kind, params, infer, call, todo, value>>
(* Mutant: rows.Err is not looked at.                                       *)
RowsErrIgnored == AfterRows
RowsErr == pc' = "error"
RowsCut ==
  /\ pc \in {"rows", "columns"}
  /\ RowsErr
  /\ UNCHANGED <<file, sql, kind, params, infer, call, todo, value>>

-----------------------------------------------------------------------------
(* The generated method.  Its SQL constant is RewriteParams of the query;   *)
(* substituteIdentifiers goes through a map, so in any order.               *)
Identifiers == {params[i].name : i \in DOMAIN params \ Bound}
ChIdentifierInputs == Identifiers
CallMethod ==
  /\ pc = "typed"
  /\ value' \in [ChIdentifierInputs -> Values]
  /\ call' = RewriteParams(sql) /\ todo' = ChIdentifierInputs /\ pc' = "fill"
  /\ UNCHANGED <<file, sql, kind, params, infer>>

(* Mutant: any value is let through.                                        *)
AnyIdentifier(v) == TRUE
CheckIdentifier(v) ==
  /\ v # <<>> /\ Range(v) \subseteq WordBytes \cup {"."}
  /\ \A i \in DOMAIN v :
       /\ v[i] = "." => i > 1 /\ i < Len(v) /\ v[i + 1] # "."
       /\ v[i] \in Range(Digits) => i > 1 /\ v[i - 1] # "."

StringsReplaceAll(s, old, new) ==
  LET from[i \in 1..(Len(s) + 1)] ==
        IF i > Len(s) THEN <<>>
        ELSE IF i + Len(old) <= Len(s) + 1 /\ SubSeq(s, i, i + Len(old) - 1) = old THEN new \o from[i + Len(old)]
        ELSE <<s[i]>> \o from[i + 1]
  IN from[1]

SubstituteIdentifier ==
  /\ pc = "fill"
  /\ \E n \in todo :
       IF CheckIdentifier(value[n])
       THEN /\ call' = StringsReplaceAll(call, Hole(n, <<"I">>), value[n])
            /\ todo' = todo \ {n} /\ UNCHANGED pc
       ELSE pc' = "refused" /\ UNCHANGED <<call, todo>>
  /\ UNCHANGED <<file, sql, kind, params, infer, value>>

Send ==
  /\ pc = "fill" /\ todo = {} /\ pc' = "sent"
  /\ UNCHANGED <<file, sql, kind, params, infer, call, todo, value>>

Over == pc \in {"error", "refused", "sent"} /\ UNCHANGED vars

Next == \/ InferParams \/ Prepare \/ ExplainAST \/ Describe \/ CheckInsertTarget
        \/ NextRow \/ RowsEnd \/ RowsCut
        \/ CallMethod \/ SubstituteIdentifier \/ Send \/ Over
Spec == Init /\ [][Next]_vars

-----------------------------------------------------------------------------
Typed == pc \in {"typed", "fill", "refused", "sent"}
TypeOK ==
  /\ sql \in Text /\ stmt \in Text /\ call \in Text
  /\ pc \in {"scan", "prepare", "explain", "describe", "target", "columns", "rows", "error",
             "typed", "fill", "refused", "sent"}
  /\ \A i \in DOMAIN params : params[i] \in [name : Text, type : Text]
  /\ args \subseteq Text /\ todo \subseteq Identifiers

StandIn(p) == IF IsIdentifier(p) THEN p.name ELSE Hole(DescribeNames[p.name], p.type)
AtRun(p)   == IF IsIdentifier(p) THEN value[p.name] ELSE Cast(p.name, p.type)
Keep(p)    == Hole(p.name, p.type)
NonBlank(s) == SelectSeq(Statements(s), LAMBDA t : Meaning(t, Keep) # <<>>)
TheQuery    == NonBlank(file)[1]

(* Two scanners read one file.  Where they disagree on the end of a literal *)
(* or a comment, the query is refused: what was described is the first      *)
(* statement of the file as ClickHouse reads it, all of it and nothing      *)
(* else, whatever comments and semicolons the Postgres scanner left in.     *)
DescribedIsTheStatement ==
  Typed => Meaning(stmt, Keep) = Meaning(TheQuery, StandIn)

(* "every parameter must have a value": the names bound for a described     *)
(* query are exactly those in its text, repeats and identifiers considered. *)
(* scanSQL takes any text up to the colon for a name, hence the condition.  *)
PlainNames == \A i \in DOMAIN params : Range(params[i].name) \subseteq WordBytes
EveryParamBound ==
  pc \in {"explain", "describe"} /\ Readable(stmt) /\ PlainNames => HoleNames(stmt) = args

(* What the generated method sends is the statement that was described,     *)
(* with the caller's names for the stand-ins and a cast for each other      *)
(* parameter: the rewrites touch code only, leave no hole, and do not       *)
(* depend on the order of the map.  substituteIdentifiers does not skip     *)
(* literals, and inference renames a parameter before the server could      *)
(* object to its name, hence the conditions.                                *)
HoleInLiteral ==
  \E i, j \in DOMAIN sql : \E n \in Identifiers :
    i <= j /\ SubSeq(sql, i, j) = Hole(n, <<"I">>) /\ Modes(sql)[i] \in {"quoted", "escaped"}
SentIsDescribed ==
  Len(NonBlank(call)) = 1 /\ Meaning(NonBlank(call)[1], Keep) = Meaning(TheQuery, AtRun)
RunsWhatWasDescribed ==
  pc = "sent" /\ PlainNames /\ ~HoleInLiteral => SentIsDescribed

(* A call runs what was described, and what was described had all of its    *)
(* parameters bound.                                                        *)
RunsAsDescribed == EveryParamBound /\ RunsWhatWasDescribed

(* scanSQL "skips string literals": so does the code that fills the holes.  *)
LiteralsUntouched == pc = "sent" /\ PlainNames => SentIsDescribed
(* "the answer is the same either way, since the server reads the           *)
(* parameters' types and not their names": the copy with renamed parameters *)
(* is accepted only if the server takes the query itself.                   *)
NamesDoNotMatter == Typed => PlainNames

(* A query is typed from all the rows of DESCRIBE or not at all.            *)
OutputsComplete == Typed /\ kind = "rows" => rows = <<>> /\ cells # <<>>

(* An INSERT that names a plain table passes only if the table it writes to *)
(* exists and has the columns it lists, however they are quoted.  A list of *)
(* anything but names, like a star, is left to the server, and so is its    *)
(* table.                                                                   *)
Listed(list) ==        \* the names between the commas
  LET ends == {i \in DOMAIN list : list[i] = ","} \cup {Len(list) + 1}
  IN {NameParts(SubSeq(list, 1 + Max({0} \cup {i \in ends : i < e}), e - 1))[1] : e \in ends}
ListFits(t, name, lp) ==
  LET rp   == First({i \in lp..Len(t) : t[i] = ")"}, Len(t) + 1)
      list == SelectSeq(SubSeq(t, lp + 1, rp - 1), LAMBDA b : b # "blank")
  IN "*" \notin Range(list) =>
       /\ name \in DOMAIN Tables
       /\ lp <= Len(t) /\ t[lp] = "(" => Listed(list) \subseteq Tables[name]
TableFits(t, n) ==     \* the table is named at n
  LET end == First({i \in n..Len(t) : t[i] \in {"blank", "("}}, Len(t) + 1)
  IN t[n] \notin {"FUNCTION", "'"} =>
       ListFits(t, NameParts(SubSeq(t, n, end - 1)),
                IF end < Len(t) /\ t[end] = "blank" THEN end + 1 ELSE end)
InsertFits(t) ==
  Len(t) > 4 /\ SubSeq(t, 1, 4) = <<"INSERT", "blank", "INTO", "blank">> =>
    TableFits(t, IF Len(t) > 6 /\ SubSeq(t, 5, 6) = <<"TABLE", "blank">> THEN 7 ELSE 5)
InsertTargetExists ==
  Typed /\ kind = "exec" /\ params = <<>> => InsertFits(Meaning(TheQuery, Keep))

(* "clickhouse-go switches a query to server-side parameters the moment its *)
(* text contains any {...:...}": none is left in what is sent.              *)
BoundClientSide ==
  pc = "sent" => ~\E i, j, k \in DOMAIN call :
                    i < j /\ j < k /\ call[i] = "{" /\ call[j] = ":" /\ call[k] = "}"
=============================================================================
