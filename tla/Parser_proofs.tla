----------------------------- MODULE Parser_proofs -----------------------------
(***************************************************************************)
(* What the parser makes of a file, for every file of tokens.  IInv says at *)
(* every place of the parse what is known of the tokens behind it: the      *)
(* comment group, the query under construction, and, as long as no error    *)
(* was recorded, that the queries and the comments between them cover it.   *)
(***************************************************************************)
EXTENDS Parser, SequenceTheorems, FiniteSetTheorems, TLAPS

Modes == {"next", "comments", "first", "file", "query", "string", "close", "annotations",
          "prepare", "parsed"}
Rets  == {"first", "query", "string", "close", "annotations"}
Arg   == [lo : Nat, hi : Nat, name : Names \cup {"text"}]

(* What ast.File.Queries holds: BadQuery and SourceQuery.                   *)
BadRec == [kind : {"BadQuery"}, pos : Nat, semi : Nat]
SourceRec == [kind : {"SourceQuery"}, pos : Nat, semi : Nat, doc : Seq(Nat), name : Names,
              pragma : {"none", "paginate", "unknownSpec"}, args : Seq(Arg),
              params : Seq(Names \cup {"text"}), ordinals : Seq(Nat), expanded : BOOLEAN]

GroupRec == [list : Seq(Nat), endLine : Nat, n : {0, 1}]
QueryRec == [doc : Seq(Nat), pos : Nat, names : Seq(Arg), lo : Nat, arg : Names \cup {"text"},
             semi : Nat, params : Seq(Names \cup {"text"}), ordinals : Seq(Nat)]

Shape ==
  /\ file \in Files /\ at \in 0..Len(file) /\ mode \in Modes /\ ret \in Rets
  /\ group \in GroupRec /\ lead \in Seq(Nat) /\ query \in QueryRec
  /\ queries \in Seq(BadRec \cup SourceRec)
  /\ errors \in Seq(Nat)
  /\ outcome \in {"parsing", "error", "badQuery", "refused", "ok"}

(* The place in the parse functions, next() seen as the place it returns    *)
(* to.                                                                      *)
Scanning  == mode \in {"next", "comments"}
Where     == IF Scanning THEN ret ELSE mode
InQuery   == Where \in {"query", "string", "close"}
InArg     == Where \in {"string", "close"}
AfterSemi == Where \in {"annotations", "prepare"}
Outside   == Where \in {"first", "file"}

(* The last token that was passed: the look-ahead is not, except where      *)
(* next() is about to leave it.                                             *)
Passed == IF mode = "next" THEN at ELSE at - 1

(* next() never runs beyond the file, and hands no comment to its caller.   *)
LookAhead ==
  /\ mode = "next" => at < Len(file)
  /\ mode # "next" => at >= 1
  /\ mode \notin {"next", "comments", "parsed"} => Tok # "LineComment"
  /\ ret = "first" /\ mode = "next" => at = 0
  /\ mode = "next" /\ ret # "first" => at >= 1 /\ Tok \notin {"EOF", "Illegal"}

(* A group of comments is on consecutive lines.                             *)
Consecutive(f, list) ==
  /\ \A k \in DOMAIN list : list[k] \in 1..Len(f) /\ f[list[k]].tok = "LineComment"
  /\ \A k \in DOMAIN list : k > 1 => f[list[k]].line = f[list[k - 1]].line + 1

(* The group that is being read ends just before the look-ahead.            *)
GroupRead ==
  mode = "comments" =>
    /\ Consecutive(file, group.list)
    /\ group.list = <<>> => Tok = "LineComment" /\ group.endLine = Line
    /\ group.list # <<>> =>
         /\ group.list[Len(group.list)] = at - 1
         /\ file[at - 1].tok = "LineComment" /\ group.endLine = file[at - 1].line

(* The comments d stand directly above the token at p.                      *)
Above(f, d, p) ==
  d # <<>> => /\ Consecutive(f, d)
              /\ d[Len(d)] + 1 = p
              /\ f[d[Len(d)]].line + 1 = f[p].line

Docs ==
  /\ ~Scanning => Above(file, lead, at)
  /\ InQuery \/ AfterSemi => query.pos \in 1..at /\ Above(file, query.doc, query.pos)

(* The fragments that open an argument.                                     *)
Opens(f, lo, hi) == {k \in lo..hi : f[k].tok = "QueryFragment" /\ f[k].open}

ArgsOrdered(args) ==
  /\ \A k \in DOMAIN args : args[k].lo < args[k].hi
  /\ \A k \in DOMAIN args : k > 1 => args[k - 1].hi < args[k].lo

NoSemicolon(f, lo, hi) == \A j \in lo..hi : f[j].tok # "Semicolon"

(* The arguments found so far are the fragments passed so far that open     *)
(* one; an argument ends at the latest in the look-ahead.                   *)
ArgsFound ==
  /\ InQuery \/ AfterSemi => ArgsOrdered(query.names)
  /\ InQuery =>
       /\ NoSemicolon(file, query.pos, Passed)
       /\ Cardinality(Opens(file, query.pos, Passed)) = Len(query.names) + (IF InArg THEN 1 ELSE 0)
       /\ \A k \in DOMAIN query.names :
            query.names[k].hi <= 2 * at /\ (query.names[k].hi = 2 * at => Tok = "QueryFragment")
  /\ InArg =>
       /\ query.lo <= 2 * Passed + 1
       /\ \A k \in DOMAIN query.names : query.names[k].hi < query.lo
  /\ AfterSemi =>
       /\ query.semi \in query.pos..Passed /\ file[query.semi].tok = "Semicolon"
       /\ NoSemicolon(file, query.pos, query.semi - 1)
       /\ Cardinality(Opens(file, query.pos, query.semi)) = Len(query.names)
       /\ \A k \in DOMAIN query.names : query.names[k].hi < 2 * query.semi

(* prepareSQL: the parameters so far have different names, and the ordinals *)
(* so far name the parameters of their arguments.                           *)
Numbered(args, params, ordinals) ==
  /\ \A j, k \in DOMAIN params : params[j] = params[k] => j = k
  /\ \A k \in DOMAIN ordinals :
       ordinals[k] \in DOMAIN params /\ params[ordinals[k]] = args[k].name

ParamsFound ==
  /\ InQuery \/ (AfterSemi /\ mode # "prepare") => query.params = <<>> /\ query.ordinals = <<>>
  /\ mode = "prepare" =>
       /\ query.doc # <<>> /\ Annotated
       /\ Len(query.ordinals) <= Len(query.names)
       /\ Numbered(query.names, query.params, query.ordinals)

(* What a SourceQuery is, whatever errors there are around it.              *)
SourceOK(f, q) ==
  /\ q.doc # <<>> /\ Above(f, q.doc, q.pos)
  /\ q.pos \in 1..Len(f) /\ q.semi \in q.pos..Len(f)
  /\ f[q.semi].tok = "Semicolon" /\ NoSemicolon(f, q.pos, q.semi - 1)
  /\ Cardinality(Opens(f, q.pos, q.semi)) = Len(q.args)
  /\ ArgsOrdered(q.args) /\ \A k \in DOMAIN q.args : q.args[k].hi < 2 * q.semi
  /\ Len(q.ordinals) = Len(q.args) /\ Numbered(q.args, q.params, q.ordinals)

SourcesOK == \A k \in DOMAIN queries : queries[k].kind = "SourceQuery" => SourceOK(file, queries[k])

(* Where the queries so far end.                                            *)
EndOf(qs, k) == IF k = 0 THEN 0 ELSE qs[k].semi
Gap(f, lo, hi) == \A k \in lo..hi : f[k].tok = "LineComment"

(* Without an error, nothing but comments is between two queries, before    *)
(* the first and behind the last.                                           *)
Tiled ==
  errors = <<>> =>
    /\ \A k \in DOMAIN queries :
         queries[k].kind = "SourceQuery" /\ Gap(file, EndOf(queries, k - 1) + 1, queries[k].pos - 1)
    /\ Outside => Gap(file, EndOf(queries, Len(queries)) + 1, Passed)
    /\ InQuery \/ AfterSemi => Gap(file, EndOf(queries, Len(queries)) + 1, query.pos - 1)
    /\ AfterSemi => Gap(file, query.semi + 1, Passed)
    /\ mode = "parsed" => Gap(file, EndOf(queries, Len(queries)) + 1, Len(file) - 1)

Results ==
  /\ outcome # "parsing" => mode = "parsed"
  /\ outcome \in {"refused", "ok"} => errors = <<>>
  /\ outcome # "badQuery"

IInv == /\ Shape /\ LookAhead /\ GroupRead /\ Docs /\ ArgsFound /\ ParamsFound
        /\ SourcesOK /\ Tiled /\ Results

-----------------------------------------------------------------------------
(* What the scanner promises of a file.                                     *)
LEMMA FileShape ==
  ASSUME NEW f \in Files
  PROVE  /\ Len(f) \in Nat \ {0} /\ DOMAIN f = 1..Len(f)
         /\ \A k \in 1..Len(f) :
              /\ f[k].line \in Nat \ {0}
              /\ f[k].tok \in {"EOF", "Illegal"} <=> k = Len(f)
              /\ f[k].tok = "String" => f[k].name \in Names \cup {"unquoted"}
              /\ f[k].tok = "LineComment" =>
                   /\ f[k].name \in Names \cup {"text"}
                   /\ f[k].pragma \in {"none", "invalid", "paginate", "unknownSpec"}
         /\ \A j, k \in 1..Len(f) : j <= k => f[j].line <= f[k].line
         /\ \A k \in 1..(Len(f) - 1) :
              f[k].tok = "LineComment" /\ f[k + 1].tok = "LineComment" => f[k].line < f[k + 1].line
<1>1. f \in Seq(Token) /\ f # <<>>
  BY ParserAssumption
<1>2. Len(f) \in Nat \ {0} /\ DOMAIN f = 1..Len(f) /\ \A k \in 1..Len(f) : f[k] \in Token
  BY <1>1, EmptySeq, LenProperties, ElementOfSeq
<1>3. \A t \in Token :
         /\ t.line \in Nat \ {0}
         /\ t.tok = "String" => t.name \in Names \cup {"unquoted"}
         /\ t.tok = "LineComment" =>
              /\ t.name \in Names \cup {"text"}
              /\ t.pragma \in {"none", "invalid", "paginate", "unknownSpec"}
  BY DEF Token, Lines
<1> QED BY <1>2, <1>3, ParserAssumption

(* Append, in the form in which the steps use it.                           *)
LEMMA Appended ==
  ASSUME NEW S, NEW s \in Seq(S), NEW e \in S
  PROVE  /\ Append(s, e) \in Seq(S) /\ Append(s, e) # <<>>
         /\ Len(Append(s, e)) = Len(s) + 1 /\ DOMAIN Append(s, e) = 1..(Len(s) + 1)
         /\ Len(s) \in Nat /\ DOMAIN s = 1..Len(s)
         /\ Append(s, e)[Len(s) + 1] = e
         /\ \A k \in 1..Len(s) : Append(s, e)[k] = s[k]
<1>1. Append(s, e) \in Seq(S) /\ Len(Append(s, e)) = Len(s) + 1
  OBVIOUS
<1>2. Append(s, e)[Len(s) + 1] = e /\ \A k \in 1..Len(s) : Append(s, e)[k] = s[k]
  OBVIOUS
<1>3. Len(s) \in Nat /\ DOMAIN s = 1..Len(s) /\ DOMAIN Append(s, e) = 1..(Len(s) + 1)
  BY <1>1, LenProperties
<1>4. Append(s, e) # <<>>
  BY <1>1, <1>3, EmptySeq
<1> QED BY <1>1, <1>2, <1>3, <1>4

(* Passing one more token counts one more opening fragment if it is one.    *)
LEMMA OpensStep ==
  ASSUME NEW f, NEW lo \in Nat, NEW hi \in Nat, lo <= hi + 1
  PROVE  /\ f[hi + 1].tok = "QueryFragment" /\ f[hi + 1].open =>
              Cardinality(Opens(f, lo, hi + 1)) = Cardinality(Opens(f, lo, hi)) + 1
         /\ ~(f[hi + 1].tok = "QueryFragment" /\ f[hi + 1].open) =>
              Opens(f, lo, hi + 1) = Opens(f, lo, hi)
         /\ Cardinality(Opens(f, lo, hi)) \in Nat
<1>1. IsFiniteSet(Opens(f, lo, hi))
  <2>1. IsFiniteSet(lo..hi) /\ Opens(f, lo, hi) \in SUBSET (lo..hi)
    BY FS_Interval DEF Opens
  <2> QED BY <2>1, FS_Subset
<1>2. hi + 1 \notin Opens(f, lo, hi)
  BY DEF Opens
<1>3. lo..(hi + 1) = (lo..hi) \cup {hi + 1}
  OBVIOUS
<1>4. CASE f[hi + 1].tok = "QueryFragment" /\ f[hi + 1].open
  <2>1. Opens(f, lo, hi + 1) = Opens(f, lo, hi) \cup {hi + 1}
    BY <1>3, <1>4 DEF Opens
  <2> QED BY <1>1, <1>2, <1>4, <2>1, FS_AddElement, FS_CardinalityType
<1>5. CASE ~(f[hi + 1].tok = "QueryFragment" /\ f[hi + 1].open)
  <2>1. Opens(f, lo, hi + 1) = Opens(f, lo, hi)
    BY <1>3, <1>5 DEF Opens
  <2> QED BY <1>1, <1>5, <2>1, FS_CardinalityType
<1> QED BY <1>4, <1>5

(* What Shape says of each part of the state.                               *)
LEMMA Parts ==
  ASSUME Shape
  PROVE  /\ file \in Files /\ at \in Nat /\ at <= Len(file)
         /\ group.list \in Seq(Nat) /\ group.endLine \in Nat /\ group.n \in {0, 1}
         /\ query.doc \in Seq(Nat) /\ query.pos \in Nat /\ query.names \in Seq(Arg)
         /\ query.lo \in Nat /\ query.arg \in Names \cup {"text"} /\ query.semi \in Nat
         /\ query.params \in Seq(Names \cup {"text"}) /\ query.ordinals \in Seq(Nat)
         /\ \A k \in 1..Len(query.names) : query.names[k].lo \in Nat /\ query.names[k].hi \in Nat
         /\ \A k \in 1..Len(queries) :
              /\ queries[k].kind \in {"BadQuery", "SourceQuery"}
              /\ queries[k].pos \in Nat /\ queries[k].semi \in Nat
<1>1. Len(file) \in Nat
  BY FileShape DEF Shape
<1>2. file \in Files /\ at \in Nat /\ at <= Len(file)
  <2>1. file \in Files /\ at \in 0..Len(file)
    BY DEF Shape
  <2> QED BY <1>1, <2>1
<1>3. group.list \in Seq(Nat) /\ group.endLine \in Nat /\ group.n \in {0, 1}
  BY DEF Shape, GroupRec
<1>4. /\ query.doc \in Seq(Nat) /\ query.pos \in Nat /\ query.names \in Seq(Arg)
      /\ query.lo \in Nat /\ query.arg \in Names \cup {"text"} /\ query.semi \in Nat
      /\ query.params \in Seq(Names \cup {"text"}) /\ query.ordinals \in Seq(Nat)
  BY DEF Shape, QueryRec
<1>5. \A k \in 1..Len(query.names) : query.names[k].lo \in Nat /\ query.names[k].hi \in Nat
  <2>1. \A k \in 1..Len(query.names) : query.names[k] \in Arg
    BY <1>4, ElementOfSeq
  <2> QED BY <2>1 DEF Arg
<1>6. \A k \in 1..Len(queries) :
         /\ queries[k].kind \in {"BadQuery", "SourceQuery"}
         /\ queries[k].pos \in Nat /\ queries[k].semi \in Nat
  <2>1. \A k \in 1..Len(queries) : queries[k] \in BadRec \cup SourceRec
    BY ElementOfSeq DEF Shape
  <2>2. \A q \in BadRec \cup SourceRec :
           q.kind \in {"BadQuery", "SourceQuery"} /\ q.pos \in Nat /\ q.semi \in Nat
    BY DEF BadRec, SourceRec
  <2> QED BY <2>1, <2>2
<1> QED BY <1>2, <1>3, <1>4, <1>5, <1>6

(* The parser starts before the first token with nothing parsed.            *)
LEMMA InitIInv == Init => IInv
<1> SUFFICES ASSUME Init PROVE IInv
  OBVIOUS
<1> USE DEF Init
<1>1. Shape
  <2>1. file \in Files /\ at \in 0..Len(file)
    <3>1. file \in Files /\ at = 0
      OBVIOUS
    <3>2. Len(file) \in Nat
      BY <3>1, FileShape
    <3> QED BY <3>1, <3>2
  <2>2. mode \in Modes /\ ret \in Rets
    BY DEF Modes, Rets
  <2>3. group \in GroupRec
    BY DEF NoGroup, GroupRec
  <2>4. query \in QueryRec
    BY DEF NoQuery, QueryRec
  <2>5. /\ lead \in Seq(Nat) /\ queries \in Seq(BadRec \cup SourceRec) /\ errors \in Seq(Nat)
        /\ outcome = "parsing"
    OBVIOUS
  <2> QED BY <2>1, <2>2, <2>3, <2>4, <2>5 DEF Shape
<1>2. LookAhead
  <2>1. file \in Files /\ at = 0 /\ mode = "next" /\ ret = "first"
    OBVIOUS
  <2>2. 0 < Len(file)
    BY <2>1, FileShape
  <2> QED BY <2>1, <2>2 DEF LookAhead
<1>3. GroupRead
  BY DEF GroupRead, Tok, Line, LineOf, NoGroup, NoQuery
<1>4. Docs
  BY DEF Docs, Scanning, InQuery, AfterSemi, Where, NoGroup, NoQuery
<1>5. ArgsFound
  BY DEF ArgsFound, InQuery, InArg, AfterSemi, Where, Scanning, Passed, Tok, NoGroup, NoQuery
<1>6. ParamsFound
  BY DEF ParamsFound, InQuery, AfterSemi, Where, Scanning, Annotated, Annotation, NoGroup, NoQuery
<1>7. SourcesOK
  <2>1. DOMAIN queries = {}
    OBVIOUS
  <2> QED BY <2>1 DEF SourcesOK
<1>8. Tiled
  <2>1. at = 0 /\ mode = "next" /\ ret = "first" /\ DOMAIN queries = {} /\ Len(queries) = 0
    OBVIOUS
  <2>2. Gap(file, EndOf(queries, 0) + 1, 0)
    BY DEF Gap, EndOf
  <2> QED BY <2>1, <2>2 DEF Tiled, InQuery, AfterSemi, Outside, Where, Scanning, Passed
<1>9. Results
  BY DEF Results, NoGroup, NoQuery
<1> QED BY <1>1, <1>2, <1>3, <1>4, <1>5, <1>6, <1>7, <1>8, <1>9 DEF IInv

(* Facts of the state that every step uses.                                 *)
LEMMA Known ==
  ASSUME Shape
  PROVE  /\ Len(file) \in Nat \ {0} /\ DOMAIN file = 1..Len(file)
         /\ \A k \in 1..Len(file) :
              /\ file[k].line \in Nat \ {0}
              /\ file[k].tok \in {"EOF", "Illegal"} <=> k = Len(file)
         /\ \A j, k \in 1..Len(file) : j <= k => file[j].line <= file[k].line
         /\ Len(queries) \in Nat /\ DOMAIN queries = 1..Len(queries)
         /\ Len(query.names) \in Nat /\ DOMAIN query.names = 1..Len(query.names)
         /\ Len(group.list) \in Nat /\ DOMAIN group.list = 1..Len(group.list)
<1>1. /\ Len(file) \in Nat \ {0} /\ DOMAIN file = 1..Len(file)
      /\ \A k \in 1..Len(file) :
           /\ file[k].line \in Nat \ {0}
           /\ file[k].tok \in {"EOF", "Illegal"} <=> k = Len(file)
      /\ \A j, k \in 1..Len(file) : j <= k => file[j].line <= file[k].line
  BY Parts, FileShape
<1>2. Len(queries) \in Nat /\ DOMAIN queries = 1..Len(queries)
  BY LenProperties DEF Shape
<1>3. Len(query.names) \in Nat /\ DOMAIN query.names = 1..Len(query.names)
  BY Parts, LenProperties
<1>4. Len(group.list) \in Nat /\ DOMAIN group.list = 1..Len(group.list)
  BY Parts, LenProperties
<1> QED BY <1>1, <1>2, <1>3, <1>4

(* error() leaves an error behind, recorded now or before.                  *)
LEMMA ErrorStep ==
  ASSUME Shape, NEW STATE line, line \in Nat, NEW next, Error(line, next)
  PROVE  errors' \in Seq(Nat) /\ errors' # <<>> /\ mode' \in {next, "parsed"}
<1>1. errors \in Seq(Nat) /\ ErrorLimit \in Nat
  BY ParserAssumption DEF Shape
<1>2. CASE Discarded(line)
  BY <1>1, <1>2 DEF Error, Discarded
<1>3. CASE ~Discarded(line) /\ Len(errors) > ErrorLimit
  <2>1. errors # <<>>
    BY <1>1, <1>3, EmptySeq
  <2> QED BY <1>1, <1>3, <2>1 DEF Error
<1>4. CASE ~Discarded(line) /\ ~(Len(errors) > ErrorLimit)
  <2>1. mode' = next /\ errors' = Append(errors, line)
    BY <1>4 DEF Error
  <2> QED BY <1>1, <2>1, Appended
<1> QED BY <1>2, <1>3, <1>4

(* A query that could not be parsed is behind the others.                   *)
LEMMA BadAppended ==
  ASSUME Shape
  PROVE  /\ Bad \in Seq(BadRec \cup SourceRec) /\ DOMAIN Bad = 1..(Len(queries) + 1)
         /\ Bad[Len(queries) + 1].kind = "BadQuery"
         /\ \A k \in 1..Len(queries) : Bad[k] = queries[k]
<1> DEFINE b == [kind |-> "BadQuery", pos |-> query.pos, semi |-> at]
<1>1. b \in BadRec /\ b.kind = "BadQuery"
  BY Parts DEF BadRec
<1>2. queries \in Seq(BadRec \cup SourceRec) /\ Bad = Append(queries, b)
  BY DEF Shape, Bad
<1> HIDE DEF b
<1> QED BY <1>1, <1>2, Appended

(* What every failing parse function leaves: a bad query and an error, and  *)
(* the look-ahead where it is.                                              *)
LEMMA FailedQuery ==
  ASSUME IInv, mode \in {"query", "string", "close", "annotations"},
         UNCHANGED <<file, at, ret, group, lead, query, outcome>>, queries' = Bad,
         errors' \in Seq(Nat), errors' # <<>>, mode' \in {"file", "parsed"}
  PROVE  IInv'
<1>1. /\ file' = file /\ at' = at /\ ret' = ret /\ group' = group /\ lead' = lead
      /\ query' = query /\ outcome' = outcome
  OBVIOUS
<1>2. Shape'
  <2>1. queries' \in Seq(BadRec \cup SourceRec)
    BY BadAppended DEF IInv
  <2> QED BY <1>1, <2>1 DEF IInv, Shape, Modes
<1>3. LookAhead'
  BY <1>1 DEF IInv, LookAhead, Tok
<1>4. Docs' /\ ArgsFound' /\ ParamsFound'
  BY <1>1 DEF IInv, Docs, ArgsFound, ParamsFound, Scanning, InQuery, InArg, AfterSemi, Where
<1>5. SourcesOK'
  <2>1. /\ DOMAIN Bad = 1..(Len(queries) + 1) /\ Bad[Len(queries) + 1].kind = "BadQuery"
        /\ \A k \in 1..Len(queries) : Bad[k] = queries[k]
    BY BadAppended DEF IInv
  <2>2. Len(queries) \in Nat /\ DOMAIN queries = 1..Len(queries)
    BY Known DEF IInv
  <2> QED BY <1>1, <2>1, <2>2 DEF IInv, SourcesOK
<1>6. GroupRead' /\ Tiled' /\ Results'
  BY <1>1 DEF IInv, GroupRead, Tiled, Results
<1> QED BY <1>2, <1>3, <1>4, <1>5, <1>6 DEF IInv

(* Reading on inside next(): the place it returns to stays.                 *)
LEMMA SamePlace ==
  ASSUME ret \in Rets, ret' = ret, Scanning, Scanning' \/ mode' = ret
  PROVE  /\ InQuery' <=> InQuery
         /\ InArg' <=> InArg
         /\ AfterSemi' <=> AfterSemi
         /\ Outside' <=> Outside
         /\ mode' \notin {"prepare", "parsed"}
<1>1. Where = ret /\ Where' = ret /\ mode' \notin {"prepare", "parsed"}
  BY DEF Where, Scanning, Rets
<1> QED BY <1>1 DEF InQuery, InArg, AfterSemi, Outside

LEMMA LastAppended ==
  ASSUME NEW s \in Seq(Nat), NEW e \in Nat
  PROVE  Append(s, e) # <<>> /\ Append(s, e)[Len(Append(s, e))] = e
  OBVIOUS

(* A comment on the next line continues the group.                          *)
LEMMA ConsecutiveStep ==
  ASSUME NEW f, NEW list \in Seq(Nat), NEW p \in Nat, p \in 1..Len(f), f[p].tok = "LineComment", Consecutive(f, list),
         list # <<>> => f[p].line = f[list[Len(list)]].line + 1
  PROVE  Consecutive(f, Append(list, p))
<1> DEFINE new == Append(list, p)
<1>1. /\ Len(list) \in Nat /\ DOMAIN list = 1..Len(list) /\ DOMAIN new = 1..(Len(list) + 1)
      /\ new[Len(list) + 1] = p /\ \A k \in 1..Len(list) : new[k] = list[k]
  BY Appended
<1> HIDE DEF new
<1>2. \A k \in DOMAIN new : new[k] \in 1..Len(f) /\ f[new[k]].tok = "LineComment"
  BY <1>1 DEF Consecutive
<1>3. ASSUME NEW k \in DOMAIN new, k > 1 PROVE f[new[k]].line = f[new[k - 1]].line + 1
  <2>1. CASE k \in 1..Len(list)
    <3>1. k - 1 \in 1..Len(list)
      BY <1>1, <1>3, <2>1
    <3> QED BY <1>1, <1>3, <2>1, <3>1 DEF Consecutive
  <2>2. CASE k = Len(list) + 1
    <3>1. k - 1 = Len(list) /\ Len(list) \in 1..Len(list)
      BY <1>1, <1>3, <2>2
    <3>2. list # <<>>
      BY <3>1
    <3> QED BY <1>1, <2>2, <3>1, <3>2
  <2> QED BY <1>1, <2>1, <2>2
<1>4. Consecutive(f, new)
  BY <1>2, <1>3 DEF Consecutive
<1> QED BY <1>4 DEF new

(* An argument behind the others keeps the order.                           *)
LEMMA OrderedStep ==
  ASSUME NEW args \in Seq(Arg), NEW arg \in Arg, ArgsOrdered(args), arg.lo < arg.hi,
         \A k \in DOMAIN args : args[k].hi < arg.lo
  PROVE  ArgsOrdered(Append(args, arg))
<1> DEFINE new == Append(args, arg)
<1>1. /\ Len(args) \in Nat /\ DOMAIN args = 1..Len(args) /\ DOMAIN new = 1..(Len(args) + 1)
      /\ new[Len(args) + 1] = arg /\ \A k \in 1..Len(args) : new[k] = args[k]
  BY Appended
<1> HIDE DEF new
<1>2. \A k \in DOMAIN new : new[k].lo < new[k].hi
  BY <1>1 DEF ArgsOrdered
<1>3. ASSUME NEW k \in DOMAIN new, k > 1 PROVE new[k - 1].hi < new[k].lo
  <2>1. k - 1 \in 1..Len(args)
    BY <1>1, <1>3
  <2>2. CASE k \in 1..Len(args)
    BY <1>1, <1>3, <2>1, <2>2 DEF ArgsOrdered
  <2>3. CASE k = Len(args) + 1
    BY <1>1, <2>1, <2>3
  <2> QED BY <1>1, <2>2, <2>3
<1>4. ArgsOrdered(new)
  BY <1>2, <1>3 DEF ArgsOrdered
<1> QED BY <1>4 DEF new

(* prepareSQL: an argument whose name has a parameter ...                   *)
LEMMA NumberedOld ==
  ASSUME NEW args, NEW params \in Seq(Names \cup {"text"}), NEW ordinals \in Seq(Nat),
         Numbered(args, params, ordinals), NEW o \in DOMAIN params,
         params[o] = args[Len(ordinals) + 1].name
  PROVE  Numbered(args, params, Append(ordinals, o))
<1> DEFINE new == Append(ordinals, o)
<1>1. o \in Nat
  BY LenProperties
<1>2. /\ Len(ordinals) \in Nat /\ DOMAIN ordinals = 1..Len(ordinals)
      /\ DOMAIN new = 1..(Len(ordinals) + 1)
      /\ new[Len(ordinals) + 1] = o /\ \A k \in 1..Len(ordinals) : new[k] = ordinals[k]
  BY <1>1, Appended
<1> HIDE DEF new
<1>3. ASSUME NEW k \in DOMAIN new PROVE new[k] \in DOMAIN params /\ params[new[k]] = args[k].name
  <2>1. CASE k \in 1..Len(ordinals)
    BY <1>2, <2>1 DEF Numbered
  <2>2. CASE k = Len(ordinals) + 1
    BY <1>2, <2>2
  <2> QED BY <1>2, <2>1, <2>2
<1>4. Numbered(args, params, new)
  BY <1>3 DEF Numbered
<1> QED BY <1>4 DEF new

(* ... and one whose name has none.                                         *)
LEMMA NumberedNew ==
  ASSUME NEW args, NEW params \in Seq(Names \cup {"text"}), NEW ordinals \in Seq(Nat),
         Numbered(args, params, ordinals), NEW name \in Names \cup {"text"},
         name = args[Len(ordinals) + 1].name, \A o \in DOMAIN params : params[o] # name
  PROVE  Numbered(args, Append(params, name), Append(ordinals, Len(params) + 1))
<1> DEFINE newP == Append(params, name)
           newO == Append(ordinals, Len(params) + 1)
<1>1. /\ Len(params) \in Nat /\ DOMAIN params = 1..Len(params) /\ DOMAIN newP = 1..(Len(params) + 1)
      /\ newP[Len(params) + 1] = name /\ \A k \in 1..Len(params) : newP[k] = params[k]
  BY Appended
<1>2. /\ Len(ordinals) \in Nat /\ DOMAIN ordinals = 1..Len(ordinals)
      /\ DOMAIN newO = 1..(Len(ordinals) + 1) /\ newO[Len(ordinals) + 1] = Len(params) + 1
      /\ \A k \in 1..Len(ordinals) : newO[k] = ordinals[k]
  <2>1. Len(params) + 1 \in Nat
    BY <1>1
  <2> QED BY <2>1, Appended
<1> HIDE DEF newP, newO
<1>3. ASSUME NEW j \in DOMAIN newP, NEW k \in DOMAIN newP, newP[j] = newP[k] PROVE j = k
  BY <1>1, <1>3 DEF Numbered
<1>4. ASSUME NEW k \in DOMAIN newO PROVE newO[k] \in DOMAIN newP /\ newP[newO[k]] = args[k].name
  <2>1. CASE k \in 1..Len(ordinals)
    <3>1. ordinals[k] \in 1..Len(params) /\ params[ordinals[k]] = args[k].name
      BY <1>1, <1>2, <2>1 DEF Numbered
    <3> QED BY <1>1, <1>2, <2>1, <3>1
  <2>2. CASE k = Len(ordinals) + 1
    BY <1>1, <1>2, <2>2
  <2> QED BY <1>2, <2>1, <2>2
<1>5. Numbered(args, newP, newO)
  BY <1>3, <1>4 DEF Numbered
<1> QED BY <1>5 DEF newP, newO

(* Every step of the parser preserves the invariant.                        *)
LEMMA NextIInv == IInv /\ [Next]_vars => IInv'
<1> SUFFICES ASSUME IInv, [Next]_vars PROVE IInv'
  OBVIOUS
<1> USE DEF IInv
<1>a. /\ Len(file) \in Nat \ {0} /\ DOMAIN file = 1..Len(file)
      /\ \A k \in 1..Len(file) :
           /\ file[k].line \in Nat \ {0}
           /\ file[k].tok \in {"EOF", "Illegal"} <=> k = Len(file)
      /\ \A j, k \in 1..Len(file) : j <= k => file[j].line <= file[k].line
  BY Known
<1>b. /\ at \in Nat /\ at <= Len(file)
      /\ group.list \in Seq(Nat) /\ group.endLine \in Nat /\ group.n \in {0, 1}
      /\ query.doc \in Seq(Nat) /\ query.pos \in Nat /\ query.names \in Seq(Arg)
      /\ query.lo \in Nat /\ query.arg \in Names \cup {"text"} /\ query.semi \in Nat
      /\ query.params \in Seq(Names \cup {"text"}) /\ query.ordinals \in Seq(Nat)
  BY Parts
<1>c. /\ Len(queries) \in Nat /\ DOMAIN queries = 1..Len(queries)
      /\ Len(query.names) \in Nat /\ DOMAIN query.names = 1..Len(query.names)
      /\ Len(group.list) \in Nat /\ DOMAIN group.list = 1..Len(group.list)
  BY Known
<1>d. \A k \in 1..Len(query.names) : query.names[k].lo \in Nat /\ query.names[k].hi \in Nat
  BY Parts
<1>e. \A k \in 1..Len(queries) :
         /\ queries[k].kind \in {"BadQuery", "SourceQuery"}
         /\ queries[k].pos \in Nat /\ queries[k].semi \in Nat
  BY Parts
<1>f. at \in Nat /\ Len(file) \in Nat /\ at <= Len(file)
  BY <1>a, <1>b
<1>g. EndOf(queries, Len(queries)) \in Nat
  <2>1. CASE Len(queries) = 0
    BY <2>1 DEF EndOf
  <2>2. CASE Len(queries) # 0
    <3>1. Len(queries) \in 1..Len(queries)
      BY <1>c, <2>2
    <3> QED BY <1>e, <2>2, <3>1 DEF EndOf
  <2> QED BY <2>1, <2>2
<1>h. query.pos \in Nat /\ query.semi \in Nat /\ query.lo \in Nat
  BY <1>b
<1>j. mode # "next" => at \in 1..Len(file) /\ Line = file[at].line /\ Line \in Nat
  <2> SUFFICES ASSUME mode # "next" PROVE at \in 1..Len(file) /\ Line = file[at].line /\ Line \in Nat
    OBVIOUS
  <2>1. at \in 1..Len(file) /\ at # 0
    BY <1>f DEF LookAhead
  <2> QED BY <1>a, <2>1 DEF Line, LineOf
<1>1. CASE Next0
  <2>1. /\ mode = "next" /\ at' = at + 1 /\ lead' = <<>> /\ file' = file /\ ret' = ret
        /\ query' = query /\ queries' = queries /\ outcome' = outcome
    BY <1>1 DEF Next0
  <2>2. at + 1 \in 1..Len(file)
    <3>1. at < Len(file)
      BY <2>1 DEF LookAhead
    <3> QED BY <1>f, <3>1
  <2>3. errors' \in Seq(Nat) /\ (errors' = <<>> => errors = <<>>)
    <3>1. errors \in Seq(Nat) /\ file[at + 1].line \in Nat
      BY <1>a, <2>2 DEF Shape
    <3>2. errors' = errors \/ errors' = Append(errors, file[at + 1].line)
      BY <1>1 DEF Next0, Scan
    <3> QED BY <3>1, <3>2, Appended
  <2>4. \/ /\ mode' = ret /\ group' = group /\ file[at + 1].tok # "LineComment"
        \/ /\ mode' = "comments" /\ file[at + 1].tok = "LineComment"
           /\ group' = [list |-> <<>>, endLine |-> file[at + 1].line,
                        n |-> IF file[at + 1].line = Line THEN 0 ELSE 1]
    BY <1>1 DEF Next0
  <2>5. ret \in Rets /\ Scanning /\ (Scanning' \/ mode' = ret)
    BY <2>1, <2>4 DEF Shape, Scanning
  <2>6. /\ InQuery' <=> InQuery
        /\ InArg' <=> InArg
        /\ AfterSemi' <=> AfterSemi
        /\ Outside' <=> Outside
        /\ mode' \notin {"prepare", "parsed"}
    BY <2>1, <2>5, SamePlace
  <2>7. mode' # "next" /\ Passed' = Passed
    BY <1>b, <2>1, <2>4, <2>5 DEF Passed, Rets
  <2>8. Shape'
    <3>1. group' \in GroupRec /\ mode' \in Modes
      <4>1. CASE mode' = ret /\ group' = group
        BY <4>1, <2>5 DEF Shape, Rets, Modes
      <4>2. CASE /\ mode' = "comments"
                 /\ group' = [list |-> <<>>, endLine |-> file[at + 1].line,
                              n |-> IF file[at + 1].line = Line THEN 0 ELSE 1]
        <5>1. file[at + 1].line \in Nat
          BY <1>a, <2>2
        <5> QED BY <4>2, <5>1 DEF GroupRec, Modes
      <4> QED BY <2>4, <4>1, <4>2
    <3>2. lead' \in Seq(Nat) /\ at' \in 0..Len(file)
      BY <1>f, <2>1, <2>2
    <3> QED BY <2>1, <2>3, <3>1, <3>2 DEF Shape
  <2>9. LookAhead'
    BY <1>b, <2>1, <2>4, <2>7 DEF LookAhead, Tok
  <2>10. GroupRead'
    <3>1. ASSUME mode' = "comments" PROVE group'.list = <<>> /\ group'.endLine = file[at + 1].line
                                          /\ file[at + 1].tok = "LineComment"
      BY <2>4, <2>5, <3>1 DEF Rets
    <3>2. Consecutive(file, <<>>)
      BY DEF Consecutive
    <3>3. at' # 0
      BY <1>b, <2>1
    <3> QED BY <2>1, <3>1, <3>2, <3>3 DEF GroupRead, Tok, Line, LineOf
  <2>11. Docs'
    <3>1. Above(file, <<>>, at')
      BY DEF Above
    <3> QED BY <1>b, <2>1, <2>6, <3>1 DEF Docs
  <2>12. ArgsFound'
    <3>1. \A n \in Nat : n <= 2 * at => n < 2 * at'
      BY <1>f, <2>1
    <3>2. ASSUME InQuery PROVE \A k \in DOMAIN query.names : query.names[k].hi < 2 * at'
      BY <1>c, <1>d, <3>1, <3>2 DEF ArgsFound
    <3>3. \A k \in DOMAIN query.names :
             query.names[k].hi < 2 * at' => query.names[k].hi <= 2 * at' /\ query.names[k].hi # 2 * at'
      BY <1>c, <1>d, <1>f, <2>1
    <3> QED BY <2>1, <2>6, <2>7, <3>2, <3>3 DEF ArgsFound
  <2>13. ParamsFound'
    BY <2>1, <2>6 DEF ParamsFound
  <2>14. SourcesOK' /\ Results'
    BY <2>1 DEF SourcesOK, Results
  <2>15. Tiled'
    BY <2>1, <2>3, <2>6, <2>7 DEF Tiled
  <2> QED BY <2>8, <2>9, <2>10, <2>11, <2>12, <2>13, <2>14, <2>15
<1>2. CASE ConsumeComment
  <2>1. /\ mode = "comments" /\ at' = at + 1 /\ lead' = lead /\ file' = file /\ ret' = ret
        /\ mode' = mode /\ query' = query /\ queries' = queries /\ outcome' = outcome
    BY <1>2 DEF ConsumeComment
  <2>2. at >= 1 /\ file[at].tok = "LineComment" /\ Line = file[at].line
        /\ Line <= group.endLine + group.n
    BY <1>2, <1>b, <2>1 DEF ConsumeComment, InGroup, LookAhead, Tok, Line, LineOf
  <2>3. at + 1 \in 1..Len(file)
    <3>1. at \in 1..Len(file)
      BY <1>f, <2>2
    <3>2. at # Len(file)
      BY <1>a, <2>2, <3>1
    <3> QED BY <1>f, <3>2
  <2>4. errors' \in Seq(Nat) /\ (errors' = <<>> => errors = <<>>)
    <3>1. errors \in Seq(Nat) /\ file[at + 1].line \in Nat
      BY <1>a, <2>3 DEF Shape
    <3>2. errors' = errors \/ errors' = Append(errors, file[at + 1].line)
      BY <1>2 DEF ConsumeComment, Scan
    <3> QED BY <3>1, <3>2, Appended
  <2>5. group' = [group EXCEPT !.list = Append(@, at), !.endLine = file[at].line]
    BY <1>2, <2>2 DEF ConsumeComment
  <2>6. /\ InQuery' <=> InQuery
        /\ InArg' <=> InArg
        /\ AfterSemi' <=> AfterSemi
        /\ Outside' <=> Outside
        /\ mode' \notin {"prepare", "parsed"}
    BY <2>1, SamePlace DEF Shape, Scanning
  <2>7. Passed = at - 1 /\ Passed' = at
    BY <1>b, <2>1 DEF Passed
  <2>8. /\ group'.list = Append(group.list, at) /\ group'.endLine = file[at].line
        /\ group' \in GroupRec
    <3>1. file[at].line \in Nat /\ Append(group.list, at) \in Seq(Nat)
      <4>1. at \in 1..Len(file)
        BY <1>f, <2>2
      <4>2. file[at].line \in Nat
        BY <1>a, <4>1
      <4> QED BY <1>b, <4>2, Appended
    <3>2. group \in GroupRec
      BY DEF Shape
    <3> QED BY <2>5, <3>1, <3>2 DEF GroupRec
  <2>9. Shape'
    <3>1. at' \in 0..Len(file)
      BY <1>f, <2>1, <2>3
    <3> QED BY <2>1, <2>4, <2>8, <3>1 DEF Shape
  <2>10. LookAhead'
    BY <1>b, <2>1 DEF LookAhead
  <2>11. GroupRead'
    <3>1. at \in 1..Len(file) /\ at' - 1 = at /\ at' # 0
      BY <1>f, <2>1, <2>2
    <3>2. ASSUME group.list # <<>> PROVE file[at].line = file[group.list[Len(group.list)]].line + 1
      <4>1. group.list[Len(group.list)] = at - 1 /\ file[at - 1].tok = "LineComment"
            /\ group.endLine = file[at - 1].line
        BY <2>1, <3>2 DEF GroupRead
      <4>2. at - 1 \in 1..(Len(file) - 1) /\ (at - 1) + 1 = at
        <5>1. Len(group.list) \in DOMAIN group.list
          BY <1>b, <1>c, <3>2, EmptySeq
        <5>2. at - 1 >= 1
          BY <1>f, <2>1, <4>1, <5>1 DEF GroupRead, Consecutive
        <5> QED BY <1>f, <5>2
      <4>3. file[at - 1].line < file[at].line
        BY <2>2, <4>1, <4>2, Parts, FileShape
      <4>4. file[at - 1].line \in Nat /\ file[at].line \in Nat
        <5>1. at - 1 \in 1..Len(file)
          BY <1>f, <4>2
        <5> QED BY <1>a, <3>1, <5>1
      <4>5. file[at].line <= file[at - 1].line + 1
        <5>1. group.n \in {0, 1} /\ file[at].line <= file[at - 1].line + group.n
          BY <1>b, <2>2, <4>1
        <5> QED BY <4>4, <5>1
      <4> QED BY <4>1, <4>3, <4>4, <4>5
    <3>3. Consecutive(file, group.list)
      BY <2>1 DEF GroupRead
    <3>4. Consecutive(file, Append(group.list, at))
      BY <1>b, <2>2, <3>1, <3>2, <3>3, ConsecutiveStep
    <3>5. /\ Append(group.list, at) # <<>>
          /\ Append(group.list, at)[Len(Append(group.list, at))] = at
      <4>1. group.list \in Seq(Nat)
        BY <1>b
      <4> QED BY <1>f, <4>1, LastAppended
    <3> QED BY <2>1, <2>2, <2>8, <3>1, <3>4, <3>5 DEF GroupRead
  <2>12. Docs'
    BY <1>b, <2>1, <2>6 DEF Docs, Scanning
  <2>13. ArgsFound'
    <3>1. ASSUME InQuery PROVE /\ NoSemicolon(file, query.pos, at)
                               /\ Opens(file, query.pos, at) = Opens(file, query.pos, at - 1)
      <4>1. query.pos \in 1..at /\ NoSemicolon(file, query.pos, at - 1)
        BY <3>1, <2>7 DEF ArgsFound, Docs
      <4>2. at - 1 \in Nat /\ (at - 1) + 1 = at /\ query.pos <= (at - 1) + 1
        BY <1>b, <2>2, <4>1
      <4>3. Opens(file, query.pos, at) = Opens(file, query.pos, at - 1)
        <5>1. ~(file[(at - 1) + 1].tok = "QueryFragment" /\ file[(at - 1) + 1].open)
          BY <2>2, <4>2
        <5>2. Opens(file, query.pos, (at - 1) + 1) = Opens(file, query.pos, at - 1)
          BY <1>b, <4>2, <5>1, OpensStep
        <5> QED BY <4>2, <5>2
      <4>4. NoSemicolon(file, query.pos, at)
        BY <1>b, <2>2, <4>1 DEF NoSemicolon
      <4> QED BY <4>3, <4>4
    <3>2. \A n \in Nat : n <= 2 * at => n < 2 * at'
      BY <1>f, <2>1
    <3>3. ASSUME InQuery PROVE \A k \in DOMAIN query.names : query.names[k].hi < 2 * at'
      BY <1>c, <1>d, <3>2, <3>3 DEF ArgsFound
    <3>4. \A k \in DOMAIN query.names :
             query.names[k].hi < 2 * at' => query.names[k].hi <= 2 * at' /\ query.names[k].hi # 2 * at'
      BY <1>c, <1>d, <1>f, <2>1
    <3>5. ASSUME InArg PROVE query.lo <= 2 * at + 1
      BY <1>f, <1>h, <2>7, <3>5 DEF ArgsFound
    <3>6. ASSUME AfterSemi PROVE query.semi \in query.pos..at
      BY <1>f, <1>h, <2>7, <3>6 DEF ArgsFound
    <3> QED BY <2>1, <2>6, <2>7, <3>1, <3>3, <3>4, <3>5, <3>6 DEF ArgsFound
  <2>14. ParamsFound'
    BY <2>1, <2>6 DEF ParamsFound
  <2>15. SourcesOK' /\ Results'
    BY <2>1 DEF SourcesOK, Results
  <2>16. Tiled'
    <3>1. \A lo \in Nat : Gap(file, lo, at - 1) => Gap(file, lo, at)
      BY <1>b, <2>2 DEF Gap
    <3>2. EndOf(queries, Len(queries)) + 1 \in Nat /\ query.semi + 1 \in Nat
      BY <1>g, <1>h
    <3> QED BY <2>1, <2>4, <2>6, <2>7, <3>1, <3>2 DEF Tiled
  <2> QED BY <2>9, <2>10, <2>11, <2>12, <2>13, <2>14, <2>15, <2>16
<1>3. CASE EndGroup
  <2>1. /\ mode = "comments" /\ at' = at /\ file' = file /\ ret' = ret /\ query' = query
        /\ queries' = queries /\ errors' = errors /\ outcome' = outcome
    BY <1>3 DEF EndGroup
  <2>2. \/ /\ Tok = "LineComment" /\ group' = [list |-> <<>>, endLine |-> Line, n |-> 1]
           /\ mode' = mode /\ lead' = lead
        \/ /\ Tok # "LineComment" /\ mode' = ret /\ group' = NoGroup
           /\ lead' = <<>> \/ (IsLead /\ lead' = group.list)
    BY <1>3 DEF EndGroup
  <2>3. at \in 1..Len(file) /\ at # 0
    BY <1>f, <2>1 DEF LookAhead
  <2>4. Line = file[at].line /\ Line \in Nat
    BY <1>a, <2>3 DEF Line, LineOf
  <2>5. ret \in Rets /\ Scanning /\ (Scanning' \/ mode' = ret) /\ mode' # "next"
    BY <2>1, <2>2 DEF Shape, Scanning, Rets
  <2>6. /\ InQuery' <=> InQuery
        /\ InArg' <=> InArg
        /\ AfterSemi' <=> AfterSemi
        /\ Outside' <=> Outside
        /\ mode' \notin {"prepare", "parsed"}
    BY <2>1, <2>5, SamePlace
  <2>7. Passed' = Passed
    BY <2>1, <2>5 DEF Passed
  <2>8. Shape'
    <3>1. group' \in GroupRec
      <4>1. CASE group' = [list |-> <<>>, endLine |-> Line, n |-> 1]
        BY <2>4, <4>1 DEF GroupRec
      <4>2. CASE group' = NoGroup
        BY <4>2 DEF GroupRec, NoGroup
      <4> QED BY <2>2, <4>1, <4>2
    <3>2. mode' \in Modes
      BY <2>1, <2>2, <2>5 DEF Modes, Rets
    <3>3. lead' \in Seq(Nat)
      <4>1. lead \in Seq(Nat) /\ group.list \in Seq(Nat)
        BY <1>b DEF Shape
      <4>2. lead' = lead \/ lead' = <<>> \/ lead' = group.list
        BY <2>2
      <4>3. CASE lead' = <<>>
        BY <4>3
      <4> QED BY <4>1, <4>2, <4>3
    <3> QED BY <2>1, <3>1, <3>2, <3>3 DEF Shape
  <2>9. LookAhead'
    BY <2>1, <2>2, <2>3, <2>5 DEF LookAhead, Tok
  <2>10. GroupRead'
    <3>1. ASSUME mode' = "comments" PROVE group'.list = <<>> /\ group'.endLine = Line
                                          /\ Tok = "LineComment"
      BY <2>2, <2>5, <3>1 DEF Rets
    <3>2. Consecutive(file, <<>>)
      BY DEF Consecutive
    <3> QED BY <2>1, <3>1, <3>2 DEF GroupRead, Tok, Line, LineOf
  <2>11. Docs'
    <3>1. ASSUME ~Scanning' PROVE Above(file, lead', at)
      <4>1. lead' = <<>> \/ (IsLead /\ lead' = group.list)
        BY <2>2, <2>1, <3>1 DEF Scanning
      <4>2. CASE lead' = <<>>
        BY <4>2 DEF Above
      <4>3. CASE group.list # <<>> /\ lead' = group.list /\ IsLead
        <5>1. /\ Consecutive(file, group.list) /\ group.list[Len(group.list)] = at - 1
              /\ group.endLine = file[at - 1].line
          BY <2>1, <4>3 DEF GroupRead
        <5>2. (at - 1) + 1 = at /\ group.endLine + 1 = file[at].line
          BY <1>f, <2>4, <4>3 DEF IsLead
        <5> QED BY <4>3, <5>1, <5>2 DEF Above
      <4> QED BY <4>1, <4>2, <4>3
    <3> QED BY <2>1, <2>6, <3>1 DEF Docs
  <2>12. ArgsFound'
    BY <2>1, <2>6, <2>7 DEF ArgsFound, Tok
  <2>13. ParamsFound'
    BY <2>1, <2>6 DEF ParamsFound
  <2>14. SourcesOK' /\ Results'
    BY <2>1 DEF SourcesOK, Results
  <2>15. Tiled'
    BY <2>1, <2>6, <2>7 DEF Tiled
  <2> QED BY <2>8, <2>9, <2>10, <2>11, <2>12, <2>13, <2>14, <2>15
<1>4. CASE First
  <2>1. /\ mode = "first" /\ file' = file /\ at' = at /\ ret' = ret /\ group' = group
        /\ lead' = lead /\ query' = query /\ queries' = queries /\ errors' = errors
        /\ outcome' = outcome
    BY <1>4 DEF First
  <2>2. mode' = "file" \/ (errors # <<>> /\ mode' = "parsed")
    BY <1>4 DEF First
  <2>3. Shape' /\ LookAhead' /\ GroupRead'
    BY <2>1, <2>2 DEF Shape, Modes, LookAhead, GroupRead, Tok
  <2>4. /\ ~InQuery' /\ ~InArg' /\ ~AfterSemi' /\ Outside /\ ~Scanning
    BY <2>1, <2>2 DEF InQuery, InArg, AfterSemi, Outside, Where, Scanning
  <2>5. Docs' /\ ArgsFound' /\ ParamsFound'
    BY <2>1, <2>2, <2>4 DEF Docs, ArgsFound, ParamsFound
  <2>6. SourcesOK' /\ Results'
    BY <2>1, <2>2 DEF SourcesOK, Results
  <2>7. Tiled'
    BY <2>1, <2>2, <2>4 DEF Tiled, Passed
  <2> QED BY <2>3, <2>5, <2>6, <2>7
<1>5. CASE StartQuery
  <2>1. /\ mode = "file" /\ mode' = "query" /\ file' = file /\ at' = at /\ ret' = ret
        /\ group' = group /\ lead' = lead /\ queries' = queries /\ errors' = errors
        /\ outcome' = outcome
    BY <1>5 DEF StartQuery
  <2>2. query' = [NoQuery EXCEPT !.doc = lead, !.pos = at]
    BY <1>5 DEF StartQuery
  <2>3. /\ query'.doc = lead /\ query'.pos = at /\ query'.names = <<>> /\ query'.params = <<>>
        /\ query'.ordinals = <<>>
    BY <2>2 DEF NoQuery
  <2>4. Shape'
    <3>1. query' \in QueryRec
      <4>1. lead \in Seq(Nat)
        BY DEF Shape
      <4>2. query' = [doc |-> lead, pos |-> at, names |-> <<>>, lo |-> 0, arg |-> "text", semi |-> 0,
                      params |-> <<>>, ordinals |-> <<>>]
        BY <2>2 DEF NoQuery
      <4> QED BY <1>f, <4>1, <4>2 DEF QueryRec
    <3> QED BY <2>1, <3>1 DEF Shape, Modes
  <2>5. LookAhead' /\ GroupRead'
    BY <2>1 DEF LookAhead, GroupRead, Tok
  <2>6. InQuery' /\ ~InArg' /\ ~AfterSemi' /\ Outside /\ ~Outside' /\ ~Scanning /\ ~Scanning'
    BY <2>1 DEF InQuery, InArg, AfterSemi, Outside, Where, Scanning
  <2>7. at \in 1..at
    BY <1>f, <2>1 DEF LookAhead
  <2>8. Docs'
    BY <2>1, <2>3, <2>6, <2>7 DEF Docs
  <2>9. ArgsFound'
    <3>1. Passed' = at - 1
      BY <2>1 DEF Passed
    <3>2. at..(at - 1) = {}
      BY <1>f
    <3>3. NoSemicolon(file, at, at - 1) /\ Opens(file, at, at - 1) = {}
      BY <3>2 DEF NoSemicolon, Opens
    <3>4. Cardinality(Opens(file, at, at - 1)) = 0
      BY <3>3, FS_EmptySet
    <3>5. DOMAIN query'.names = {} /\ Len(query'.names) = 0
      BY <2>3
    <3> QED BY <2>1, <2>3, <2>6, <3>1, <3>3, <3>4, <3>5 DEF ArgsFound, ArgsOrdered
  <2>10. ParamsFound'
    BY <2>1, <2>3 DEF ParamsFound
  <2>11. SourcesOK' /\ Results'
    BY <2>1 DEF SourcesOK, Results
  <2>12. Tiled'
    BY <2>1, <2>3, <2>6 DEF Tiled, Passed
  <2> QED BY <2>4, <2>5, <2>8, <2>9, <2>10, <2>11, <2>12
<1>6. CASE Unterminated
  <2>1. mode = "query" /\ Error(Line, "file") /\ queries' = Bad
        /\ UNCHANGED <<file, at, ret, group, lead, query, outcome>>
    BY <1>6 DEF Unterminated
  <2>2. Line \in Nat
    BY <1>j, <2>1
  <2>3. errors' \in Seq(Nat) /\ errors' # <<>> /\ mode' \in {"file", "parsed"}
    BY <2>1, <2>2, ErrorStep
  <2> QED BY <2>1, <2>3, FailedQuery
<1>7. CASE OpenArg
  <2>1. /\ mode = "query" /\ mode' = "next" /\ ret' = "string" /\ file' = file /\ at' = at
        /\ group' = group /\ lead' = lead /\ queries' = queries /\ errors' = errors
        /\ outcome' = outcome /\ query' = [query EXCEPT !.lo = 2 * at + 1]
    BY <1>7 DEF OpenArg, CallNext
  <2>2. file[at].tok = "QueryFragment" /\ file[at].open
    BY <1>7 DEF OpenArg, HasPggenArg, Tok
  <2>3. /\ query' \in QueryRec /\ query'.lo = 2 * at + 1
        /\ query'.doc = query.doc /\ query'.pos = query.pos /\ query'.names = query.names
        /\ query'.params = query.params /\ query'.ordinals = query.ordinals
    <3>1. query \in QueryRec /\ 2 * at + 1 \in Nat
      BY <1>f DEF Shape
    <3> QED BY <2>1, <3>1 DEF QueryRec
  <2>4. Shape' /\ GroupRead'
    BY <2>1, <2>3 DEF Shape, Modes, Rets, GroupRead
  <2>5. LookAhead'
    <3>1. at # Len(file)
      BY <1>a, <1>j, <2>1, <2>2
    <3>2. at >= 1 /\ at < Len(file)
      BY <1>f, <1>j, <2>1, <3>1
    <3> QED BY <2>1, <2>2, <3>2 DEF LookAhead, Tok
  <2>6. /\ InQuery /\ InQuery' /\ ~InArg /\ InArg' /\ ~AfterSemi' /\ ~Outside'
        /\ Passed = at - 1 /\ Passed' = at /\ Scanning'
    BY <2>1 DEF InQuery, InArg, AfterSemi, Outside, Where, Scanning, Passed
  <2>7. Docs'
    BY <2>1, <2>3, <2>6 DEF Docs
  <2>8. ArgsFound'
    <3>1. /\ query.pos \in 1..at /\ NoSemicolon(file, query.pos, at - 1)
          /\ Cardinality(Opens(file, query.pos, at - 1)) = Len(query.names)
          /\ ArgsOrdered(query.names)
          /\ \A k \in DOMAIN query.names : query.names[k].hi <= 2 * at
      BY <1>c, <2>6 DEF Docs, ArgsFound
    <3>2. NoSemicolon(file, query.pos, at)
      BY <1>f, <2>2, <3>1 DEF NoSemicolon
    <3>3. Cardinality(Opens(file, query.pos, at)) = Len(query.names) + 1
      <4>1. at - 1 \in Nat /\ (at - 1) + 1 = at /\ query.pos \in Nat /\ query.pos <= (at - 1) + 1
        BY <1>f, <3>1
      <4>2. file[(at - 1) + 1].tok = "QueryFragment" /\ file[(at - 1) + 1].open
        BY <2>2, <4>1
      <4>3. Cardinality(Opens(file, query.pos, (at - 1) + 1))
              = Cardinality(Opens(file, query.pos, at - 1)) + 1
        BY <4>1, <4>2, OpensStep
      <4> QED BY <3>1, <4>1, <4>3
    <3>4. \A k \in DOMAIN query.names : query.names[k].hi < 2 * at + 1
      BY <1>c, <1>d, <1>f, <3>1
    <3>5. 2 * at + 1 <= 2 * at + 1
      BY <1>f
    <3> QED BY <2>1, <2>2, <2>3, <2>6, <3>1, <3>2, <3>3, <3>4, <3>5 DEF ArgsFound, Tok
  <2>9. ParamsFound'
    BY <2>1, <2>3, <2>6 DEF ParamsFound
  <2>10. SourcesOK' /\ Results'
    BY <2>1 DEF SourcesOK, Results
  <2>11. Tiled'
    BY <2>1, <2>3, <2>6 DEF Tiled
  <2> QED BY <2>4, <2>5, <2>7, <2>8, <2>9, <2>10, <2>11
<1>8. CASE SkipToken
  <2>1. /\ mode = "query" /\ mode' = "next" /\ ret' = "query" /\ file' = file /\ at' = at
        /\ group' = group /\ lead' = lead /\ queries' = queries /\ errors' = errors
        /\ outcome' = outcome /\ query' = query
    BY <1>8 DEF SkipToken, CallNext
  <2>2. /\ file[at].tok \notin {"Semicolon", "EOF", "Illegal"}
        /\ ~(file[at].tok = "QueryFragment" /\ file[at].open)
    BY <1>8 DEF SkipToken, HasPggenArg, Tok
  <2>3. Shape' /\ GroupRead'
    BY <2>1 DEF Shape, Modes, Rets, GroupRead
  <2>4. LookAhead'
    <3>1. at # Len(file)
      BY <1>a, <1>j, <2>1, <2>2
    <3>2. at >= 1 /\ at < Len(file)
      BY <1>f, <1>j, <2>1, <3>1
    <3> QED BY <2>1, <2>2, <3>2 DEF LookAhead, Tok
  <2>5. /\ InQuery /\ InQuery' /\ ~InArg /\ ~InArg' /\ ~AfterSemi' /\ ~Outside'
        /\ Passed = at - 1 /\ Passed' = at /\ Scanning'
    BY <2>1 DEF InQuery, InArg, AfterSemi, Outside, Where, Scanning, Passed
  <2>6. Docs'
    BY <2>1, <2>5 DEF Docs
  <2>7. ArgsFound'
    <3>1. query.pos \in 1..at /\ NoSemicolon(file, query.pos, at - 1)
      BY <2>5 DEF Docs, ArgsFound
    <3>2. NoSemicolon(file, query.pos, at)
      BY <1>f, <2>2, <3>1 DEF NoSemicolon
    <3>3. Opens(file, query.pos, at) = Opens(file, query.pos, at - 1)
      <4>1. at - 1 \in Nat /\ (at - 1) + 1 = at /\ query.pos \in Nat /\ query.pos <= (at - 1) + 1
        BY <1>f, <3>1
      <4>2. ~(file[(at - 1) + 1].tok = "QueryFragment" /\ file[(at - 1) + 1].open)
        BY <2>2, <4>1
      <4>3. Opens(file, query.pos, (at - 1) + 1) = Opens(file, query.pos, at - 1)
        BY <4>1, <4>2, OpensStep
      <4> QED BY <4>1, <4>3
    <3> QED BY <2>1, <2>5, <3>2, <3>3 DEF ArgsFound, Tok
  <2>8. ParamsFound'
    BY <2>1, <2>5 DEF ParamsFound
  <2>9. SourcesOK' /\ Results'
    BY <2>1 DEF SourcesOK, Results
  <2>10. Tiled'
    BY <2>1, <2>5 DEF Tiled
  <2> QED BY <2>3, <2>4, <2>6, <2>7, <2>8, <2>9, <2>10
<1>9. CASE ArgString
  <2>1. CASE Tok = "String" /\ file[at].name # "unquoted"
    <3>1. /\ mode = "string" /\ mode' = "next" /\ ret' = "close" /\ file' = file /\ at' = at
          /\ group' = group /\ lead' = lead /\ queries' = queries /\ errors' = errors
          /\ outcome' = outcome /\ query' = [query EXCEPT !.arg = file[at].name]
      BY <1>9, <2>1 DEF ArgString, CallNext
    <3>2. file[at].tok = "String"
      BY <2>1 DEF Tok
    <3>3. /\ query' \in QueryRec /\ query'.lo = query.lo
          /\ query'.doc = query.doc /\ query'.pos = query.pos /\ query'.names = query.names
          /\ query'.params = query.params /\ query'.ordinals = query.ordinals
      <4>1. file \in Files /\ at \in 1..Len(file)
        BY <1>j, <3>1 DEF Shape
      <4>2. query \in QueryRec /\ file[at].name \in Names
        BY <2>1, <3>2, <4>1, FileShape DEF Shape
      <4> QED BY <3>1, <4>2 DEF QueryRec
    <3>4. Shape' /\ GroupRead'
      BY <3>1, <3>3 DEF Shape, Modes, Rets, GroupRead
    <3>5. LookAhead'
      <4>1. at # Len(file)
        BY <1>a, <1>j, <3>1, <3>2
      <4>2. at >= 1 /\ at < Len(file)
        BY <1>f, <1>j, <3>1, <4>1
      <4> QED BY <3>1, <3>2, <4>2 DEF LookAhead, Tok
    <3>6. /\ InQuery /\ InQuery' /\ InArg /\ InArg' /\ ~AfterSemi' /\ ~Outside'
          /\ Passed = at - 1 /\ Passed' = at /\ Scanning'
      BY <3>1 DEF InQuery, InArg, AfterSemi, Outside, Where, Scanning, Passed
    <3>7. Docs'
      BY <3>1, <3>3, <3>6 DEF Docs
    <3>8. ArgsFound'
      <4>1. query.pos \in 1..at /\ NoSemicolon(file, query.pos, at - 1)
        BY <3>6 DEF Docs, ArgsFound
      <4>2. NoSemicolon(file, query.pos, at)
        BY <1>f, <3>2, <4>1 DEF NoSemicolon
      <4>3. Opens(file, query.pos, at) = Opens(file, query.pos, at - 1)
        <5>1. at - 1 \in Nat /\ (at - 1) + 1 = at /\ query.pos \in Nat /\ query.pos <= (at - 1) + 1
          BY <1>f, <4>1
        <5>2. Opens(file, query.pos, (at - 1) + 1) = Opens(file, query.pos, at - 1)
          BY <3>2, <5>1, OpensStep
        <5> QED BY <5>1, <5>2
      <4>4. query.lo <= 2 * at + 1
        BY <1>f, <1>h, <3>6 DEF ArgsFound
      <4> QED BY <3>1, <3>3, <3>6, <4>2, <4>3, <4>4 DEF ArgsFound, Tok
    <3>9. ParamsFound'
      BY <3>1, <3>3, <3>6 DEF ParamsFound
    <3>10. SourcesOK' /\ Results'
      BY <3>1 DEF SourcesOK, Results
    <3>11. Tiled'
      BY <3>1, <3>3, <3>6 DEF Tiled
    <3> QED BY <3>4, <3>5, <3>7, <3>8, <3>9, <3>10, <3>11
  <2>2. CASE ~(Tok = "String" /\ file[at].name # "unquoted")
    <3>1. mode = "string" /\ Error(Line, "file") /\ queries' = Bad
          /\ UNCHANGED <<file, at, ret, group, lead, query, outcome>>
      BY <1>9, <2>2 DEF ArgString, BadArg
    <3>2. Line \in Nat
      BY <1>j, <3>1
    <3>3. errors' \in Seq(Nat) /\ errors' # <<>> /\ mode' \in {"file", "parsed"}
      BY <3>1, <3>2, ErrorStep
    <3> QED BY <3>1, <3>3, FailedQuery
  <2> QED BY <2>1, <2>2
<1>10. CASE ArgClose
  <2>1. CASE Tok = "QueryFragment" /\ file[at].close
    <3> DEFINE arg == [lo |-> query.lo, hi |-> 2 * at, name |-> query.arg]
    <3>1. /\ mode = "close" /\ mode' = "query" /\ ret' = ret /\ file' = file /\ at' = at
          /\ group' = group /\ lead' = lead /\ queries' = queries /\ errors' = errors
          /\ outcome' = outcome /\ query' = [query EXCEPT !.names = Append(@, arg)]
      BY <1>10, <2>1 DEF ArgClose, AfterArg
    <3>2. arg \in Arg /\ arg.lo = query.lo /\ arg.hi = 2 * at
      <4>1. query.lo \in Nat /\ query.arg \in Names \cup {"text"}
        BY <1>b
      <4> QED BY <1>f, <4>1 DEF Arg
    <3> HIDE DEF arg
    <3>3. /\ query.names \in Seq(Arg)
          /\ Append(query.names, arg) \in Seq(Arg)
          /\ Len(Append(query.names, arg)) = Len(query.names) + 1
          /\ DOMAIN Append(query.names, arg) = 1..(Len(query.names) + 1)
          /\ Append(query.names, arg)[Len(query.names) + 1] = arg
          /\ \A k \in 1..Len(query.names) : Append(query.names, arg)[k] = query.names[k]
      <4>1. query.names \in Seq(Arg)
        BY <1>b
      <4> QED BY <3>2, <4>1, Appended
    <3>4. /\ query' \in QueryRec /\ query'.names = Append(query.names, arg)
          /\ query'.doc = query.doc /\ query'.pos = query.pos
          /\ query'.params = query.params /\ query'.ordinals = query.ordinals
      <4>1. query \in QueryRec
        BY DEF Shape
      <4> QED BY <3>1, <3>3, <4>1 DEF QueryRec
    <3>5. Shape' /\ LookAhead' /\ GroupRead'
      BY <3>1, <3>4 DEF Shape, Modes, LookAhead, GroupRead, Tok
    <3>6. /\ InQuery /\ InQuery' /\ InArg /\ ~InArg' /\ ~AfterSemi' /\ ~Outside'
          /\ Passed = at - 1 /\ Passed' = at - 1 /\ ~Scanning
      BY <3>1 DEF InQuery, InArg, AfterSemi, Outside, Where, Scanning, Passed
    <3>7. Docs'
      BY <3>1, <3>4, <3>6 DEF Docs
    <3>8. ArgsFound'
      <4>1. /\ ArgsOrdered(query.names) /\ query.lo <= 2 * (at - 1) + 1
            /\ \A k \in DOMAIN query.names : query.names[k].hi < query.lo
            /\ \A k \in DOMAIN query.names : query.names[k].hi <= 2 * at
        BY <1>c, <3>6 DEF ArgsFound
      <4>2. query.lo < 2 * at
        BY <1>f, <1>h, <4>1
      <4>3. ArgsOrdered(Append(query.names, arg))
        BY <1>c, <3>2, <3>3, <4>1, <4>2, OrderedStep
      <4>4. ASSUME NEW k \in DOMAIN Append(query.names, arg)
            PROVE  Append(query.names, arg)[k].hi <= 2 * at
        <5>1. CASE k \in 1..Len(query.names)
          BY <1>c, <3>3, <4>1, <5>1
        <5>2. CASE k = Len(query.names) + 1
          BY <1>f, <3>2, <3>3, <5>2
        <5> QED BY <1>c, <3>3, <5>1, <5>2
      <4> QED BY <2>1, <3>1, <3>3, <3>4, <3>6, <4>3, <4>4 DEF ArgsFound, Tok
    <3>9. ParamsFound'
      BY <3>1, <3>4, <3>6 DEF ParamsFound
    <3>10. SourcesOK' /\ Results'
      BY <3>1 DEF SourcesOK, Results
    <3>11. Tiled'
      BY <3>1, <3>4, <3>6 DEF Tiled
    <3> QED BY <3>5, <3>7, <3>8, <3>9, <3>10, <3>11
  <2>2. CASE ~(Tok = "QueryFragment" /\ file[at].close)
    <3>1. mode = "close" /\ Error(Line, "file") /\ queries' = Bad
          /\ UNCHANGED <<file, at, ret, group, lead, query, outcome>>
      BY <1>10, <2>2 DEF ArgClose, BadArg
    <3>2. Line \in Nat
      BY <1>j, <3>1
    <3>3. errors' \in Seq(Nat) /\ errors' # <<>> /\ mode' \in {"file", "parsed"}
      BY <3>1, <3>2, ErrorStep
    <3> QED BY <3>1, <3>3, FailedQuery
  <2> QED BY <2>1, <2>2
<1>11. CASE Semicolon
  <2>1. /\ mode = "query" /\ mode' = "next" /\ ret' = "annotations" /\ file' = file /\ at' = at
        /\ group' = group /\ lead' = lead /\ queries' = queries /\ errors' = errors
        /\ outcome' = outcome /\ query' = [query EXCEPT !.semi = at]
    BY <1>11 DEF Semicolon, CallNext
  <2>2. file[at].tok = "Semicolon"
    BY <1>11 DEF Semicolon, Tok
  <2>3. /\ query' \in QueryRec /\ query'.semi = at
        /\ query'.doc = query.doc /\ query'.pos = query.pos /\ query'.names = query.names
        /\ query'.params = query.params /\ query'.ordinals = query.ordinals
    <3>1. query \in QueryRec
      BY DEF Shape
    <3> QED BY <1>f, <2>1, <3>1 DEF QueryRec
  <2>4. Shape' /\ GroupRead'
    BY <2>1, <2>3 DEF Shape, Modes, Rets, GroupRead
  <2>5. LookAhead'
    <3>1. at # Len(file)
      BY <1>a, <1>j, <2>1, <2>2
    <3>2. at >= 1 /\ at < Len(file)
      BY <1>f, <1>j, <2>1, <3>1
    <3> QED BY <2>1, <2>2, <3>2 DEF LookAhead, Tok
  <2>6. /\ InQuery /\ ~InQuery' /\ ~InArg /\ ~InArg' /\ AfterSemi' /\ ~Outside'
        /\ Passed = at - 1 /\ Passed' = at /\ Scanning'
    BY <2>1 DEF InQuery, InArg, AfterSemi, Outside, Where, Scanning, Passed
  <2>7. Docs'
    BY <2>1, <2>3, <2>6 DEF Docs
  <2>8. ArgsFound'
    <3>1. /\ query.pos \in 1..at /\ NoSemicolon(file, query.pos, at - 1)
          /\ Cardinality(Opens(file, query.pos, at - 1)) = Len(query.names)
          /\ ArgsOrdered(query.names)
          /\ \A k \in DOMAIN query.names : query.names[k].hi <= 2 * at /\ query.names[k].hi # 2 * at
      BY <1>c, <2>2, <2>6 DEF Docs, ArgsFound, Tok
    <3>2. Cardinality(Opens(file, query.pos, at)) = Len(query.names)
      <4>1. at - 1 \in Nat /\ (at - 1) + 1 = at /\ query.pos \in Nat /\ query.pos <= (at - 1) + 1
        BY <1>f, <3>1
      <4>2. ~(file[(at - 1) + 1].tok = "QueryFragment" /\ file[(at - 1) + 1].open)
        BY <2>2, <4>1
      <4>3. Opens(file, query.pos, (at - 1) + 1) = Opens(file, query.pos, at - 1)
        BY <4>1, <4>2, OpensStep
      <4> QED BY <3>1, <4>1, <4>3
    <3>3. \A k \in DOMAIN query.names : query.names[k].hi < 2 * at
      <4>1. \A n \in Nat : n <= 2 * at /\ n # 2 * at => n < 2 * at
        BY <1>f
      <4> QED BY <1>c, <1>d, <3>1, <4>1
    <3>4. at \in query.pos..at
      BY <1>f, <3>1
    <3> QED BY <2>1, <2>2, <2>3, <2>6, <3>1, <3>2, <3>3, <3>4 DEF ArgsFound
  <2>9. ParamsFound'
    BY <2>1, <2>3, <2>6 DEF ParamsFound
  <2>10. SourcesOK' /\ Results'
    BY <2>1 DEF SourcesOK, Results
  <2>11. Tiled'
    <3>1. Gap(file, at + 1, at)
      BY <1>f DEF Gap
    <3> QED BY <2>1, <2>3, <2>6, <3>1 DEF Tiled
  <2> QED BY <2>4, <2>5, <2>7, <2>8, <2>9, <2>10, <2>11
<1>12. CASE Annotations
  <2>1. CASE Annotated
    <3>1. /\ mode = "annotations" /\ mode' = "prepare" /\ ret' = ret /\ file' = file /\ at' = at
          /\ group' = group /\ lead' = lead /\ queries' = queries /\ errors' = errors
          /\ outcome' = outcome /\ query' = query
      BY <1>12, <2>1 DEF Annotations
    <3>2. Shape' /\ LookAhead' /\ GroupRead'
      BY <3>1 DEF Shape, Modes, LookAhead, GroupRead, Tok
    <3>3. /\ ~InQuery' /\ ~InArg' /\ AfterSemi /\ AfterSemi' /\ ~Outside'
          /\ Passed' = Passed /\ ~Scanning
      BY <3>1 DEF InQuery, InArg, AfterSemi, Outside, Where, Scanning, Passed
    <3>4. Docs' /\ ArgsFound'
      BY <3>1, <3>3 DEF Docs, ArgsFound
    <3>5. ParamsFound'
      <4>1. query.params = <<>> /\ query.ordinals = <<>>
        BY <3>1, <3>3 DEF ParamsFound
      <4>2. DOMAIN query.params = {} /\ DOMAIN query.ordinals = {} /\ Len(query.ordinals) = 0
        BY <4>1
      <4>3. Numbered(query.names, query.params, query.ordinals)
        BY <4>2 DEF Numbered
      <4>4. Len(query.ordinals) <= Len(query.names)
        BY <1>c, <4>2
      <4>5. query.doc # <<>> /\ Annotated'
        BY <2>1, <3>1 DEF Annotated, Annotation
      <4> QED BY <3>1, <3>3, <4>3, <4>4, <4>5 DEF ParamsFound
    <3>6. SourcesOK' /\ Results'
      BY <3>1 DEF SourcesOK, Results
    <3>7. Tiled'
      BY <3>1, <3>3 DEF Tiled
    <3> QED BY <3>2, <3>4, <3>5, <3>6, <3>7
  <2>2. CASE ~Annotated
    <3>1. mode = "annotations" /\ Error(file[query.pos].line, "file") /\ queries' = Bad
          /\ UNCHANGED <<file, at, ret, group, lead, query, outcome>>
      BY <1>12, <2>2 DEF Annotations
    <3>2. AfterSemi
      BY <3>1 DEF AfterSemi, Where, Scanning
    <3>3. query.pos \in 1..Len(file)
      BY <1>f, <3>2 DEF Docs
    <3>4. file[query.pos].line \in Nat
      BY <1>a, <3>3
    <3>5. errors' \in Seq(Nat) /\ errors' # <<>> /\ mode' \in {"file", "parsed"}
      BY <3>1, <3>4, ErrorStep
    <3> QED BY <3>1, <3>5, FailedQuery
  <2> QED BY <2>1, <2>2
<1>13. CASE PrepareArg
  <2> DEFINE name  == query.names[Len(query.ordinals) + 1].name
             known == {o \in DOMAIN query.params : query.params[o] = name}
  <2>1. /\ mode = "prepare" /\ Len(query.ordinals) < Len(query.names) /\ mode' = mode
        /\ ret' = ret /\ file' = file /\ at' = at /\ group' = group /\ lead' = lead
        /\ queries' = queries /\ errors' = errors /\ outcome' = outcome
    BY <1>13 DEF PrepareArg
  <2>2. /\ query.names \in Seq(Arg) /\ query.params \in Seq(Names \cup {"text"})
        /\ query.ordinals \in Seq(Nat) /\ query \in QueryRec
    BY <1>b DEF Shape
  <2>3. Len(query.ordinals) \in Nat /\ Len(query.names) \in Nat
        /\ Len(query.ordinals) + 1 \in 1..Len(query.names)
    BY <1>c, <2>1, <2>2, LenProperties
  <2>4. name \in Names \cup {"text"}
    <3>1. query.names[Len(query.ordinals) + 1] \in Arg
      BY <2>2, <2>3, ElementOfSeq
    <3> QED BY <3>1 DEF Arg
  <2>5. /\ query.doc # <<>> /\ Annotated /\ Numbered(query.names, query.params, query.ordinals)
    BY <2>1 DEF ParamsFound
  <2>6. /\ query' \in QueryRec
        /\ query'.doc = query.doc /\ query'.pos = query.pos /\ query'.names = query.names
        /\ query'.semi = query.semi /\ Len(query'.ordinals) = Len(query.ordinals) + 1
        /\ Numbered(query.names, query'.params, query'.ordinals)
    <3>1. \/ \E o \in known : query' = [query EXCEPT !.ordinals = Append(@, o)]
          \/ /\ known = {}
             /\ query' = [query EXCEPT !.params = Append(@, name),
                                       !.ordinals = Append(@, Len(query.params) + 1)]
      BY <1>13 DEF PrepareArg
    <3>2. CASE \E o \in known : query' = [query EXCEPT !.ordinals = Append(@, o)]
      <4>1. PICK o \in known : query' = [query EXCEPT !.ordinals = Append(@, o)]
        BY <3>2
      <4>2. o \in DOMAIN query.params /\ query.params[o] = name
        OBVIOUS
      <4>3. o \in Nat
        BY <2>2, <4>2, LenProperties
      <4>4. /\ Append(query.ordinals, o) \in Seq(Nat)
            /\ Len(Append(query.ordinals, o)) = Len(query.ordinals) + 1
        BY <2>2, <4>3, Appended
      <4>5. Numbered(query.names, query.params, Append(query.ordinals, o))
        BY <2>2, <2>5, <4>2, NumberedOld
      <4> HIDE DEF name, known
      <4> QED BY <2>2, <4>1, <4>4, <4>5 DEF QueryRec
    <3>3. CASE /\ known = {}
               /\ query' = [query EXCEPT !.params = Append(@, name),
                                         !.ordinals = Append(@, Len(query.params) + 1)]
      <4>1. \A o \in DOMAIN query.params : query.params[o] # name
        BY <3>3
      <4>2. Len(query.params) + 1 \in Nat
        BY <2>2, LenProperties
      <4>3. Append(query.params, name) \in Seq(Names \cup {"text"})
        BY <2>2, <2>4, Appended
      <4>4. /\ Append(query.ordinals, Len(query.params) + 1) \in Seq(Nat)
            /\ Len(Append(query.ordinals, Len(query.params) + 1)) = Len(query.ordinals) + 1
        BY <2>2, <4>2, Appended
      <4>5. Numbered(query.names, Append(query.params, name), Append(query.ordinals, Len(query.params) + 1))
        BY <2>2, <2>4, <2>5, <4>1, NumberedNew
      <4> HIDE DEF name, known
      <4> QED BY <2>2, <3>3, <4>3, <4>4, <4>5 DEF QueryRec
    <3> QED BY <3>1, <3>2, <3>3
  <2> HIDE DEF name, known
  <2>7. Shape' /\ LookAhead' /\ GroupRead'
    BY <2>1, <2>6 DEF Shape, LookAhead, GroupRead, Tok
  <2>8. /\ ~InQuery /\ ~InQuery' /\ ~InArg' /\ AfterSemi /\ AfterSemi' /\ ~Outside'
        /\ Passed' = Passed /\ ~Scanning
    BY <2>1 DEF InQuery, InArg, AfterSemi, Outside, Where, Scanning, Passed
  <2>9. Docs'
    BY <2>1, <2>6, <2>8 DEF Docs
  <2>10. ArgsFound'
    BY <2>1, <2>6, <2>8 DEF ArgsFound
  <2>11. ParamsFound'
    <3>1. Len(query'.ordinals) <= Len(query'.names)
      BY <2>1, <2>3, <2>6
    <3>2. Annotated'
      BY <2>1, <2>5, <2>6 DEF Annotated, Annotation
    <3> QED BY <2>1, <2>5, <2>6, <2>8, <3>1, <3>2 DEF ParamsFound
  <2>12. SourcesOK' /\ Results'
    BY <2>1 DEF SourcesOK, Results
  <2>13. Tiled'
    BY <2>1, <2>6, <2>8 DEF Tiled
  <2> QED BY <2>7, <2>9, <2>10, <2>11, <2>12, <2>13
<1>14. CASE Prepared
  <2> DEFINE q == [kind |-> "SourceQuery", pos |-> query.pos, semi |-> query.semi, doc |-> query.doc,
                   name |-> Annotation.name, pragma |-> Annotation.pragma, args |-> query.names,
                   params |-> query.params, ordinals |-> query.ordinals, expanded |-> FALSE]
  <2>1. /\ mode = "prepare" /\ mode' = "file" /\ ret' = ret /\ file' = file /\ at' = at
        /\ group' = group /\ lead' = lead /\ query' = query /\ errors' = errors
        /\ outcome' = outcome /\ Len(query.ordinals) = Len(query.names)
        /\ queries' = Append(queries, q)
    BY <1>14 DEF Prepared
  <2>2. /\ ~InQuery' /\ ~InArg' /\ AfterSemi /\ ~AfterSemi' /\ Outside'
        /\ Passed' = Passed /\ Passed = at - 1 /\ ~Scanning
    BY <2>1 DEF InQuery, InArg, AfterSemi, Outside, Where, Scanning, Passed
  <2>3. /\ query.doc # <<>> /\ Annotated /\ query.pos \in 1..at
        /\ Above(file, query.doc, query.pos)
        /\ Numbered(query.names, query.params, query.ordinals)
    BY <2>1, <2>2 DEF ParamsFound, Docs
  <2>4. q \in SourceRec
    <3>1. query.doc \in Seq(Nat) /\ query.names \in Seq(Arg) /\ query.ordinals \in Seq(Nat)
          /\ query.params \in Seq(Names \cup {"text"})
      BY <1>b
    <3>2. Len(query.doc) \in DOMAIN query.doc
      BY <2>3, <3>1, EmptySeq, LenProperties
    <3>3. file \in Files /\ query.doc[Len(query.doc)] \in 1..Len(file) /\ Annotation.tok = "LineComment"
      BY <2>3, <3>2 DEF Shape, Above, Consecutive, Annotation
    <3>4. /\ Annotation.name \in Names \cup {"text"}
          /\ Annotation.pragma \in {"none", "invalid", "paginate", "unknownSpec"}
      BY <3>3, FileShape DEF Annotation
    <3>5. Annotation.name \in Names /\ Annotation.pragma \in {"none", "paginate", "unknownSpec"}
      BY <2>3, <3>4 DEF Annotated
    <3>6. FALSE \in BOOLEAN
      OBVIOUS
    <3> QED BY <1>h, <3>1, <3>5, <3>6 DEF SourceRec
  <2>5. /\ q.kind = "SourceQuery" /\ q.pos = query.pos /\ q.semi = query.semi /\ q.doc = query.doc
        /\ q.args = query.names /\ q.params = query.params /\ q.ordinals = query.ordinals
    OBVIOUS
  <2> HIDE DEF q
  <2>6. /\ queries' \in Seq(BadRec \cup SourceRec) /\ Len(queries') = Len(queries) + 1
        /\ DOMAIN queries' = 1..(Len(queries) + 1) /\ queries'[Len(queries) + 1] = q
        /\ \A k \in 1..Len(queries) : queries'[k] = queries[k]
    <3>1. queries \in Seq(BadRec \cup SourceRec) /\ q \in BadRec \cup SourceRec
      BY <2>4 DEF Shape
    <3> QED BY <2>1, <3>1, Appended
  <2>7. Shape' /\ LookAhead' /\ GroupRead'
    BY <2>1, <2>6 DEF Shape, Modes, LookAhead, GroupRead, Tok
  <2>8. Docs' /\ ArgsFound' /\ ParamsFound' /\ Results'
    BY <2>1, <2>2 DEF Docs, ArgsFound, ParamsFound, Results
  <2>9. /\ query.semi \in query.pos..(at - 1) /\ file[query.semi].tok = "Semicolon"
        /\ NoSemicolon(file, query.pos, query.semi - 1)
        /\ Cardinality(Opens(file, query.pos, query.semi)) = Len(query.names)
        /\ ArgsOrdered(query.names)
        /\ \A k \in DOMAIN query.names : query.names[k].hi < 2 * query.semi
    BY <2>2 DEF ArgsFound
  <2>10. SourcesOK'
    <3>1. q.pos \in 1..Len(file) /\ q.semi \in q.pos..Len(file)
      BY <1>f, <1>h, <2>3, <2>5, <2>9
    <3>2. SourceOK(file, q)
      BY <2>1, <2>3, <2>5, <2>9, <3>1 DEF SourceOK
    <3> QED BY <1>c, <2>1, <2>6, <3>2 DEF SourcesOK
  <2>11. Tiled'
    <3> SUFFICES ASSUME errors = <<>>
                 PROVE  /\ \A k \in 1..(Len(queries) + 1) :
                             /\ queries'[k].kind = "SourceQuery"
                             /\ Gap(file, EndOf(queries', k - 1) + 1, queries'[k].pos - 1)
                        /\ Gap(file, EndOf(queries', Len(queries) + 1) + 1, at - 1)
      BY <2>1, <2>2, <2>6 DEF Tiled
    <3>1. \A k \in 0..Len(queries) : EndOf(queries', k) = EndOf(queries, k)
      BY <1>c, <2>6 DEF EndOf
    <3>2. EndOf(queries', Len(queries) + 1) = query.semi
      BY <1>c, <2>5, <2>6 DEF EndOf
    <3>3. Gap(file, query.semi + 1, at - 1) /\ Gap(file, EndOf(queries, Len(queries)) + 1, query.pos - 1)
      BY <2>2 DEF Tiled
    <3>4. ASSUME NEW k \in 1..(Len(queries) + 1)
          PROVE  /\ queries'[k].kind = "SourceQuery"
                 /\ Gap(file, EndOf(queries', k - 1) + 1, queries'[k].pos - 1)
      <4>1. k - 1 \in 0..Len(queries)
        BY <1>c
      <4>2. CASE k \in 1..Len(queries)
        BY <1>c, <2>6, <3>1, <4>1, <4>2 DEF Tiled
      <4>3. CASE k = Len(queries) + 1
        <5>1. k - 1 = Len(queries)
          BY <1>c, <4>3
        <5> QED BY <2>5, <2>6, <3>1, <3>3, <4>1, <4>3, <5>1
      <4> QED BY <1>c, <4>2, <4>3
    <3> QED BY <3>2, <3>3, <3>4
  <2> QED BY <2>7, <2>8, <2>10, <2>11
<1>15. CASE EndFile
  <2> DEFINE unknown == {k \in DOMAIN queries : queries[k].kind = "SourceQuery"
                                                /\ queries[k].pragma = "unknownSpec"}
  <2>1. /\ mode = "file" /\ mode' = "parsed" /\ ret' = ret /\ file' = file /\ at' = at
        /\ group' = group /\ lead' = lead /\ query' = query /\ outcome' = outcome
    BY <1>15 DEF EndFile
  <2>2. at = Len(file)
    BY <1>15, <1>a, <1>j, <2>1 DEF EndFile, Tok
  <2>3. /\ ~InQuery' /\ ~InArg' /\ ~AfterSemi' /\ Outside /\ ~Outside'
        /\ Passed = at - 1 /\ ~Scanning
    BY <2>1 DEF InQuery, InArg, AfterSemi, Outside, Where, Scanning, Passed
  <2>4. \/ errors # <<>> /\ queries' = queries /\ errors' = errors
        \/ /\ queries' = queries
           /\ \E k \in unknown : errors' = Append(errors, file[queries[k].pos].line)
        \/ /\ errors' = errors
           /\ queries' = [k \in DOMAIN queries |->
                            IF queries[k].kind = "BadQuery" THEN queries[k]
                            ELSE [queries[k] EXCEPT !.expanded = queries[k].pragma = "paginate"]]
    BY <1>15 DEF EndFile
  <2>5. /\ queries' \in Seq(BadRec \cup SourceRec) /\ Len(queries') = Len(queries)
        /\ DOMAIN queries' = 1..Len(queries)
        /\ \A k \in 1..Len(queries) :
             /\ queries'[k].kind = queries[k].kind
             /\ queries'[k].pos = queries[k].pos /\ queries'[k].semi = queries[k].semi
             /\ queries[k].kind = "SourceQuery" => SourceOK(file, queries'[k])
    <3>1. queries \in Seq(BadRec \cup SourceRec)
      BY DEF Shape
    <3>2. CASE queries' = queries
      BY <1>c, <3>1, <3>2 DEF SourcesOK
    <3>3. CASE queries' = [k \in DOMAIN queries |->
                            IF queries[k].kind = "BadQuery" THEN queries[k]
                            ELSE [queries[k] EXCEPT !.expanded = queries[k].pragma = "paginate"]]
      <4>1. DOMAIN queries' = 1..Len(queries)
        BY <1>c, <3>3
      <4>2. ASSUME NEW k \in 1..Len(queries)
            PROVE  /\ queries'[k] \in BadRec \cup SourceRec
                   /\ queries'[k].kind = queries[k].kind
                   /\ queries'[k].pos = queries[k].pos /\ queries'[k].semi = queries[k].semi
                   /\ queries[k].kind = "SourceQuery" => SourceOK(file, queries'[k])
        <5>1. queries[k] \in BadRec \cup SourceRec
          BY <3>1, ElementOfSeq
        <5>2. queries[k].kind = "SourceQuery" => SourceOK(file, queries[k])
          BY <1>c DEF SourcesOK
        <5>3. CASE queries[k].kind = "BadQuery"
          BY <1>c, <3>3, <5>1, <5>3
        <5>4. CASE queries[k].kind # "BadQuery"
          <6>1. queries[k] \in SourceRec
            BY <5>1, <5>4 DEF BadRec
          <6>2. queries'[k] = [queries[k] EXCEPT !.expanded = queries[k].pragma = "paginate"]
            BY <1>c, <3>3, <5>4
          <6>3. (queries[k].pragma = "paginate") \in BOOLEAN
            OBVIOUS
          <6>4. ASSUME NEW q \in SourceRec, NEW e \in BOOLEAN
                PROVE  /\ [q EXCEPT !.expanded = e] \in SourceRec
                       /\ SourceOK(file, q) => SourceOK(file, [q EXCEPT !.expanded = e])
                       /\ [q EXCEPT !.expanded = e].kind = q.kind
                       /\ [q EXCEPT !.expanded = e].pos = q.pos
                       /\ [q EXCEPT !.expanded = e].semi = q.semi
            <7>1. [q EXCEPT !.expanded = e] \in SourceRec
              BY DEF SourceRec
            <7>2. /\ [q EXCEPT !.expanded = e].kind = q.kind
                  /\ [q EXCEPT !.expanded = e].pos = q.pos
                  /\ [q EXCEPT !.expanded = e].semi = q.semi
                  /\ [q EXCEPT !.expanded = e].doc = q.doc
                  /\ [q EXCEPT !.expanded = e].args = q.args
                  /\ [q EXCEPT !.expanded = e].params = q.params
                  /\ [q EXCEPT !.expanded = e].ordinals = q.ordinals
              BY DEF SourceRec
            <7> QED BY <7>1, <7>2 DEF SourceOK
          <6> QED BY <5>2, <6>1, <6>2, <6>3, <6>4
        <5> QED BY <5>3, <5>4
      <4>3. queries' = [k \in 1..Len(queries) |-> queries'[k]]
        BY <1>c, <3>3
      <4>4. queries' \in Seq(BadRec \cup SourceRec) /\ Len(queries') = Len(queries)
        <5>1. queries' \in [1..Len(queries) -> BadRec \cup SourceRec]
          BY <4>2, <4>3
        <5>2. queries' \in Seq(BadRec \cup SourceRec)
          BY <1>c, <5>1, SeqDef
        <5>3. DOMAIN queries' = 1..Len(queries') /\ Len(queries') \in Nat
          BY <5>2, LenProperties
        <5> QED BY <1>c, <4>1, <5>2, <5>3
      <4> QED BY <4>1, <4>2, <4>4
    <3> QED BY <2>4, <3>2, <3>3
  <2>6. errors' \in Seq(Nat) /\ (errors' = <<>> => errors = <<>>)
    <3>1. errors \in Seq(Nat)
      BY DEF Shape
    <3>2. CASE errors' = errors
      BY <3>1, <3>2
    <3>3. CASE \E k \in unknown : errors' = Append(errors, file[queries[k].pos].line)
      <4>1. PICK k \in unknown : errors' = Append(errors, file[queries[k].pos].line)
        BY <3>3
      <4>2. k \in DOMAIN queries /\ queries[k].kind = "SourceQuery"
        OBVIOUS
      <4>3. queries[k].pos \in 1..Len(file)
        BY <4>2 DEF SourcesOK, SourceOK
      <4>4. file[queries[k].pos].line \in Nat
        BY <1>a, <4>3
      <4> QED BY <3>1, <4>1, <4>4, Appended
    <3> QED BY <2>4, <3>2, <3>3
  <2> HIDE DEF unknown
  <2>7. Shape' /\ LookAhead' /\ GroupRead'
    BY <2>1, <2>5, <2>6 DEF Shape, Modes, LookAhead, GroupRead
  <2>8. Docs' /\ ArgsFound' /\ ParamsFound' /\ Results'
    BY <2>1, <2>3 DEF Docs, ArgsFound, ParamsFound, Results
  <2>9. SourcesOK'
    BY <2>1, <2>5 DEF SourcesOK
  <2>10. Tiled'
    <3> SUFFICES ASSUME errors = <<>>
                 PROVE  /\ \A k \in 1..Len(queries) :
                             /\ queries'[k].kind = "SourceQuery"
                             /\ Gap(file, EndOf(queries', k - 1) + 1, queries'[k].pos - 1)
                        /\ Gap(file, EndOf(queries', Len(queries)) + 1, Len(file) - 1)
      BY <2>1, <2>3, <2>5, <2>6 DEF Tiled
    <3>1. \A k \in 0..Len(queries) : EndOf(queries', k) = EndOf(queries, k)
      BY <1>c, <2>5 DEF EndOf
    <3>2. /\ \A k \in 1..Len(queries) :
               /\ queries[k].kind = "SourceQuery"
               /\ Gap(file, EndOf(queries, k - 1) + 1, queries[k].pos - 1)
          /\ Gap(file, EndOf(queries, Len(queries)) + 1, at - 1)
      BY <1>c, <2>3 DEF Tiled
    <3>3. ASSUME NEW k \in 1..Len(queries) PROVE k - 1 \in 0..Len(queries)
      BY <1>c
    <3>4. Len(queries) \in 0..Len(queries)
      BY <1>c
    <3> QED BY <2>2, <2>5, <3>1, <3>2, <3>3, <3>4
  <2> QED BY <2>7, <2>8, <2>9, <2>10
<1>16. CASE ParseQueries
  <2>1. /\ mode = "parsed" /\ mode' = mode /\ ret' = ret /\ file' = file /\ at' = at
        /\ group' = group /\ lead' = lead /\ query' = query /\ queries' = queries
        /\ errors' = errors
    BY <1>16 DEF ParseQueries
  <2>2. \/ outcome' = "error"
        \/ outcome' = "badQuery" /\ errors = <<>> /\ \E k \in DOMAIN queries : queries[k].kind = "BadQuery"
        \/ outcome' \in {"refused", "ok"} /\ errors = <<>>
    BY <1>16 DEF ParseQueries
  <2>3. outcome' = "error" \/ (outcome' \in {"refused", "ok"} /\ errors = <<>>)
    BY <2>2 DEF Tiled
  <2>4. Shape' /\ LookAhead' /\ GroupRead' /\ Results'
    BY <2>1, <2>3 DEF Shape, LookAhead, GroupRead, Results
  <2>5. Docs' /\ ArgsFound' /\ ParamsFound'
    BY <2>1 DEF Docs, ArgsFound, ParamsFound, Scanning, InQuery, InArg, AfterSemi, Where
  <2>6. SourcesOK' /\ Tiled'
    BY <2>1 DEF SourcesOK, Tiled, Scanning, InQuery, AfterSemi, Outside, Where, Passed
  <2> QED BY <2>4, <2>5, <2>6
<1>17. CASE UNCHANGED vars
  <2>1. /\ mode' = mode /\ ret' = ret /\ file' = file /\ at' = at /\ outcome' = outcome
        /\ group' = group /\ lead' = lead /\ query' = query /\ queries' = queries
        /\ errors' = errors
    BY <1>17 DEF vars
  <2>2. Shape' /\ LookAhead' /\ GroupRead' /\ Results' /\ SourcesOK'
    BY <2>1 DEF Shape, LookAhead, GroupRead, Results, SourcesOK, Tok, Line, LineOf
  <2>3. /\ InQuery' <=> InQuery
        /\ InArg' <=> InArg
        /\ AfterSemi' <=> AfterSemi
        /\ Outside' <=> Outside
        /\ Scanning' <=> Scanning
        /\ Passed' = Passed
    BY <2>1 DEF Scanning, InQuery, InArg, AfterSemi, Outside, Where, Passed
  <2>4. Docs' /\ ArgsFound' /\ Tiled'
    BY <2>1, <2>3 DEF Docs, ArgsFound, Tiled, Tok
  <2>5. ParamsFound'
    BY <2>1, <2>3 DEF ParamsFound, Annotated, Annotation
  <2> QED BY <2>2, <2>4, <2>5
<1> QED BY <1>1, <1>2, <1>3, <1>4, <1>5, <1>6, <1>7, <1>8, <1>9, <1>10, <1>11, <1>12, <1>13, <1>14,
           <1>15, <1>16, <1>17 DEF Next, Finished

-----------------------------------------------------------------------------
(* The invariant holds at every place of every parse.                       *)
THEOREM IInvHolds == Spec => []IInv
<1>1. Init => IInv
  BY InitIInv
<1>2. IInv /\ [Next]_vars => IInv'
  BY NextIInv
<1> QED BY <1>1, <1>2, PTL DEF Spec

(* Whatever the file, parseQueries in generate.go never finds a bad query   *)
(* in a file without errors.                                                *)
THEOREM NoBadQueryUnreported == Spec => []BadQueryIsReported
<1>1. IInv => BadQueryIsReported
  BY DEF IInv, Results, BadQueryIsReported
<1> QED BY <1>1, IInvHolds, PTL

(* Whatever the file, the queries of a parse without errors are disjoint    *)
(* and, comments aside, cover every token.                                  *)
THEOREM FileIsTiled == Spec => []QueriesTile
<1>1. IInv => QueriesTile
  <2> SUFFICES ASSUME IInv, outcome \in {"ok", "refused"} PROVE QueriesTile
    BY DEF QueriesTile
  <2>1. /\ \A k \in DOMAIN queries :
             /\ queries[k].kind = "SourceQuery"
             /\ Gap(file, EndOf(queries, k - 1) + 1, queries[k].pos - 1)
        /\ Gap(file, EndOf(queries, Len(queries)) + 1, Len(file) - 1)
    BY DEF IInv, Results, Tiled
  <2>2. \A k \in DOMAIN queries : SourceOK(file, queries[k])
    BY <2>1 DEF IInv, SourcesOK
  <2>3. /\ queries \in Seq(BadRec \cup SourceRec) /\ Len(queries) \in Nat
        /\ DOMAIN queries = 1..Len(queries) /\ Len(file) \in Nat
    BY Known DEF IInv, Shape
  <2>4. ASSUME NEW k \in DOMAIN queries
        PROVE  \A j \in queries[k].pos..queries[k].semi :
                 file[j].tok = "Semicolon" <=> j = queries[k].semi
    <3>1. /\ queries[k].pos \in Nat /\ queries[k].semi \in Nat
          /\ file[queries[k].semi].tok = "Semicolon"
          /\ NoSemicolon(file, queries[k].pos, queries[k].semi - 1)
      BY <2>2, <2>3, Parts DEF IInv, SourceOK
    <3> QED BY <3>1 DEF NoSemicolon
  <2>5. ASSUME NEW k \in DOMAIN queries
        PROVE  Code((IF k = 1 THEN 1 ELSE queries[k - 1].semi + 1), queries[k].pos - 1) = {}
    <3>1. EndOf(queries, k - 1) + 1 = IF k = 1 THEN 1 ELSE queries[k - 1].semi + 1
      BY <2>3 DEF EndOf
    <3> QED BY <2>1, <3>1 DEF Gap, Code
  <2>6. Code((IF queries = <<>> THEN 0 ELSE queries[Len(queries)].semi) + 1, Len(file) - 1) = {}
    <3>1. EndOf(queries, Len(queries)) = IF queries = <<>> THEN 0 ELSE queries[Len(queries)].semi
      BY <2>3, EmptySeq DEF EndOf
    <3> QED BY <2>1, <3>1 DEF Gap, Code
  <2> QED BY <2>4, <2>5, <2>6 DEF QueriesTile
<1> QED BY <1>1, IInvHolds, PTL

(* A SourceQuery is one of the queries of which the invariant speaks.       *)
LEMMA SourceKnown ==
  ASSUME IInv, NEW q \in Sources
  PROVE  SourceOK(file, q) /\ q.args \in Seq(Arg) /\ q.doc \in Seq(Nat) /\ q.ordinals \in Seq(Nat)
<1>1. PICK k \in DOMAIN queries : q = queries[k] /\ q.kind = "SourceQuery"
  BY DEF Sources
<1>2. SourceOK(file, q)
  BY <1>1 DEF IInv, SourcesOK
<1>3. queries[k] \in BadRec \cup SourceRec
  BY Known, ElementOfSeq DEF IInv, Shape
<1>4. q \in SourceRec
  BY <1>1, <1>3 DEF BadRec
<1> QED BY <1>2, <1>4 DEF SourceRec

(* Whatever the file, every pggen.arg of a query is an argument with the    *)
(* ordinal of its parameter, and the arguments are in order and disjoint.   *)
THEOREM EveryArgIsFound == Spec => []ArgsComplete
<1>1. IInv => ArgsComplete
  <2> SUFFICES ASSUME IInv, NEW q \in Sources
               PROVE  /\ Len(q.args) = Cardinality({k \in q.pos..q.semi :
                                          file[k].tok = "QueryFragment" /\ file[k].open})
                      /\ \A k \in DOMAIN q.args : q.args[k].lo < q.args[k].hi
                                                  /\ q.args[k].hi < 2 * q.semi
                      /\ \A k \in DOMAIN q.args : k > 1 => q.args[k - 1].hi < q.args[k].lo
                      /\ \A k \in DOMAIN q.args : q.params[q.ordinals[k]] = q.args[k].name
                      /\ \A j, k \in DOMAIN q.params : q.params[j] = q.params[k] => j = k
    BY DEF ArgsComplete
  <2>1. SourceOK(file, q) /\ q.args \in Seq(Arg) /\ q.ordinals \in Seq(Nat)
    BY SourceKnown
  <2>2. DOMAIN q.ordinals = DOMAIN q.args
    BY <2>1, LenProperties DEF SourceOK
  <2>3. Len(q.args) = Cardinality({k \in q.pos..q.semi : file[k].tok = "QueryFragment" /\ file[k].open})
    BY <2>1 DEF SourceOK, Opens
  <2> QED BY <2>1, <2>2, <2>3 DEF SourceOK, ArgsOrdered, Numbered
<1> QED BY <1>1, IInvHolds, PTL

(* Whatever the file, the comment that names a query is directly above it.  *)
THEOREM DocStandsAbove == Spec => []DocIsAbove
<1>1. IInv => DocIsAbove
  <2> SUFFICES ASSUME IInv, NEW q \in Sources
               PROVE  /\ file[q.doc[Len(q.doc)]].line + 1 = file[q.pos].line
                      /\ \A k \in DOMAIN q.doc : k > 1 => file[q.doc[k]].line = file[q.doc[k - 1]].line + 1
                      /\ q.doc[Len(q.doc)] + 1 = q.pos
    BY DEF DocIsAbove
  <2>1. SourceOK(file, q)
    BY SourceKnown
  <2> QED BY <2>1 DEF SourceOK, Above, Consecutive
<1> QED BY <1>1, IInvHolds, PTL
=============================================================================
