------------------------------- MODULE Parser -------------------------------
(***************************************************************************)
(* The parser of query files (internal/parser/parser.go) over the tokens of *)
(* the scanner, and the check that generate.go makes of its result.  A step *)
(* scans one token or takes one decision of a parse function.               *)
(*                                                                          *)
(* Of a token the model keeps its kind, its line and what the parser reads  *)
(* from its text: whether a fragment begins with ")" and ends in            *)
(* "pggen.arg(", the name in a quoted string, the annotation in a comment.  *)
(***************************************************************************)
EXTENDS Naturals, Sequences, FiniteSets

CONSTANTS
  Files,       \* query files: sequences of tokens ending in EOF or Illegal
  Names,       \* names of arguments and queries
  ErrorLimit,  \* 10
  Dialects     \* values of GenerateOptions.Dialect

Lines == Nat \ {0}     \* lines are counted from 1
Token == [tok : {"LineComment"}, line : Lines, name : Names \cup {"text"},
          pragma : {"none", "invalid", "paginate", "unknownSpec"}]
         \cup [tok : {"QueryFragment"}, line : Lines, close : BOOLEAN, open : BOOLEAN]
         \cup [tok : {"String"}, line : Lines, name : Names \cup {"unquoted"}]
         \cup [tok : {"BlockComment", "QuotedIdent", "Semicolon", "EOF", "Illegal"}, line : Lines]

ASSUME ParserAssumption ==
  /\ ErrorLimit \in Nat /\ Dialects \subseteq {"postgres", "clickhouse"}
  /\ {"text", "unquoted"} \cap Names = {}
  /\ \A f \in Files :
       /\ f \in Seq(Token) /\ f # <<>>
       /\ \A k \in DOMAIN f : f[k].tok \in {"EOF", "Illegal"} <=> k = Len(f)
       /\ \A j, k \in DOMAIN f : j <= k => f[j].line <= f[k].line
       \* a line comment ends its line
       /\ \A k \in 1..(Len(f) - 1) :
            f[k].tok = "LineComment" /\ f[k + 1].tok = "LineComment" => f[k].line < f[k + 1].line

VARIABLES
  file,     \* the tokens
  at,       \* the look-ahead token, 0 before the first; parser.pos, tok, lit
  mode,     \* the place in next(), parseQuery, parsePggenArg or parseFile
  ret,      \* where next() returns to
  group,    \* the comment group being consumed: [list, endLine, n]
  lead,     \* leadComment: comments, <<>> for nil
  query,    \* parseQuery: [doc, pos, names, lo, arg, semi], prepareSQL: [params, ordinals]
  queries,  \* ast.File.Queries
  errors,   \* the lines of the recorded errors
  outcome   \* of parseQueries in generate.go

vars == <<file, at, mode, ret, group, lead, query, queries, errors, outcome>>

NoGroup == [list |-> <<>>, endLine |-> 0, n |-> 0]
NoQuery == [doc |-> <<>>, pos |-> 0, names |-> <<>>, lo |-> 0, arg |-> "text", semi |-> 0,
            params |-> <<>>, ordinals |-> <<>>]
Tok     == file[at].tok
LineOf(f, k) == IF k = 0 THEN 0 ELSE f[k].line
Line    == LineOf(file, at)

Init ==
  /\ file \in Files
  /\ at = 0 /\ mode = "next" /\ ret = "first"
  /\ group = NoGroup /\ lead = <<>> /\ query = NoQuery
  /\ queries = <<>> /\ errors = <<>> /\ outcome = "parsing"

-----------------------------------------------------------------------------
(* error(): an error on the line of the last one is discarded, one beyond   *)
(* the limit ends the parse.                                                *)
Discarded(line) == errors # <<>> /\ errors[Len(errors)] = line
Error(line, next) ==
  IF Discarded(line) THEN mode' = next /\ UNCHANGED errors
  ELSE IF Len(errors) > ErrorLimit THEN mode' = "parsed" /\ UNCHANGED errors
  ELSE mode' = next /\ errors' = Append(errors, line)

(* p.next() from a place of a parse function                                *)
CallNext(from) == mode' = "next" /\ ret' = from

(* The scanner reports an Illegal token itself, whatever the limit.         *)
Scan(k) ==
  errors' = IF file[k].tok = "Illegal" THEN Append(errors, file[k].line) ELSE errors

Next0 ==
  /\ mode = "next"
  /\ at' = at + 1
  /\ Scan(at + 1)
  /\ lead' = <<>>
  /\ IF file[at + 1].tok = "LineComment"
     THEN /\ mode' = "comments"
          /\ group' = [list |-> <<>>, endLine |-> file[at + 1].line,
                       n |-> IF file[at + 1].line = Line THEN 0 ELSE 1]
     ELSE mode' = ret /\ UNCHANGED group
  /\ UNCHANGED <<file, ret, query, queries, outcome>>

InGroup == Tok = "LineComment" /\ Line <= group.endLine + group.n

ConsumeComment ==
  /\ mode = "comments" /\ InGroup
  /\ group' = [group EXCEPT !.list = Append(@, at), !.endLine = Line]
  /\ at' = at + 1
  /\ Scan(at + 1)
  /\ UNCHANGED <<file, mode, ret, lead, query, queries, outcome>>

(* The last group is the lead comment if a token follows on the next line.  *)
(* Mutant: or on any later line.                                            *)
IsLeadLoose == TRUE
IsLead == group.endLine + 1 = Line

EndGroup ==
  /\ mode = "comments" /\ ~InGroup
  /\ IF Tok = "LineComment"
     THEN /\ group' = [list |-> <<>>, endLine |-> Line, n |-> 1]
          /\ UNCHANGED <<mode, lead>>
     ELSE /\ lead' = IF IsLead THEN group.list ELSE <<>>
          /\ mode' = ret /\ group' = NoGroup
  /\ UNCHANGED <<file, at, ret, query, queries, errors, outcome>>

-----------------------------------------------------------------------------
(* parseFile gives up if scanning the first token failed.                   *)
First ==
  /\ mode = "first"
  /\ mode' = IF errors # <<>> THEN "parsed" ELSE "file"
  /\ UNCHANGED <<file, at, ret, group, lead, query, queries, errors, outcome>>

StartQuery ==
  /\ mode = "file" /\ Tok \notin {"EOF", "Illegal"}
  /\ query' = [NoQuery EXCEPT !.doc = lead, !.pos = at]
  /\ mode' = "query"
  /\ UNCHANGED <<file, at, ret, group, lead, queries, errors, outcome>>

Bad == Append(queries, [kind |-> "BadQuery", pos |-> query.pos, semi |-> at])

(* Mutants: a statement without semicolon is dropped; its error is reported *)
(* without leaving the loop.                                                *)
UnterminatedDropped ==
  /\ mode = "query" /\ Tok \in {"EOF", "Illegal"}
  /\ mode' = "file"
  /\ UNCHANGED <<file, at, ret, group, lead, query, queries, errors, outcome>>
UnterminatedContinues ==
  /\ mode = "query" /\ Tok \in {"EOF", "Illegal"}
  /\ Error(Line, "query")
  /\ UNCHANGED <<file, at, ret, group, lead, query, queries, outcome>>
Unterminated ==
  /\ mode = "query" /\ Tok \in {"EOF", "Illegal"}
  /\ Error(Line, "file")
  /\ queries' = Bad
  /\ UNCHANGED <<file, at, ret, group, lead, query, outcome>>

HasPggenArg == Tok = "QueryFragment" /\ file[at].open

(* lo is inside the fragment that opens, hi inside the one that closes: a   *)
(* fragment that does both begins with its ")".                             *)
OpenArg ==
  /\ mode = "query" /\ HasPggenArg
  /\ query' = [query EXCEPT !.lo = 2 * at + 1]
  /\ CallNext("string")
  /\ UNCHANGED <<file, at, group, lead, queries, errors, outcome>>

SkipToken ==
  /\ mode = "query" /\ ~HasPggenArg /\ Tok \notin {"Semicolon", "EOF", "Illegal"}
  /\ CallNext("query")
  /\ UNCHANGED <<file, at, group, lead, query, queries, errors, outcome>>

(* Mutant: parsePggenArg returns false without an error.                    *)
BadArgSilent == mode' = "file" /\ queries' = Bad /\ UNCHANGED errors
BadArg == Error(Line, "file") /\ queries' = Bad

ArgString ==
  /\ mode = "string"
  /\ IF Tok = "String" /\ file[at].name # "unquoted"
     THEN /\ query' = [query EXCEPT !.arg = file[at].name]
          /\ CallNext("close")
          /\ UNCHANGED <<queries, errors>>
     ELSE BadArg /\ UNCHANGED <<query, ret>>
  /\ UNCHANGED <<file, at, group, lead, outcome>>

(* The closing fragment is not consumed: it may open the next argument.     *)
(* Mutant: it is.                                                           *)
AfterArgConsumes == CallNext("query")
AfterArg == mode' = "query" /\ UNCHANGED ret

ArgClose ==
  /\ mode = "close"
  /\ IF Tok = "QueryFragment" /\ file[at].close
     THEN /\ query' = [query EXCEPT !.names =
                         Append(@, [lo |-> query.lo, hi |-> 2 * at, name |-> query.arg])]
          /\ AfterArg
          /\ UNCHANGED <<queries, errors>>
     ELSE BadArg /\ UNCHANGED <<query, ret>>
  /\ UNCHANGED <<file, at, group, lead, outcome>>

Semicolon ==
  /\ mode = "query" /\ Tok = "Semicolon"
  /\ query' = [query EXCEPT !.semi = at]
  /\ CallNext("annotations")
  /\ UNCHANGED <<file, at, group, lead, queries, errors, outcome>>

-----------------------------------------------------------------------------
Annotation == file[query.doc[Len(query.doc)]]
Annotated  == query.doc # <<>> /\ Annotation.name # "text" /\ Annotation.pragma # "invalid"

(* expect(Semicolon) has moved on to the next token; the error is reported  *)
(* at the start of the query.                                               *)
Annotations ==
  /\ mode = "annotations"
  /\ IF Annotated
     THEN mode' = "prepare" /\ UNCHANGED <<queries, errors>>
     ELSE Error(file[query.pos].line, "file") /\ queries' = Bad
  /\ UNCHANGED <<file, at, ret, group, lead, query, outcome>>

(* prepareSQL: a parameter for each name, in the order in which they first  *)
(* appear, and for each argument the ordinal of its parameter.              *)
(* Mutant: one parameter per argument.                                      *)
PrepareArgRepeated ==
  /\ mode = "prepare" /\ Len(query.ordinals) < Len(query.names)
  /\ query' = [query EXCEPT !.params = Append(@, query.names[Len(query.ordinals) + 1].name),
                            !.ordinals = Append(@, Len(query.params) + 1)]
  /\ UNCHANGED <<file, at, mode, ret, group, lead, queries, errors, outcome>>
PrepareArg ==
  /\ mode = "prepare" /\ Len(query.ordinals) < Len(query.names)
  /\ LET name  == query.names[Len(query.ordinals) + 1].name
         known == {o \in DOMAIN query.params : query.params[o] = name}
     IN \/ \E o \in known : query' = [query EXCEPT !.ordinals = Append(@, o)]
        \/ /\ known = {}
           /\ query' = [query EXCEPT !.params = Append(@, name),
                                     !.ordinals = Append(@, Len(query.params) + 1)]
  /\ UNCHANGED <<file, at, mode, ret, group, lead, queries, errors, outcome>>

Prepared ==
  /\ mode = "prepare" /\ Len(query.ordinals) = Len(query.names)
  /\ queries' = Append(queries,
       [kind |-> "SourceQuery", pos |-> query.pos, semi |-> query.semi, doc |-> query.doc,
        name |-> Annotation.name, pragma |-> Annotation.pragma, args |-> query.names,
        params |-> query.params, ordinals |-> query.ordinals, expanded |-> FALSE])
  /\ mode' = "file"
  /\ UNCHANGED <<file, at, ret, group, lead, query, errors, outcome>>

-----------------------------------------------------------------------------
(* parseFile ends; expandPaginatedQueries runs only if nothing failed, and  *)
(* stops at the first query it cannot fan out ("unknownSpec").             *)
EndFile ==
  /\ mode = "file" /\ Tok \in {"EOF", "Illegal"}
  /\ mode' = "parsed"
  /\ LET unknown == {k \in DOMAIN queries : queries[k].kind = "SourceQuery" /\ queries[k].pragma = "unknownSpec"}
     IN IF errors # <<>> THEN UNCHANGED <<queries, errors>>
        ELSE IF unknown # {}
        THEN /\ \E k \in unknown : (\A j \in unknown : k <= j)
                                   /\ errors' = Append(errors, file[queries[k].pos].line)
             /\ UNCHANGED queries
        ELSE /\ queries' = [k \in DOMAIN queries |->
                              IF queries[k].kind = "BadQuery" THEN queries[k]
                              ELSE [queries[k] EXCEPT !.expanded = queries[k].pragma = "paginate"]]
             /\ UNCHANGED errors
  /\ UNCHANGED <<file, at, ret, group, lead, query, outcome>>

(* generate.go: parseQueries takes the file only if no error was recorded.  *)
(* The variants of a paginated query have names of their own; a ClickHouse  *)
(* query takes its parameters without pggen.arg.  The dialect is an option  *)
(* of the run: nothing before this check depends on it.                     *)
SameName(p, q) == p.name = q.name /\ p.expanded = q.expanded
ParseQueries ==
  /\ mode = "parsed" /\ outcome = "parsing"
  /\ \E dialect \in Dialects :
       outcome' =
         IF errors # <<>> THEN "error"
         ELSE IF \E k \in DOMAIN queries : queries[k].kind = "BadQuery" THEN "badQuery"
         ELSE IF \/ \E j, k \in DOMAIN queries : j < k /\ SameName(queries[j], queries[k])
                 \/ dialect = "clickhouse" /\ \E k \in DOMAIN queries : queries[k].params # <<>>
         THEN "refused"
         ELSE "ok"
  /\ UNCHANGED <<file, at, mode, ret, group, lead, query, queries, errors>>

Finished == outcome # "parsing" /\ UNCHANGED vars

Next == \/ Next0 \/ ConsumeComment \/ EndGroup
        \/ First \/ StartQuery \/ Unterminated \/ OpenArg \/ SkipToken \/ ArgString \/ ArgClose
        \/ Semicolon \/ Annotations \/ PrepareArg \/ Prepared \/ EndFile \/ ParseQueries \/ Finished

Spec == Init /\ [][Next]_vars
FairSpec == Spec /\ WF_vars(Next)

-----------------------------------------------------------------------------
(* The look-ahead stays inside the file, whatever parse function reads on.  *)
TypeOK ==
  /\ at \in 0..Len(file)
  /\ mode \in {"next", "comments", "first", "file", "query", "string", "close",
               "annotations", "prepare", "parsed"}
  /\ ret \in {"first", "query", "string", "close", "annotations"}
  /\ \A k \in DOMAIN lead : file[lead[k]].tok = "LineComment"
  /\ \A k \in DOMAIN group.list : file[group.list[k]].tok = "LineComment"
  /\ query.pos \in 0..at /\ query.semi \in 0..at
  /\ \A k \in DOMAIN errors : errors[k] \in 1..file[Len(file)].line
  /\ outcome \in {"parsing", "error", "badQuery", "refused", "ok"}

Code(lo, hi) == {k \in lo..hi : file[k].tok # "LineComment"}
Sources == {q \in {queries[k] : k \in DOMAIN queries} : q.kind = "SourceQuery"}

(* A query that could not be parsed always leaves an error: generate.go     *)
(* never meets "parsed bad query instead of erroring".                      *)
BadQueryIsReported == outcome # "badQuery"

(* A file that parses is a sequence of queries, each ending at the first    *)
(* semicolon after its start: no token outside a comment is lost and none   *)
(* is part of two queries.                                                  *)
QueriesTile ==
  outcome \in {"ok", "refused"} =>
    /\ \A k \in DOMAIN queries :
         /\ \A j \in queries[k].pos..queries[k].semi :
              file[j].tok = "Semicolon" <=> j = queries[k].semi
         /\ Code((IF k = 1 THEN 1 ELSE queries[k - 1].semi + 1), queries[k].pos - 1) = {}
    /\ Code((IF queries = <<>> THEN 0 ELSE queries[Len(queries)].semi) + 1, Len(file) - 1) = {}

(* Every pggen.arg of a query becomes an argument, in order and without     *)
(* overlap, so that prepareSQL never slices backwards; its ordinal names    *)
(* its parameter, and the parameters are the names without repetition.      *)
ArgsComplete ==
  \A q \in Sources :
    /\ Len(q.args) = Cardinality({k \in q.pos..q.semi : file[k].tok = "QueryFragment" /\ file[k].open})
    /\ \A k \in DOMAIN q.args : q.args[k].lo < q.args[k].hi /\ q.args[k].hi < 2 * q.semi
    /\ \A k \in DOMAIN q.args : k > 1 => q.args[k - 1].hi < q.args[k].lo
    /\ \A k \in DOMAIN q.args : q.params[q.ordinals[k]] = q.args[k].name
    /\ \A j, k \in DOMAIN q.params : q.params[j] = q.params[k] => j = k

(* The comment that names a query is the last of a block of comments on     *)
(* consecutive lines directly above it: a blank line detaches it.           *)
DocIsAbove ==
  \A q \in Sources :
    /\ file[q.doc[Len(q.doc)]].line + 1 = file[q.pos].line
    /\ \A k \in DOMAIN q.doc : k > 1 => file[q.doc[k]].line = file[q.doc[k - 1]].line + 1
    /\ q.doc[Len(q.doc)] + 1 = q.pos

(* "it cannot be a lead comment": no comment that shares its line with an   *)
(* earlier token is part of the comment that names the next query.          *)
DocIsLead ==
  \A q \in Sources : \A k \in DOMAIN q.doc :
    q.doc[k] = 1 \/ file[q.doc[k] - 1].line < file[q.doc[k]].line

(* Parsing comes to an end, through every error and bailout.                *)
ParseEnds == <>(outcome # "parsing")
=============================================================================
