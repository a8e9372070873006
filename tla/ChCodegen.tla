----------------------------- MODULE ChCodegen -----------------------------
(***************************************************************************)
(* Go code generation for ClickHouse, and the code it generates:            *)
(* paginated queries are fanned out, TemplateAll prepares the files of a    *)
(* package, query_clickhouse.gotemplate emits them, and a caller calls the  *)
(* methods of the emitted Querier.                                          *)
(*                                                                          *)
(* A Go name is a sequence of words, as in Codegen.  Field and parameter    *)
(* names are those of the SQL parameters.  An emitted file is the packages  *)
(* it imports, the names it declares and the bodies of its methods.  The    *)
(* types of columns, and the imports they need, are in Codegen; the bytes   *)
(* of a statement are in ChQuery.                                           *)
(***************************************************************************)
EXTENDS Naturals, Sequences, FiniteSets, SequencesExt

CONSTANTS
  Packages,          \* the lists of typed query files Generate may be given
  InlineParamCount,
  UpperName(_),      \* chooseUpperName: the Go field of a parameter, not one to one
  MaxRows            \* bound: the rows that the server has for a query

Identifier == "Identifier"
Input == [pg : STRING, type : STRING]              \* {pg:type}
Query == [name : Seq(STRING), kind : {"one", "many", "exec"},
          ins : Seq(Input), outs : Seq(STRING),
          output : Seq(STRING), sql : Seq(STRING), \* output= and sql= pragmas
          group : Seq(STRING),                     \* VariantGroup, <<>> if it is no variant
          key : STRING, camel : STRING, desc : BOOLEAN]  \* VariantKey, "" for the default
UnknownKey == "unknown"                            \* stands for what is no sort key
File  == [path : Nat, queries : Seq(Query)]

(* fanOut makes both directions of a sort key, in the file of its query.    *)
BothDirections(queries) ==
  \A j \in DOMAIN queries : queries[j].group # <<>> /\ queries[j].key # "" =>
    \E k \in DOMAIN queries :
      /\ queries[k].group = queries[j].group /\ queries[k].key = queries[j].key
      /\ queries[k].desc # queries[j].desc

ASSUME ChCodegenAssumption ==
  /\ Packages \subseteq Seq(File) \ {<<>>}
  /\ \A p \in Packages : \A k \in DOMAIN p :
       /\ \A j \in DOMAIN p[k].queries : p[k].queries[j].key # UnknownKey
       /\ BothDirections(p[k].queries)
  /\ InlineParamCount \in Nat /\ MaxRows \in Nat

VARIABLES
  files,    \* the typed query files
  pc, err,
  tfs,      \* goQueryFiles
  code,     \* the emitted files
  call,     \* the call of a Querier method: its method, sort key, direction, bad identifiers
  body,     \* the method that runs
  env,      \* its local variables
  todo,     \* identifiers substituteIdentifiers has still to fill in
  sent,     \* what the connection was called with
  left,     \* rows that the server has still to send
  open,     \* rows has to be closed
  result

package == <<files, tfs, code>>
vars == <<files, pc, err, tfs, code, call, body, env, todo, sent, left, open, result>>

Elems(s) == {s[k] : k \in DOMAIN s}
None == "none"

-----------------------------------------------------------------------------
(* fanOut: the default variant, then each key descending and ascending; the *)
(* cursor parameters of a key stand where pggen.keyset stood, sql= does not *)
(* go with paginate=.                                                       *)
Variant(q, key, desc, dir) ==
  [q EXCEPT !.name = @ \o dir, !.group = q.name,
            !.key = key.name, !.camel = key.camel, !.desc = desc,
            !.ins = <<Head(q.ins)>> \o key.cursor \o Tail(q.ins)]
FanOut(q, default, keys) ==
  <<Variant(q, [name |-> "", camel |-> "", cursor |-> default], FALSE, <<"Default">>)>>
  \o FlattenSeq([k \in DOMAIN keys |->
       <<Variant(q, keys[k], TRUE, <<keys[k].camel, "Desc">>),
         Variant(q, keys[k], FALSE, <<keys[k].camel, "Asc">>)>>])

-----------------------------------------------------------------------------
IsVariant(q) == q.group # <<>>
IsIdentifier(in) == in.type = Identifier
ChIdentifierInputs(q) == {in \in Elems(q.ins) : IsIdentifier(in)}
HasIdentifiers(q) == ChIdentifierInputs(q) # {}
IsInlineParams(q) == Len(q.ins) <= InlineParamCount
RowTypeName(q) == IF q.output # <<>> THEN q.output ELSE q.name \o <<"Row">>

VariantSuffix(q) ==
  IF q.key = "" THEN <<"Default">> ELSE <<q.camel, IF q.desc THEN "Desc" ELSE "Asc">>
VariantMethodName(q) == <<"lower">> \o q.group \o VariantSuffix(q)
SQLVarName(q) ==
  CASE q.sql # <<>> -> q.sql
    [] IsVariant(q) -> VariantMethodName(q) \o <<"SQL">>
    [] OTHER -> <<"lower">> \o q.name \o <<"SQL">>

UsesRowStruct(q) == q.kind # "exec" /\ (q.output # <<>> \/ Len(q.outs) > 1)
HasResultElem(q) == UsesRowStruct(q) \/ Len(q.outs) = 1

AllQueries(f) == Elems(f.queries)
PackageQueries(fs) == UNION {AllQueries(fs[k]) : k \in DOMAIN fs}

(* buildPaginateGroup: every variant's inputs, each name once, as the first *)
(* variant that has it declares it; a constant for each sort key.           *)
Distinct(s, Same(_, _)) ==
  FoldLeft(LAMBDA acc, e : IF \E d \in Elems(acc) : Same(d, e) THEN acc ELSE Append(acc, e), <<>>, s)
(* Mutant: only the default variant's inputs.                               *)
UnifiedInputsOfDefault(variants) == Distinct(variants[1].ins, LAMBDA a, b : a.pg = b.pg)
UnifiedInputs(variants) ==
  Distinct(FlattenSeq([k \in DOMAIN variants |-> variants[k].ins]), LAMBDA a, b : a.pg = b.pg)
SortKeyConsts(name, variants) ==
  LET keyed == SelectSeq(variants, LAMBDA v : v.key # "")
      consts == [k \in DOMAIN keyed |->
                   [name |-> name \o <<"Sort", keyed[k].camel>>, value |-> keyed[k].key]]
  IN Distinct(consts, LAMBDA a, b : a.value = b.value)
(* The variants of a group, each at its place in the file.                  *)
GroupVariants(name, queries) ==
  [k \in {j \in DOMAIN queries : IsVariant(queries[j]) /\ queries[j].group = name} |-> queries[k]]
InOrder(name, queries) == SelectSeq(queries, LAMBDA q : IsVariant(q) /\ q.group = name)
BuildPaginateGroup(name, queries) ==
  [name |-> name, params |-> name \o <<"Params">>,
   inputs |-> UnifiedInputs(InOrder(name, queries)),
   consts |-> SortKeyConsts(name, InOrder(name, queries)),
   variants |-> GroupVariants(name, queries)]

(* templateFile: groups are in order of appearance.  Regular queries and    *)
(* variants stay in one list here and are told apart by IsVariant.          *)
GroupNames(queries) ==
  LET variants == SelectSeq(queries, IsVariant)
  IN Distinct([k \in DOMAIN variants |-> variants[k].group], LAMBDA a, b : a = b)
TemplateFile(f, isLeader) ==
  [path |-> f.path, isLeader |-> isLeader, queries |-> f.queries,
   groups |-> [k \in DOMAIN GroupNames(f.queries) |->
                 BuildPaginateGroup(GroupNames(f.queries)[k], f.queries)],
   imports |-> {"context", "fmt", "clickhouse", "driver"}, declarers |-> <<>>]

(* The first of the files with the least path.                              *)
IsLeader(k) ==
  \A j \in DOMAIN files :
    files[k].path < files[j].path \/ (files[k].path = files[j].path /\ k <= j)
Templates == [k \in DOMAIN files |-> TemplateFile(files[k], IsLeader(k))]

(* validateSQLConstNames: of all queries, by their places.                  *)
SQLConstsValid(fs) ==
  LET At(p) == fs[p[1]].queries[p[2]]
      named == {p \in UNION {{k} \X DOMAIN fs[k].queries : k \in DOMAIN fs} : At(p).sql # <<>>}
      reserved == UNION {{RowTypeName(q), q.name \o <<"Params">>} : q \in PackageQueries(fs)}
                  \cup {q.group \o <<"Params">> : q \in {r \in PackageQueries(fs) : IsVariant(r)}}
  IN /\ \A p, r \in named : At(p).sql = At(r).sql => p = r
     /\ \A p \in named : At(p).sql \notin reserved

(* buildSharedRowDeclarers, by the names of the columns only.               *)
OutputTypes(fs) == {q.output : q \in PackageQueries(fs)} \ {<<>>}
SharedRowsValid(fs) ==
  \A q, r \in {p \in PackageQueries(fs) : p.output # <<>>} :
    /\ q.outs # <<>>
    /\ q.output = r.output => Len(q.outs) = Len(r.outs) /\ Elems(q.outs) = Elems(r.outs)

(* The declarers of all files go to the leader; ChIdentifierDeclarer is     *)
(* added once however many queries need it.                                 *)
Helper == <<"substituteIdentifiers">>
HasChIdentifiers(fs) == \E q \in PackageQueries(fs) : HasIdentifiers(q)
Declarers(fs, f) ==
  IF f.isLeader
  THEN SetToSeq(OutputTypes(fs)) \o (IF HasChIdentifiers(fs) THEN <<Helper>> ELSE <<>>)
  ELSE <<>>

(* chConnMethodsOf: what the queries of the package call on the connection. *)
(* Mutant: paginated queries do not count.                                  *)
ConnMethodsOfRegular(fs) ==
  {IF q.kind = "exec" THEN "Exec" ELSE IF q.kind = "one" THEN "QueryRow"
   ELSE IF UsesRowStruct(q) THEN "Select" ELSE "Query"
   : q \in {p \in PackageQueries(fs) : ~IsVariant(p)}}
ConnMethodsOf(fs) ==
  {IF q.kind = "exec" THEN "Exec" ELSE IF q.kind = "one" THEN "QueryRow"
   ELSE IF UsesRowStruct(q) THEN "Select" ELSE "Query" : q \in PackageQueries(fs)}

(* Mutant: an identifier counts as a named parameter.                       *)
NeedsClickHouseAnyInput(f) == \E q \in AllQueries(f) : q.ins # <<>>
NeedsClickHouseImport(f) ==
  \E q \in AllQueries(f) : \E in \in Elems(q.ins) : ~IsIdentifier(in)

Imports(fs, f) ==
  LET drop == (IF NeedsClickHouseImport(f) THEN {} ELSE {"clickhouse"})
              \cup (IF f.isLeader /\ ConnMethodsOf(fs) \cap {"Query", "QueryRow"} # {}
                    THEN {} ELSE {"driver"})
  IN (f.imports \cup (IF f.isLeader /\ HasChIdentifiers(fs) THEN {"strings"} ELSE {})) \ drop

Init ==
  /\ files \in Packages
  /\ pc = "template" /\ err = ""
  /\ tfs = <<>> /\ code = <<>>
  /\ call = None /\ body = None /\ env = <<>> /\ todo = {} /\ sent = [conn |-> None]
  /\ left = 0 /\ open = FALSE /\ result = None

running == <<call, body, env, todo, sent, left, open, result>>
Fail(step) == err' = step /\ pc' = "failed"

(* TemplateAll, and the sorting of its files in Generate, which does not    *)
(* keep the order of equal paths.                                           *)
Sorted(fs) ==
  {s \in {[k \in DOMAIN fs |-> fs[p[k]]] : p \in Bijection(DOMAIN fs, DOMAIN fs)} :
     \A j, k \in DOMAIN s : j < k => s[j].path <= s[k].path}
TemplateAll ==
  /\ pc = "template"
  /\ \/ /\ ~SQLConstsValid(Templates) /\ Fail("sqlConst") /\ UNCHANGED tfs
     \/ /\ SQLConstsValid(Templates) /\ ~SharedRowsValid(Templates)
        /\ Fail("sharedRow") /\ UNCHANGED tfs
     \/ /\ SQLConstsValid(Templates) /\ SharedRowsValid(Templates)
        /\ tfs' \in Sorted([k \in DOMAIN files |->
                              [Templates[k] EXCEPT !.imports = Imports(Templates, Templates[k]),
                                                   !.declarers = Declarers(Templates, Templates[k])]])
        /\ pc' = "emit" /\ UNCHANGED err
  /\ UNCHANGED <<files, code, running>>

-----------------------------------------------------------------------------
(* query_clickhouse.gotemplate.  A method reads its arguments from the      *)
(* struct params or, when they are few and it is no variant, from its own   *)
(* parameters.                                                              *)
MethodName(q) == IF IsVariant(q) THEN VariantMethodName(q) ELSE q.name
ParamsType(q) == (IF IsVariant(q) THEN q.group ELSE q.name) \o <<"Params">>
FromStruct(q) == IsVariant(q) \/ ~IsInlineParams(q)

(* EmitChParamNames, EmitChVariantParamNames                                *)
(* Mutant: identifiers are named too.                                       *)
AllParamNames(q) == {in.pg : in \in Elems(q.ins)}
ParamNames(q) == {in.pg : in \in {x \in Elems(q.ins) : ~IsIdentifier(x)}}

(* emitChZeroResult                                                         *)
(* Mutant: a :one returns nil.                                              *)
ZeroResultNil(q) == IF q.kind = "exec" THEN "" ELSE "nil"
ZeroResult(q) == CASE q.kind = "exec" -> "" [] q.kind = "one" -> "item" [] OTHER -> "nil"

ConnCall(q) ==
  IF q.kind = "exec" THEN "Exec"
  ELSE IF q.kind = "one" THEN "QueryRow"
  ELSE IF q.kind = "many" /\ UsesRowStruct(q) THEN "Select" ELSE "Query"

Body(q) ==
  [method |-> MethodName(q), kind |-> q.kind, conn |-> ConnCall(q), const |-> SQLVarName(q),
   fromStruct |-> FromStruct(q), params |-> IF FromStruct(q) THEN ParamsType(q) ELSE <<>>,
   row |-> IF UsesRowStruct(q) THEN RowTypeName(q) ELSE <<>>,
   idents |-> {in.pg : in \in ChIdentifierInputs(q)}, named |-> ParamNames(q),
   ins |-> q.ins, zero |-> ZeroResult(q)]

(* EmitChRowStruct: a shared row is declared by SharedRowDeclarer instead.  *)
(* Mutant: it is declared by each of its queries as well.                   *)
RowStructAlways(q) == IF UsesRowStruct(q) THEN <<RowTypeName(q)>> ELSE <<>>
RowStruct(q) == IF UsesRowStruct(q) /\ q.output = <<>> THEN <<RowTypeName(q)>> ELSE <<>>

Method(name) == <<"DBQuerier">> \o name
QueryDecls(q) ==
  <<SQLVarName(q), Method(MethodName(q))>>
  \o IF IsVariant(q) THEN <<>>
     ELSE (IF IsInlineParams(q) THEN <<>> ELSE <<ParamsType(q)>>) \o RowStruct(q)
GroupDecls(g) ==
  [k \in DOMAIN g.consts |-> g.consts[k].name] \o <<g.params, Method(g.name)>>
LeaderDecls == <<<<"Querier">>, <<"DBQuerier">>, <<"genericConn">>, <<"NewQuerier">>>>
MapEach(s, Op(_)) == FlattenSeq([k \in DOMAIN s |-> Op(s[k])])
Decls(f) == (IF f.isLeader THEN LeaderDecls \o f.declarers ELSE <<>>)
            \o MapEach(f.queries, QueryDecls) \o MapEach(f.groups, GroupDecls)

(* PaginateGroup.EmitParamStruct: the dispatcher's own two fields are last. *)
Synthetic == <<[pg |-> "sort_key", type |-> "String"], [pg |-> "descending", type |-> "Bool"]>>
Structs(f) == {[name |-> ParamsType(q), fields |-> q.ins]
               : q \in {p \in AllQueries(f) : ~IsVariant(p) /\ ~IsInlineParams(p)}}
              \cup {[name |-> g.params, fields |-> g.inputs \o Synthetic] : g \in Elems(f.groups)}

Emitted(f) ==
  [isLeader |-> f.isLeader, imports |-> f.imports, decls |-> Decls(f), structs |-> Structs(f),
   consts |-> {[name |-> SQLVarName(q), query |-> q] : q \in AllQueries(f)},
   bodies |-> {Body(q) : q \in AllQueries(f)},
   groups |-> Elems(f.groups),
   connMethods |-> IF f.isLeader THEN ConnMethodsOf(tfs) ELSE {}]

(* The leader spells out the results of all files, the others their own.    *)
ResultsNamed(f) == IF f.isLeader THEN PackageQueries(tfs) ELSE AllQueries(f)
EmitQueryFile ==
  /\ pc = "emit"
  /\ LET f == tfs[Len(code) + 1]
     IN IF \A q \in ResultsNamed(f) : q.kind = "exec" \/ HasResultElem(q)
        THEN /\ code' = Append(code, Emitted(f))
             /\ pc' = IF Len(code) + 1 = Len(tfs) THEN "ready" ELSE "emit"
             /\ UNCHANGED err
        ELSE Fail("emit") /\ UNCHANGED code
  /\ UNCHANGED <<files, tfs, running>>

-----------------------------------------------------------------------------
(* The generated code at work.                                              *)
Emits(part(_)) == UNION {part(c) : c \in Elems(code)}
Bodies == Emits(LAMBDA c : c.bodies)
Consts == Emits(LAMBDA c : c.consts)
AllStructs == Emits(LAMBDA c : c.structs)
Groups == Emits(LAMBDA c : c.groups)
PublicBodies == {b \in Bodies : b.method[1] # "lower"}

(* The caller's value of each parameter, and the local variables.           *)
Value(n) == [value |-> n]
Fields(name) == UNION {Elems(s.fields) : s \in {t \in AllStructs : t.name = name}}
Named(inputs) == {in.pg : in \in inputs}
Enter(b) ==
  /\ body' = b
  /\ env' = [params |-> [n \in IF b.fromStruct THEN Named(Fields(b.params)) ELSE {} |-> Value(n)],
             locals |-> [n \in {"sql"} \cup IF b.fromStruct THEN {} ELSE Named(Elems(b.ins)) |-> Value(n)]]
  /\ todo' = b.idents
  /\ pc' = IF b.idents = {} THEN "send" ELSE "substitute"

CallMethod ==
  /\ pc = "ready"
  /\ \E b \in PublicBodies : \E bad \in SUBSET b.idents :
       /\ call' = [method |-> b.method, dispatched |-> FALSE, key |-> "", desc |-> FALSE, bad |-> bad]
       /\ Enter(b)
  /\ UNCHANGED <<package, err, sent, left, open, result>>

Return(items, failed) ==
  /\ result' = [items |-> items, failed |-> failed]
  /\ pc' = "returned" /\ open' = FALSE              \* defer rows.Close()

(* EmitDispatcher: the first case that applies.                             *)
(* Mutant: the direction is not looked at.                                  *)
AppliesAnyDirection(v, key, desc) == key = v.key
(* Mutant: the ascending cases are missing.                                 *)
AppliesDescending(v, key, desc) == key = v.key /\ (v.key = "" \/ (desc /\ v.desc))
Applies(v, key, desc) == key = v.key /\ (v.key = "" \/ desc = v.desc)
Dispatch ==
  /\ pc = "ready"
  /\ \E g \in Groups :
       LET variants == g.variants
           idents == Named({in \in Fields(g.params) : IsIdentifier(in)})
       IN \E key \in {v.key : v \in Elems(variants)} \cup {UnknownKey}, desc \in BOOLEAN, bad \in SUBSET idents :
            LET cases == {k \in DOMAIN variants : Applies(variants[k], key, desc)}
                first == CHOOSE k \in cases : \A j \in cases : k <= j
            IN /\ call' = [method |-> g.name, dispatched |-> TRUE, key |-> key, desc |-> desc, bad |-> bad]
               /\ IF cases = {}
                  THEN Return(0, TRUE) /\ UNCHANGED <<body, env, todo>>
                  ELSE /\ Enter(CHOOSE b \in Bodies : b.method = VariantMethodName(variants[first]))
                       /\ UNCHANGED <<result, open>>
  /\ UNCHANGED <<package, err, sent, left>>

(* substituteIdentifiers: the values in the order of a Go map, which is     *)
(* any; the text lands in the local variable sql.                           *)
Text(const, holes) == [const |-> const, holes |-> holes]
SubstituteIdentifier ==
  /\ pc = "substitute"
  /\ \E n \in todo :
       IF n \in call.bad
       THEN Return(0, TRUE) /\ UNCHANGED <<env, todo>>
       ELSE /\ todo' = todo \ {n}
            /\ env' = [env EXCEPT !.locals["sql"] = Text(body.const, todo')]
            /\ pc' = IF todo' = {} THEN "send" ELSE "substitute"
            /\ UNCHANGED <<result, open>>
  /\ UNCHANGED <<package, err, call, body, sent, left>>

(* The call of the connection: EmitChSQLRef, and the named values.          *)
SQLRef == IF body.idents = {} THEN Text(body.const, {}) ELSE env.locals["sql"]
Send ==
  /\ pc = "send"
  /\ \E n \in 0..MaxRows :
       /\ sent' = [conn |-> body.conn, text |-> SQLRef, rows |-> n,
                   named |-> {[pg |-> x, val |-> IF body.fromStruct THEN env.params[x] ELSE env.locals[x]]
                              : x \in body.named}]
       /\ left' = n
  /\ pc' = "answer"
  /\ UNCHANGED <<package, err, call, body, env, todo, open, result>>

(* Exec and Select answer at once; the error of QueryRow is that of its     *)
(* Scan, which no row is too; Query opens rows.                             *)
Fails == pc = "answer" /\ Return(0, TRUE)
Answers ==
  /\ pc = "answer"
  /\ \/ body.conn \in {"Exec", "Select"} /\ Return(left, FALSE)
     \/ body.conn = "QueryRow" /\ left > 0 /\ Return(1, FALSE)
     \/ /\ body.conn = "Query"
        /\ pc' = "rows" /\ open' = TRUE
        /\ result' = [items |-> 0, failed |-> FALSE]
NextRow ==
  /\ pc = "rows" /\ left > 0
  /\ left' = left - 1
  /\ \/ result' = [result EXCEPT !.items = @ + 1] /\ UNCHANGED <<pc, open>>
     \/ Return(0, TRUE)                              \* Scan fails
  /\ UNCHANGED <<package, err, call, body, env, todo, sent>>
RowsEnd == pc = "rows" /\ left = 0 /\ Return(result.items, FALSE)
(* The stream breaks: Next returns false and rows.Err says why.             *)
(* Mutant: rows.Err is not asked.                                           *)
RowsBreakUnseen == pc = "rows" /\ Return(result.items, FALSE)
RowsBreak == pc = "rows" /\ Return(0, TRUE)
Ends == /\ Fails \/ Answers \/ RowsEnd \/ RowsBreak
        /\ UNCHANGED <<package, err, call, body, env, todo, sent, left>>

Finished == pc \in {"returned", "failed"} /\ UNCHANGED vars

Next == \/ TemplateAll \/ EmitQueryFile
        \/ CallMethod \/ Dispatch \/ SubstituteIdentifier \/ Send \/ NextRow \/ Ends
        \/ Finished

Spec == Init /\ [][Next]_vars

-----------------------------------------------------------------------------
(* Type invariant: the place agrees with the error, the emitted files and   *)
(* the result.                                                              *)
TypeOK ==
  /\ files \in Packages
  /\ pc \in {"template", "emit", "ready", "failed", "substitute", "send", "answer", "rows", "returned"}
  /\ err \in {"", "sqlConst", "sharedRow", "emit"} /\ (err # "" <=> pc = "failed")
  /\ Len(code) <= Len(tfs) /\ Len(tfs) \in {0, Len(files)}
  /\ left \in 0..MaxRows /\ open \in BOOLEAN
  /\ pc = "returned" => result.items \in 0..MaxRows /\ result.failed \in BOOLEAN

Whole == pc \notin {"template", "emit", "failed"}    \* the package is emitted

(* genericConn has "only the methods the package's queries call"            *)
(* (ch_templated_file.go:167), and all of them: those of the variants and   *)
(* of the other files too.                                                  *)
ConnMethodsExact ==
  Whole => {b.conn : b \in Bodies} = Emits(LAMBDA c : c.connMethods)

(* Go refuses both an import that is missing and one that is not used:      *)
(* a file imports clickhouse, driver and strings exactly if its text names  *)
(* them, in clickhouse.Named, in genericConn and in substituteIdentifiers.  *)
NamedPackages(c) ==
  (IF \E b \in c.bodies : b.named # {} THEN {"clickhouse"} ELSE {})
  \cup (IF c.connMethods \cap {"Query", "QueryRow"} # {} THEN {"driver"} ELSE {})
  \cup (IF Helper \in Elems(c.decls) THEN {"strings"} ELSE {})
ChImportsExact ==
  \A c \in Elems(code) : c.imports \ {"context", "fmt"} = NamedPackages(c)

(* All files are one Go package: no name is declared twice in it, and every *)
(* row struct, params struct and helper that a method uses is declared.     *)
AllDecls == FlattenSeq([k \in DOMAIN code |-> code[k].decls])
Uses(b) == {b.row, b.params} \cup (IF b.idents # {} THEN {Helper} ELSE {})
DeclaredOnce ==
  Whole =>
    /\ \A j, k \in DOMAIN AllDecls : AllDecls[j] = AllDecls[k] => j = k
    /\ \A b \in Bodies : Uses(b) \ {<<>>} \subseteq Elems(AllDecls)

(* Variants share one params struct: whatever parameter a variant's         *)
(* statement has, the struct has a field for it, of the type the statement  *)
(* declares, and no two fields of one Go name.                              *)
FieldsFit ==
  Whole =>
    /\ \A b \in Bodies : b.fromStruct =>
         \E s \in AllStructs : s.name = b.params /\ Elems(b.ins) \subseteq Elems(s.fields)
    /\ \A s \in AllStructs : \A j, k \in DOMAIN s.fields :
         UpperName(s.fields[j].pg) = UpperName(s.fields[k].pg) => j = k

(* What a method returns beside an error is a value of its result type: nil *)
(* only for a slice.  The dispatcher of a group always returns nil.         *)
ErrorReturnsFit ==
  Whole =>
    /\ \A b \in Bodies : b.zero = "nil" <=> b.kind = "many"
    /\ \A g \in Groups : \A v \in Elems(g.variants) : v.kind = "many"

(* The dispatcher runs the statement of the key and direction asked for,    *)
(* the default one for "", and for a key it does not know none at all.  For *)
(* one it knows it fails before the statement is sent only on a bad         *)
(* identifier of that very statement.                                       *)
StatementOf(text) == (CHOOSE c \in Consts : c.name = text.const).query
Asked(q) == q.group = call.method /\ q.key = call.key /\ (q.key # "" => q.desc = call.desc)
DispatchesToKey ==
  pc = "returned" /\ call.dispatched =>
    IF sent.conn # None THEN call.key # UnknownKey /\ Asked(StatementOf(sent.text))
    ELSE /\ result.failed
         /\ call.key # UnknownKey =>
              \E c \in Consts : Asked(c.query) /\ call.bad \cap Named(ChIdentifierInputs(c.query)) # {}

(* "the value is bound to that name" (ch_templated_file.go:72): the         *)
(* statement sent has a caller's value for each of its parameters, named if *)
(* it is a value, already in the text if it is an identifier, and nothing   *)
(* else; a call with a bad identifier is never sent.                        *)
BindsCallersValues ==
  pc = "answer" =>
    LET ins == Elems(StatementOf(sent.text).ins)
        values == {in.pg : in \in {x \in ins : ~IsIdentifier(x)}}
    IN /\ sent.text.holes = {}
       /\ sent.named = {[pg |-> n, val |-> Value(n)] : n \in values}
       /\ call.bad \cap {in.pg : in \in ins} = {}

(* A call returns all of the rows the server has or an error, never the     *)
(* part that came before the stream broke, and leaves no rows open.         *)
WholeOrError ==
  pc = "returned" =>
    /\ ~open
    /\ ~result.failed =>
         result.items = IF sent.conn = "QueryRow" THEN 1 ELSE sent.rows

(* What go build asks of the emitted package: the connection interface has  *)
(* the methods called and the imports are those used, no name is declared   *)
(* twice, and the arguments, fields and error returns have the types their  *)
(* places ask for.                                                          *)
ChPackageFits ==
  ConnMethodsExact /\ ChImportsExact /\ DeclaredOnce /\ FieldsFit /\ ErrorReturnsFit
=============================================================================
