------------------------------ MODULE Codegen ------------------------------
(***************************************************************************)
(* Go code generation for Postgres (internal/codegen/golang): TemplateAll   *)
(* turns the typed query files into templated files, Generate sorts them    *)
(* and the emitter writes one Go file per query file.                       *)
(*                                                                          *)
(* A Go identifier is a sequence of words, so that the names the templates  *)
(* put together (Find \o Row) and the names a pragma spells out (FindRow)   *)
(* can meet; <<>> is the empty string.  A file name is a sequence of parts. *)
(* Text is left out: of an emitted file the model keeps the packages it     *)
(* imports, the packages it names, and the names it declares.               *)
(***************************************************************************)
EXTENDS Naturals, Sequences, FiniteSets, SequencesExt

CONSTANTS
  Catalog,           \* SQL type -> what its Go type is
  FileLists,         \* the lists of typed query files Generate may be given
  InlineParamCount

(* kind  "builtin" a known or overridden Go type, "enum", "composite",       *)
(*       "array", "void", or "unknown" when no Go type is found             *)
(* base, pkg  its name and the package it is imported from                  *)
(* parts the types of its fields or elements                                *)
(* null  what a nullable column gets: a pointer, a slice of pointers, or    *)
(*       the same type                                                      *)
GoType == [kind : {"builtin", "enum", "composite", "array", "void", "unknown"},
           base : Seq(STRING), pkg : STRING, parts : SUBSET DOMAIN Catalog,
           null : {"pointer", "elems", "same"}]
Column == [pg : STRING, type : DOMAIN Catalog, null : BOOLEAN]
Query  == [name : Seq(STRING), kind : {"one", "many", "exec"},
           ins : Seq(Column), outs : Seq(Column),
           output : Seq(STRING), sql : Seq(STRING),   \* output= and sql= pragmas
           group : Seq(STRING), key : Seq(STRING)]    \* VariantGroup, VariantKey
File   == [path : Nat, parent : Seq(STRING), base : Seq(STRING), pkg : STRING,
           queries : Seq(Query)]

ASSUME CodegenAssumption ==
  /\ \A t \in DOMAIN Catalog : Catalog[t] \in GoType
  /\ FileLists \subseteq Seq(File) \ {<<>>}
  /\ InlineParamCount \in Nat

VARIABLES
  files,       \* the query files, in the order of the command line
  pc,
  i,           \* the file being templated or emitted
  templated,   \* goQueryFiles, later templatedFiles
  declarers,   \* allDeclarers: composite and enum types -> the package of the query file
  registered,  \* the type names RegisterTypes loads
  rows,        \* shared row structs: output= name -> columns
  outs,        \* the chosen output file names
  disk,        \* output directory: file name -> source path, or "partial"
  err          \* the step that failed, "" while none has

vars == <<files, pc, i, templated, declarers, registered, rows, outs, disk, err>>

-----------------------------------------------------------------------------
(* gotype.Walk: typ and every type nested inside it, for each type.         *)
Nested ==
  [t \in DOMAIN Catalog |->
     LET n == Cardinality(DOMAIN Catalog)
         W[k \in 0..n] == IF k = 0 THEN {t}
                          ELSE W[k - 1] \cup UNION {Catalog[x].parts : x \in W[k - 1]}
     IN W[n]]
Walk(t) == Nested[t]

Declared(t) == Catalog[t].kind \in {"enum", "composite"}

(* PgTypeResolver.Resolve: a type pggen declares itself is rooted under the *)
(* package of the query file that names it.                                 *)
Resolve(t, nullable, pkg) ==
  [type |-> t, own |-> pkg,
   ptr |-> nullable /\ Catalog[t].null = "pointer",
   elems |-> nullable /\ Catalog[t].null = "elems"]
Resolvable(t) == \A x \in Walk(t) : Catalog[x].kind # "unknown"

(* BaseName under unwrapPointer: a slice of pointers differs in its base.   *)
BaseName(g) == <<Catalog[g.type].base, g.elems>>

PkgOf(t, own) == IF Declared(t) THEN own ELSE Catalog[t].pkg

(* ImportSet.AddType: the package of every leaf.                            *)
AddType(g) == {PkgOf(x, g.own) : x \in Walk(g.type)} \ {""}

(* QualifyType: the packages that spelling g out relative to pkg names.     *)
Leaf(t) == IF Catalog[t].kind = "array" THEN CHOOSE e \in Catalog[t].parts : TRUE ELSE t
Qualify(g, pkg) == {PkgOf(Leaf(g.type), g.own)} \ {"", pkg}

-----------------------------------------------------------------------------
IsVariant(q) == q.group # <<>>
RemoveVoidColumns(cols) == SelectSeq(cols, LAMBDA c : Catalog[c.go.type].kind # "void")
RowTypeName(q) == IF q.output # <<>> THEN q.output ELSE q.name \o <<"Row">>
ParamsTypeName(q) == (IF IsVariant(q) THEN q.group ELSE q.name) \o <<"Params">>
IsInlineParams(q) == ~IsVariant(q) /\ Len(q.ins) <= InlineParamCount
SQLVarName(q) ==
  IF q.sql # <<>> THEN q.sql
  ELSE <<"lower">> \o (IF IsVariant(q) THEN q.group \o q.key ELSE q.name) \o <<"SQL">>

Elems(s) == {s[k] : k \in DOMAIN s}
Regular(f)  == {q \in Elems(f.queries) : ~IsVariant(q)}
Variants(f) == {q \in Elems(f.queries) : IsVariant(q)}

(* allQueries: the regular queries, then the variants.                      *)
AllQueries(f) == SelectSeq(f.queries, LAMBDA q : ~IsVariant(q))
                 \o SelectSeq(f.queries, LAMBDA q : IsVariant(q))

(* templateFile, per query: resolve every parameter, never nullable, and    *)
(* every output column.                                                     *)
TemplateQuery(q, pkg) ==
  [q EXCEPT
     !.ins  = [k \in DOMAIN q.ins |->
                 [pg |-> q.ins[k].pg, go |-> Resolve(q.ins[k].type, FALSE, pkg)]],
     !.outs = [k \in DOMAIN q.outs |->
                 [pg |-> q.outs[k].pg, go |-> Resolve(q.outs[k].type, q.outs[k].null, pkg)]]]
TypesOf(q) == {c.go : c \in Elems(q.ins) \cup Elems(q.outs)}
FileTypes(f) == UNION {TypesOf(q) : q \in Elems(f.queries)}

Templated(f, isLeader) ==
  LET qs == [k \in DOMAIN f.queries |-> TemplateQuery(f.queries[k], f.pkg)]
      gs == UNION {TypesOf(qs[k]) : k \in DOMAIN qs}
  IN [path |-> f.path, parent |-> f.parent, base |-> f.base, pkg |-> f.pkg,
      queries |-> qs, isLeader |-> isLeader,
      imports |-> {"context", "fmt", "pgconn", "pgx"} \cup UNION {AddType(g) : g \in gs}]

(* The leader is the first of the files with the smallest path.             *)
LeaderIndex ==
  CHOOSE k \in DOMAIN files :
    \A j \in DOMAIN files : files[k].path < files[j].path \/ (files[k].path = files[j].path /\ k <= j)

Init ==
  /\ files \in FileLists
  /\ pc = "template" /\ i = 1
  /\ templated = <<>> /\ declarers = <<>> /\ registered = {} /\ rows = <<>>
  /\ outs = <<>> /\ disk = <<>> /\ err = ""

(* Mutant: the error is dropped.                                            *)
FailSilent(step) == err' = "" /\ pc' = "failed"
Fail(step) == err' = step /\ pc' = "failed"

(* Later files overwrite a declarer that an earlier one added.              *)
(* Mutant: nested types are forgotten.                                      *)
AddDeclarersTop(f) ==
  LET new == {g.type : g \in {h \in FileTypes(f) : Declared(h.type)}}
  IN [t \in new \cup DOMAIN declarers |-> IF t \in new THEN f.pkg ELSE declarers[t]]
AddDeclarers(f) ==
  LET new == {t \in UNION {Walk(g.type) : g \in FileTypes(f)} : Declared(t)}
  IN [t \in new \cup DOMAIN declarers |-> IF t \in new THEN f.pkg ELSE declarers[t]]

(* collectPgTypeNames over every input and output.                          *)
PgTypeNames(f) ==
  {t \in UNION {Walk(g.type) : g \in FileTypes(f)} :
     Declared(t) \/ Catalog[t].kind = "array"}

TemplateFile ==
  /\ pc = "template"
  /\ LET f  == files[i]
         tf == Templated(f, i = LeaderIndex)
     IN IF \A g \in FileTypes(tf) : Resolvable(g.type)
        THEN /\ templated' = Append(templated, tf)
             /\ declarers' = AddDeclarers(tf)
             /\ registered' = registered \cup PgTypeNames(tf)
             /\ i' = i + 1
             /\ pc' = IF i = Len(files) THEN "validate" ELSE "template"
             /\ UNCHANGED err
        ELSE /\ Fail("template")
             /\ UNCHANGED <<templated, declarers, registered, i>>
  /\ UNCHANGED <<files, rows, outs, disk>>

-----------------------------------------------------------------------------
(* validateSQLConstNames                                                    *)
PackageQueries == UNION {Elems(AllQueries(f)) : f \in Elems(templated)}
(* Mutant: params structs are not reserved.                                 *)
ReservedPerRow == {RowTypeName(q) : q \in PackageQueries}
Reserved == {RowTypeName(q) : q \in PackageQueries}
            \cup {q.name \o <<"Params">> : q \in PackageQueries}
            \cup {ParamsTypeName(q) : q \in PackageQueries}

ValidateSQLConstNames ==
  /\ pc = "validate"
  /\ LET named == {q \in PackageQueries : q.sql # <<>>}
     IN IF \/ \E q, r \in named : q # r /\ q.sql = r.sql
           \/ \E q \in named : q.sql \in Reserved
        THEN Fail("sql const")
        ELSE pc' = "rows" /\ UNCHANGED err
  /\ UNCHANGED <<files, i, templated, declarers, registered, rows, outs, disk>>

-----------------------------------------------------------------------------
(* buildSharedRowDeclarers: the queries with the same output=, in the order *)
(* of the files, the first of them canonical.                               *)
Refs(name) ==
  LET inFile(f) == SelectSeq(AllQueries(f), LAMBDA q : q.output = name)
      all == FlattenSeq([k \in DOMAIN templated |-> inFile(templated[k])])
  IN [k \in DOMAIN all |-> RemoveVoidColumns(all[k].outs)]

OutputTypes == {q.output : q \in PackageQueries} \ {<<>>}

(* colByName: a repeated column name keeps its last column.                 *)
ColByName(first, pg) ==
  first[CHOOSE k \in DOMAIN first :
          first[k].pg = pg /\ \A j \in DOMAIN first : first[j].pg = pg => j <= k]

Compatible(first, ref) ==
  /\ Len(ref) = Len(first)
  /\ \A c \in Elems(ref) :
       /\ \E d \in Elems(first) : d.pg = c.pg
       /\ BaseName(ColByName(first, c.pg).go) = BaseName(c.go)

(* A column is widened to a pointer if any of the queries has one.          *)
(* Mutant: only the first query decides.                                    *)
MergeFirst(refs) ==
  [k \in DOMAIN refs[1] |-> ColByName(refs[1], refs[1][k].pg)]
Merge(refs) ==
  [k \in DOMAIN refs[1] |->
     LET c == ColByName(refs[1], refs[1][k].pg)
         nullable == \/ c.go.ptr
                     \/ \E r \in 2..Len(refs) : \E d \in Elems(refs[r]) : d.pg = c.pg /\ d.go.ptr
     IN [c EXCEPT !.go.ptr = nullable]]

BuildSharedRowDeclarers ==
  /\ pc = "rows"
  /\ IF \A name \in OutputTypes :
          /\ Refs(name)[1] # <<>>
          /\ \A r \in DOMAIN Refs(name) : Compatible(Refs(name)[1], Refs(name)[r])
     THEN /\ rows' = [name \in OutputTypes |-> Merge(Refs(name))]
          /\ pc' = "imports" /\ UNCHANGED err
     ELSE Fail("shared row") /\ UNCHANGED rows
  /\ UNCHANGED <<files, i, templated, declarers, registered, outs, disk>>

-----------------------------------------------------------------------------
(* Only leaders and files with an :exec query name pgconn; a file never     *)
(* imports itself.                                                          *)
(* Mutant: :exec queries are forgotten.                                     *)
NeedsPgconnLeader(f) == f.isLeader
NeedsPgconnImport(f) == f.isLeader \/ \E q \in Regular(f) : q.kind = "exec"

DropImports ==
  /\ pc = "imports"
  /\ templated' =
       [k \in DOMAIN templated |->
          [templated[k] EXCEPT !.imports =
             @ \ ((IF NeedsPgconnImport(templated[k]) THEN {} ELSE {"pgconn"})
                  \cup {templated[k].pkg})]]
  /\ pc' = "sort"
  /\ UNCHANGED <<files, i, declarers, registered, rows, outs, disk, err>>

-----------------------------------------------------------------------------
(* chooseOutputFiles: base names unless two collide, then parent_base, with *)
(* a number for each further use of the same name; number 0 goes to the     *)
(* first one once there is a second.                                        *)
Digit == <<".0", ".1", ".2", ".3", ".4", ".5", ".6", ".7", ".8", ".9">>
(* Mutant: usedNames is not advanced.                                       *)
ChooseOutputFilesStuck(tfs) ==
  LET name(k) == tfs[k].parent \o tfs[k].base
  IN [k \in DOMAIN tfs |->
        IF \E j \in 1..(k - 1) : name(j) = name(k) THEN name(k) \o <<Digit[2]>> ELSE name(k)]
ChooseOutputFiles(tfs) ==
  LET name(k) == tfs[k].parent \o tfs[k].base
      same(k, J) == {j \in J : name(j) = name(k)}
  IN IF \A j, k \in DOMAIN tfs : tfs[j].base = tfs[k].base => j = k
     THEN [k \in DOMAIN tfs |-> tfs[k].base]
     ELSE [k \in DOMAIN tfs |->
             IF Cardinality(same(k, DOMAIN tfs)) = 1 THEN name(k)
             ELSE name(k) \o <<Digit[Cardinality(same(k, 1..(k - 1))) + 1]>>]

(* Generate: order the files, link the package, choose the output names.    *)
SortFiles ==
  /\ pc = "sort"
  /\ templated' = SortSeq(templated, LAMBDA f, g : f.path < g.path)
  /\ outs' = ChooseOutputFiles(templated')
  /\ i' = 1 /\ pc' = "emit"
  /\ UNCHANGED <<files, declarers, registered, rows, disk, err>>

(* emitQueryFile truncates the file before it executes the template, so a   *)
(* failure of the template leaves part of a file.                           *)
Write(name, what) == [n \in DOMAIN disk \cup {name} |-> IF n = name THEN what ELSE disk[n]]
EmitQueryFile ==
  /\ pc = "emit"
  /\ disk' = Write(outs[i], [path |-> templated[i].path, whole |-> TRUE])
  /\ i' = i + 1
  /\ pc' = IF i = Len(templated) THEN "done" ELSE "emit"
  /\ UNCHANGED <<files, templated, declarers, registered, rows, outs, err>>
EmitOpenFails ==
  /\ pc = "emit"
  /\ Fail("emit")
  /\ UNCHANGED <<files, i, templated, declarers, registered, rows, outs, disk>>
(* Mutant: the error of the template is not returned.                       *)
EmitTemplateIgnored ==
  /\ pc = "emit"
  /\ disk' = Write(outs[i], [path |-> templated[i].path, whole |-> FALSE])
  /\ i' = i + 1
  /\ pc' = IF i = Len(templated) THEN "done" ELSE "emit"
  /\ UNCHANGED <<files, templated, declarers, registered, rows, outs, err>>
EmitTemplateFails ==
  /\ pc = "emit"
  /\ disk' = Write(outs[i], [path |-> templated[i].path, whole |-> FALSE])
  /\ Fail("emit")
  /\ UNCHANGED <<files, i, templated, declarers, registered, rows, outs>>

Finished == pc \in {"done", "failed"} /\ UNCHANGED vars

Next == \/ TemplateFile \/ ValidateSQLConstNames \/ BuildSharedRowDeclarers
        \/ DropImports \/ SortFiles
        \/ EmitQueryFile \/ EmitOpenFails \/ EmitTemplateFails \/ Finished

Spec == Init /\ [][Next]_vars

-----------------------------------------------------------------------------
(* The emitted Go files (query.gotemplate): which packages the text of a    *)
(* file names.                                                              *)
ResultTypes(q) ==     \* EmitResultType: one column is returned as it is
  LET cols == RemoveVoidColumns(q.outs)
  IN IF q.kind # "exec" /\ Len(cols) = 1 THEN {cols[1].go} ELSE {}
SignatureTypes(q) ==  \* EmitParams and EmitResultType
  ResultTypes(q) \cup (IF IsInlineParams(q) THEN {c.go : c \in Elems(q.ins)} ELSE {})
RowStructTypes(q) ==  \* EmitRowStruct: a shared row is the leader's
  LET cols == RemoveVoidColumns(q.outs)
  IN IF q.kind # "exec" /\ q.output = <<>> /\ Len(cols) > 1 THEN {c.go : c \in Elems(cols)} ELSE {}
BodyTypes(q) == SignatureTypes(q) \cup RowStructTypes(q) \cup {c.go : c \in Elems(q.ins)}
LeaderTypes ==        \* the Querier interface, the shared rows, the composites
  UNION {SignatureTypes(q) : q \in {r \in PackageQueries : ~IsVariant(r)}}
  \cup UNION {ResultTypes(q) : q \in {r \in PackageQueries : IsVariant(r) /\ r.key = <<>>}}
  \cup UNION {{c.go : c \in Elems(rows[n])} : n \in DOMAIN rows}
  \cup UNION {{Resolve(x, TRUE, declarers[t]) : x \in Catalog[t].parts}
              : t \in {u \in DOMAIN declarers : Catalog[u].kind = "composite"}}
Names(f) ==
  LET types == UNION {BodyTypes(q) : q \in Elems(f.queries)}
               \cup (IF f.isLeader THEN LeaderTypes ELSE {})
  IN UNION {Qualify(g, f.pkg) : g \in types}
     \cup (IF f.queries = <<>> THEN {} ELSE {"context", "fmt"})
     \cup (IF Regular(f) = {} THEN {} ELSE {"pgx"})
     \cup (IF \E q \in Regular(f) : q.kind = "exec" THEN {"pgconn"} ELSE {})
     \cup (IF f.isLeader THEN {"context", "pgx", "pgconn"} ELSE {})

(* The package-level names the emitted files declare.                       *)
SortKeyConsts == {q.group \o <<"Sort">> \o q.key
                  : q \in {r \in PackageQueries : IsVariant(r) /\ r.key # <<>>}}
OtherNames ==
  {<<"Querier">>, <<"DBQuerier">>, <<"NewQuerier">>} \cup SortKeyConsts
  \cup (IF registered = {} THEN {} ELSE {<<"RegisterTypes">>})
  \cup {Catalog[t].base : t \in DOMAIN declarers}
QueryNames ==
  {RowTypeName(q) : q \in {r \in PackageQueries : r.output # <<>> \/ RowStructTypes(r) # {}}}
  \cup {ParamsTypeName(q) : q \in {r \in PackageQueries : ~IsInlineParams(r)}}

(* What a query scans a column into: "item" for a single column, declared   *)
(* without its pointer by a :many query (EmitResultElem), else a field of   *)
(* its row struct.                                                          *)
ScanTargets(q, c) ==
  IF Len(RemoveVoidColumns(q.outs)) = 1
  THEN {IF q.kind = "many" THEN [c.go EXCEPT !.ptr = FALSE] ELSE c.go}
  ELSE {d.go : d \in {e \in Elems(IF q.output # <<>> THEN rows[q.output] ELSE q.outs)
                        : e.pg = c.pg}}
ScannedQueries == {q \in PackageQueries : q.kind # "exec"}

-----------------------------------------------------------------------------
(* Every variable has the values TemplateAll and the emitter give it, and   *)
(* there is one output name for every templated file once names are chosen. *)
TypeOK ==
  /\ pc \in {"template", "validate", "rows", "imports", "sort", "emit", "done", "failed"}
  /\ i \in 1..(Len(files) + 1)
  /\ Len(templated) <= Len(files)
  /\ DOMAIN declarers \subseteq DOMAIN Catalog
  /\ registered \subseteq DOMAIN Catalog
  /\ DOMAIN rows \subseteq Seq(STRING)
  /\ DOMAIN disk \subseteq Seq(STRING)
  /\ pc \in {"emit", "done"} => DOMAIN outs = DOMAIN files
  /\ pc = "failed" <=> err # ""

Generated == pc \in {"emit", "done"}

(* A query that scans into a shared row struct finds, for each column, a    *)
(* field of the column's own Go type, and a pointer if its own column needs *)
(* one, whichever file and whichever query of the package fixed the struct. *)
SharedRowFits ==
  Generated => \A q \in ScannedQueries :
    q.output # <<>> =>
      \A c \in Elems(RemoveVoidColumns(q.outs)) :
        \E d \in Elems(rows[q.output]) :
          /\ d.pg = c.pg
          /\ Catalog[d.go.type].base = Catalog[c.go.type].base
          /\ Catalog[d.go.type].pkg = Catalog[c.go.type].pkg
          /\ d.go.elems = c.go.elems
          /\ c.go.ptr => d.go.ptr

(* A sql= name that survives validation names one constant, and no row or   *)
(* params struct that pggen names after a query of any file.                *)
SQLConstDistinct ==
  Generated => \A q \in PackageQueries :
    q.sql # <<>> =>
      /\ q.sql \notin QueryNames
      /\ \A r \in PackageQueries : SQLVarName(r) = q.sql => r = q

(* Exactly one emitted file, the first, is the leader, and it declares and  *)
(* registers every enum and composite type that a query of any file uses.   *)
LeaderDeclaresAll ==
  Generated =>
    /\ \A k \in DOMAIN templated : templated[k].isLeader <=> k = 1
    /\ \A f \in Elems(templated) : \A g \in FileTypes(f) : \A t \in Walk(g.type) :
         /\ Declared(t) => t \in DOMAIN declarers
         /\ Declared(t) \/ Catalog[t].kind = "array" => t \in registered

(* Emitted files don't clash: two query files never share an output file.   *)
OutputsDistinct ==
  Generated => \A j, k \in DOMAIN outs : outs[j] = outs[k] => j = k

(* An error before emission leaves the output directory alone; a failing    *)
(* emission leaves whole files of the sources before it and at most one     *)
(* part; success leaves exactly the files of the sources.                   *)
DiskFollowsEmission ==
  /\ err \notin {"", "emit"} => disk = <<>>
  /\ \A k \in DOMAIN outs : k < i => disk[outs[k]] = [path |-> templated[k].path, whole |-> TRUE]
  /\ \A n \in DOMAIN disk : ~disk[n].whole => err = "emit" /\ n = outs[i]
  /\ pc = "done" => DOMAIN disk = Elems(outs)

(* A file that is not the leader, or the only file of a package, imports    *)
(* every package its text names.                                            *)
ImportsSuffice ==
  Generated => \A f \in Elems(templated) :
    ~f.isLeader \/ Len(templated) = 1 => Names(f) \subseteq f.imports

(* "ImportSet contains a set of imports required by one Go file": a file    *)
(* imports the packages its text names and, since Go refuses an unused      *)
(* import, no other.                                                        *)
ImportsExact ==
  Generated => \A f \in Elems(templated) : f.imports = Names(f)

(* "unique in the generated package": a sql= name is no other name that the *)
(* package declares.                                                        *)
SQLConstUniqueInPackage ==
  Generated => \A q \in PackageQueries : q.sql # <<>> => q.sql \notin OtherNames

(* "All queries sharing the same output value must return the same set of   *)
(* column names": every field of a shared row is filled by every query.     *)
SharedColumnsSame ==
  Generated => \A q \in ScannedQueries :
    q.output # <<>> => {c.pg : c \in Elems(RemoveVoidColumns(q.outs))}
                        = {c.pg : c \in Elems(rows[q.output])}

(* "pggen widens the shared struct to use the pointer type": queries whose  *)
(* columns differ in nullability only are never refused.                    *)
NullabilityIsWidened ==
  err = "shared row" =>
    \E p, q \in PackageQueries :
      /\ p.output = q.output /\ p.output # <<>>
      /\ {<<c.pg, c.go.type>> : c \in Elems(p.outs)} # {<<c.pg, c.go.type>> : c \in Elems(q.outs)}

(* "files are already sorted": buildSharedRowDeclarers sees the files in    *)
(* the order of their paths.                                                *)
FilesAlreadySorted ==
  pc = "rows" => \A j, k \in DOMAIN templated : j < k => templated[j].path <= templated[k].path

(* "If a column is nullable, pggen uses a pgtype Go type": a column whose   *)
(* Go type is a pointer, so that it can be NULL, is scanned into a pointer. *)
NullScannable ==
  Generated => \A q \in ScannedQueries : \A c \in Elems(q.outs) :
    c.go.ptr => \A g \in ScanTargets(q, c) : g.ptr

(* What go build asks of the files of a call, which make up one Go package  *)
(* (one GoPackage in generate.go), although each part is computed in        *)
(* another place of templater.go: every query fits the row it scans into,   *)
(* no constant is declared twice, the leader declares what the others use,  *)
(* and each file imports what its own queries name.                         *)
PackageFits == SharedRowFits /\ SQLConstDistinct /\ LeaderDeclaresAll /\ ImportsSuffice
=============================================================================
