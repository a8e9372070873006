# pggen in TLA+

pggen reads SQL query files, asks a running database for the types of every
query, and writes Go code that runs the queries. This directory models the
parts of it in which order, failure, shared state or boundaries decide whether
the result is right; TLC checks the models on small instances, and TLAPS proves
the invariants that matter most for every instance.

Run a model with `tlc -config X.cfg MCModule`, a proof with
`tlapm Module_proofs.tla`. `PROJECT.json` lists all runs, maps every definition
to the lines it models, and lists the hazards, findings and theorems.

## The system

One call of `Generate` (generate.go) is a pipeline:

    cli -> Generate: connect -> parse query files -> infer types -> generate Go -> clean up
                     dbdocker   scanner, parser      pginfer,       codegen/golang
                                                     pg.TypeFetcher,
                                                     pg.FetchColumns
                                                     or chinfer, ch

| Component | State | Operations | Hard behaviour | What makes it correct |
|---|---|---|---|---|
| Lifecycle: generate.go, dbdocker, pgdocker, chdocker, errs | container, its ID, connection, context, joined error | build, create, start, wait until ready, connect, ping, load schemas, infer, generate, close, stop, remove | any call fails, a reply is lost, the context expires between calls, the container exits, retries without a counter | nothing is left behind, the first failure is reported, the schema is loaded once, Generate returns |
| Scanner: internal/scanner | offsets, current character | Scan and its scan functions | runes and bytes, delimiters that overlap, one byte of look-ahead | tokens tile the file; a semicolon in a literal ends nothing |
| Parser: internal/parser/parser.go | look-ahead token, lead comment, errors, the query under construction | next, parseQuery, parsePggenArg, prepareSQL, parseFile | comment groups, resuming after an error, the bailout, a fragment that closes one argument and opens the next | queries tile the file, nothing bad is unreported, every argument has its parameter |
| Pagination: internal/parser/paginate.go | the walk of a client | fan-out into variants, ORDER BY, cursor predicate | rows written between pages, NULLs, both directions, three-valued logic | no row twice, none skipped, the walk ends |
| TypeFetcher: internal/pg/type_fetcher.go | type cache | FindTypesByOIDs: fast path and five passes | composites inside arrays inside composites, placeholders in the cache, calls that fail half-way | what is cached is complete; what is asked for is returned |
| Inferrer: internal/pginfer, internal/pg/column.go | column cache of the process | InferTypes: prepare, explain, fetch columns, decide nullability | a cache shared by all connections and filled row by row, failure between rows, schema changes meanwhile | a column that can be null is nullable |
| Code generation: internal/codegen/golang | templated files, declarations, shared rows, output names, files on disk | TemplateAll, validation, shared rows, imports, emit | declarations that move to the leader file, names from many sources, a failing write | the package compiles: names distinct, imports sufficient, rows fit |
| Catalog queries: internal/pg/query.sql.go | rows still to come, types read so far | five statements over pg_type, pg_enum, pg_attribute; one row at a time | two statements that each decide what the parts of a type are; a connection that breaks between two rows | the types returned are those of the catalog, or the call fails |
| ClickHouse statements: internal/ch, internal/chinfer | none beyond the call | cut, split, scan and rewrite parameters, find the insert target, EXPLAIN AST, DESCRIBE | two scanners with different rules over one text; the statement is described in one form and run in another | what is described and what is run is the statement in the file |
| ClickHouse types: internal/ch/parse.go, types.go, zero.go, ch_type_resolver.go | the parser's position | Parse, String, ZeroLiteral, resolve with overrides | labels with escapes, optional names, spellings that differ; two tables of types | nothing is dropped; what has a Go type can be inferred with; an override reaches its type |
| ClickHouse code generation: ch_templated_file.go, query_clickhouse.gotemplate, and the querier it emits | templated files, emitted files; at run time a call's locals, statement, rows | fan-out, TemplateAll, emit; the methods and dispatchers of the Querier | imports and the connection's methods computed apart from the calls; variants that share a struct; a stream that breaks | the package fits together; a call runs the statement asked for with the caller's values and returns all rows or an error |

Components interact by calls in one goroutine. What outlives a call is: the
type cache (per connection), the column cache (per process), Docker's state,
the output directory, and the rows of the application's tables for which
pagination generates statements.

The parts without a module (flags and help, casing of names, type tables,
go.mod look-up, pgplan, which nothing uses, test helpers, examples) are listed
in `PROJECT.json` with the reason.

## Modules

Every module has an `MC` companion with the small sets TLC uses. Definitions
keep the names of the source. A definition marked *Mutant* is a plausible bug in
the definition that follows it: with it in that definition's place, the property
`PROJECT.json` names for it must fail. Mutants are part of no specification.

**Lifecycle.** A step is one blocking call of `Generate`: `BuildImage`,
`ContainerCreate`, `ContainerStart`, `WaitSelect`/`WaitTry` (the loop of
`waitIsReady`), `StartLogs` (the defers of `dbdocker.Start`), `ConnString`,
`Connect`, `Ping`, `LoadSchemas`, `ParseQueryFiles`, `ErrEnricher`, `Codegen`,
`CloseConn`, `ContainerStop`, `ContainerRemove`. `stopFor` says which of the
four call sites of `Stop` runs, since they differ in the context they pass and
in what they do with its error. The environment expires the context, fires the
readiness timer, runs the image's init scripts and lets the container exit. A
failed Docker call may have been carried out. `cause` and `dockerFault` are
history variables. `Reachable` is an assumption about the two images, which the code
makes too: an attempt of `waitIsReady` sees only that the database answers, and the
schema files are there only if the image answers after its init scripts; for a
container, `SchemaBeforeInference` rests on it (its mutant `ReachableEarly` breaks
it). `NothingLeftBehind` names the three ways in which a container stays:
`runContainer` fails and drops the ID (`IDDropped`; a container that was created
and not started is left for good), Docker fails to stop it, or Generate's context
has expired. It says that there is no fourth.

**Scanner.** The source is a sequence of bytes, of which the model keeps those
the scanner tells apart. A step is one iteration of one loop of one scan
function. `TokenGrammar` compares every token with a definition of what
Postgres' lexical rules say it should be, which is independent of the loops.

**Parser.** Works on token streams; of a literal it keeps what the parser reads
from it. The loop of `prepareSQL` over the arguments is a step per argument
(`PrepareArg`). `next` is a sub-machine (`Next0`, `ConsumeComment`, `EndGroup`) that
returns to the place in `ret`. The text of a comment is the name it declares and
one of four outcomes of its pragmas. `ErrorLimit` is 10 in the code.

**Keyset.** A sort block becomes variants; a variant is an ORDER BY and a
predicate with SQL's three truth values. A client walks a table page by page
while rows are inserted and deleted.

**TypeFetcher.** `FastPath` and `Lookup` begin a call; each pass of
`FindTypesByOIDs` is an action, and `BuildComposite` takes the rows of the
catalog query in any order. The recursive SQL query for descendants is modelled
by its least fixed point.

**Infer.** `Prepare`, `Explain`, `FetchColumns`, `ScanRow` (one row into the
cache), `FetchCachedColumns`, `InferOutputNullability`, `Check`, `Return`; `Fail`
between any two of them; `NewDatabase` is the next `Generate` of the same
process. A query is what Postgres says of it (fields, plan) and what it does
not say (`maybeNull`).

**PgCatalog.** The layer below TypeFetcher: the five statements of query.sql.go as
operators over catalog tables (with dropped and system columns, and types
without parts), their methods row by row (`Query`, `ScanRow`, `ConnBreaks`,
`QueryFails`), and the `Type` values the passes build from the rows. `TF ==
INSTANCE TypeFetcher WITH ...` maps the tables to TypeFetcher's kinds and
children, and `ImplementsTypeFetcher` says that every step of PgCatalog is a
step of TypeFetcher or none. It is proved, so what holds of TypeFetcher holds of
the code with its queries.

**ChQuery.** One text of bytes from the query file to the server. The statement
is cut out by the Postgres scanner, which is Scanner itself by `INSTANCE`;
`ScanParams`, `SplitStatements`, the three rewrites and `ScanInsertTarget` are
operators over it; `InferParams`, `Prepare`, `ExplainAST`, `Describe`,
`CheckInsertTarget` and `NextRow` are the steps of `InferTypes`; `CallMethod`,
`SubstituteIdentifier` (the values of a Go map, in any order) and `Send` those of
the generated method. How ClickHouse itself reads a text (`Meaning`) is external
and the yardstick of the properties.

**ChTypes.** The recursive descent of `Parse` symbol by symbol, against a printer
and a grammar of what the server answers; then `ZeroLiteral`, `resolve` and the
overrides on the parsed type.

**ChCodegen.** `FanOut`, `TemplateAll` and `EmitQueryFile` turn a package of typed
queries into emitted files: imports, declared names, params structs, and for
each method a `Body` that says what it calls and binds. `CallMethod` and
`Dispatch` then run those bodies: `SubstituteIdentifier`, `Send`, and the answers
of the connection. A method's locals are in `env`, because the statement and the
inlined parameters share one scope. `UpperName` is the caser, as a constant: only
which parameters get one field name matters. That both directions of a sort key are
in the file of its query is assumed of the packages, because `fanOut` makes both.

**Codegen.** `TemplateAll` file by file, its validations, shared rows, imports,
the sort and the emitter with a write that may fail. Go identifiers are
sequences of words, so that a composed name can meet a name spelled in a pragma.

PgCatalog is linked to TypeFetcher by refinement and ChQuery to Scanner by
`INSTANCE`. The others are linked by interfaces: Scanner emits the tokens Parser
starts from, Parser's accepted queries are Infer's, Codegen's and ChCodegen's,
and Lifecycle has `ParseQueryFiles` and `Codegen` as single steps that succeed or
fail.

## Runs that pass

| Run | Shows | Bounds and why they suffice |
|---|---|---|
| lifecycle | `NothingLeftBehind` (with `StartFailureCleansUp`), `SuccessIsClean`, `FirstFailureReported`, `SchemaBeforeInference`, `CloseBeforeStop`, `Terminates` | none: every option, dialect, failure and expiry; the state is finite |
| scanner | `TokensTile`, `TokenGrammar`, `ScanEnds` | all files of up to 4 pieces from 12 and from 8: every delimiter can open, close, overlap another and be cut off by the end of the file |
| parser | `BadQueryIsReported`, `QueriesTile`, `ArgsComplete`, `DocIsAbove`, `ParseEnds` | two statements from 8 headers, 10 bodies, 2 endings, so that an error in one meets each form of the next; an error limit of 1 reaches the bailout; both dialects |
| keyset | `NoRowTwice`, `WalkWhole` (= `NoRowSkipped`, `CursorFits`), `WalkEnds` | tables of up to 3 rows with ties and NULLs, pages of one row, one write: each page boundary falls between, before and after any two rows, and the write hits any point of the walk |
| type_fetcher | `ReturnsRequested`, `CacheSound`, `LookupsSucceed` (= `PlaceholdersResolvable`, `ArrayElemFound`) | nine types with every nesting the passes treat differently; requests of up to two types, any number of calls |
| infer | `ColumnsAreCatalogs`, `TableColumnsNullSound` | two databases with tables of their own and a system table they share, queries of up to two fields under each kind of plan, any number of calls |
| codegen | `PackageFits` (= `SharedRowFits`, `SQLConstDistinct`, `LeaderDeclaresAll`, `ImportsSuffice`), `OutputsDistinct`, `DiskFollowsEmission` | two files in both orders with queries from a pool that reaches each case of the templater; four files with colliding names |
| catalog | `AnswersDescribeCatalog` (= `DescribesCatalog`, `PartsPresent`, `FailsForCause`), `CallEnds`, `ImplementsTypeFetcher` | a catalog with an enum, nested composites, arrays, a dropped and a system column, an enum with a value added in between, an enum and a composite without parts, an OID the catalog does not have; any number of calls, each of which may break at any row |
| ch_query | `DescribedIsTheStatement`, `RunsAsDescribed` (= `EveryParamBound`, `RunsWhatWasDescribed`), `OutputsComplete`, `InsertTargetExists` | every file of up to three pieces, four delimiters or one INSERT: each quote, comment and escape can open, hide and be cut off by any other; two tables whose names differ only in their quotes |
| ch_types | `ParseFaithful` (= `ParsedAsDeclared`, `CanonicalSpelling`, `NothingDropped`), `GoTypeRight` (= `GoTypeFits`, `NullableIsExact`), `OverridesWin` (= `OverridesReach`, `OverrideResolves`), `ParametersBindable` (= `ZeroIsAValue`, `MappedIsBindable`) | every kind of type alone and inside every wrapper, in each spelling, and with one symbol missing or repeated |
| ch_codegen | `ChPackageFits` (= `ConnMethodsExact`, `ChImportsExact`, `DeclaredOnce`, `FieldsFit`, `ErrorReturnsFit`), `DispatchesToKey`, `BindsCallersValues`, `WholeOrError` | one or two files in both orders over thirteen queries, of which two are paginated: each kind, row form, parameter form and error; up to two rows, so that a stream breaks before, between and after rows |

A name with parts in brackets is their conjunction; `PROJECT.json` has mutants for
its parts. The modules state a few more invariants that hold on the same
instances and are not in the configurations, `TypeOK` of each module above all;
those of TypeFetcher, PgCatalog, Scanner and Lifecycle are proved.

*Deadlock.* It is checked everywhere; a finished system stutters by an explicit
disjunct (`Returned`, `Finished`, ...).

*Fairness.* The five runs with a liveness property use a fair specification. Lifecycle: weak fairness of
`Generate`, which runs on a goroutine of its own and whose blocking calls all have
timeouts, and of the readiness timer. Scanner and Parser: weak fairness of their
step, a sequential loop. Keyset: a client that keeps asking; writes are bounded.
PgCatalog: weak fairness of the step of a call, one goroutine whose queries run
under a context of ten seconds; nothing is assumed of the connection.

## Runs that fail, and what they say

`lifecycle_leak` states a sentence of the repository and shows an execution of
the code that breaks it: after the five-minute context expired, a failing step of
`connectPostgres` cleans up under the expired context and leaves the container.
`PROJECT.json` quotes the lines.

Other disagreements have a configuration but are not in the list of runs; each
breaks the one property its file names. Those in the second table are the
module's passing configuration with the constant and the property named.

| Configuration (module) | What it shows |
|---|---|
| KeysetNullableDefault (MCKeyset) | a default ordering over a column marked nullable gets a predicate that is not NULL-aware and skips the NULL rows |
| ScannerWide (MCScanner) | bytes and runes are mixed when a dollar-quoted string is skipped (scanner.go:231) |
| InferComputed (MCInfer) | a computed column is taken for not null under a Result or Limit plan |
| CodegenTimeInSecond (MCCodegen) | a type only the second file uses is named in the leader without its import, although "ImportSet contains a set of imports required by one Go file" (import_set.go:9) |
| ChQueryLiteralHole (MCChQuery) | a string literal with the text of an identifier parameter in it is described as it is and sent with the caller's name in its place (declarer_identifier.go:45) |
| ChQueryCommentHole (MCChQuery) | braces in a comment are sent along, and the driver takes them for a server-side parameter (params.go:162) |
| ChQueryBadName (MCChQuery) | a parameter name that is no identifier is accepted, since inference renames it, and the generated statement cannot run (params.go:46) |
| ChTypesInMap (MCChTypes) | an unsupported type behind a comma keeps the blank in its spelling, so the override that the error message proposes is not found (parse.go:163) |
| ChCodegenSqlParam (MCChCodegen) | beside an identifier parameter, an inlined parameter named sql is overwritten by the statement, which is bound in its place, although "the value is bound to that name" (ch_templated_file.go:72) |
| ChCodegenDefaultName (MCChCodegen) | PageDefault beside a paginated Page declares pageDefaultSQL twice, although the constant "stays unique per variant" (templater.go:293) |
| LifecycleLogs (MCLifecycle) | `connectPostgres` removes the container before it asks for its logs (generate.go:285) |
| KeysetSingleNullable (MCKeyset) | a key of one nullable column is accepted; a NULL cursor reads as the first page and the walk starts over (paginate.go:474) |
| ScannerNul (MCScanner) | a NUL byte in a query is never consumed (scanner.go:267) |
| InferReadAgain (MCInfer) | a column of the modified table that an outer join reads again is taken for not null |
| InferSameOids (MCInfer) | the column cache is shared by databases that use one OID for different tables (column.go:34) |
| CodegenNullableMany (MCCodegen) | a :many query of one nullable column cannot scan a NULL (templated_file.go:551) |

| Module: constants, property | What it shows |
|---|---|
| MCCodegen: `FileLists <- ConstIsEnum`, `SQLConstUniqueInPackage`; `FileLists <- NumberedNames`, `OutputsDistinct` | two declarations, or two output files, get one name |
| MCCodegen: `FileLists <- EnumArrays`, `NullabilityIsWidened` | arrays of declared types are refused in a shared row although the README widens them |
| MCCodegen: `FileLists <- GlobOrder`, `FilesAlreadySorted` | the files TemplateAll calls sorted are in command-line order (templater.go:429) |
| MCChTypes: `Types <- NewlineLabel` with `OverrideSets <- NoOverrides`, `CanonicalSpelling`; `Types <- QuotedField` likewise, `ParsedAsDeclared` | a label with a newline, or a quoted tuple field, is printed in another spelling than the server's |
| MCCodegen: `FileLists <- RepeatedCol`, `SharedColumnsSame`; `FileLists <- SameBaseName`, `SharedRowFits` | shared rows: a repeated column is lost, types of one base name are taken for one type |
| MCChCodegen: `Packages <- CursorTypes`, `FieldsFit` | one cursor name with two types gets the first variant's field (templater.go:361) |
| MCChCodegen: `Packages <- CasedNames`, `FieldsFit`; `Packages <- CasedKeys`, `DeclaredOnce` | two parameters, or two sort keys, whose names differ only in their casing get one Go name (templater.go:256, templater.go:294) |
| MCChCodegen: `Packages <- SortKeyParam`, `FieldsFit` | a parameter sort_key meets the dispatcher's own field (templated_file.go:107) |
| MCChCodegen: `Packages <- PagedOne`, `ErrorReturnsFit` | a paginated :one is accepted, and its dispatcher returns nil for a struct (templated_file.go:170) |
| MCParser: `Files <- Trailing` with `ErrorLimit = 10`, `DocIsLead` | a comment behind a semicolon names the next query (parser.go:164) |
| MCInfer: `Databases <- OneDatabase`, `Queries <- Db1Queries`, specification `SharedSpec`, `MissingColumnReported` | the error for a missing column is unreachable (column.go:111) |

## Proofs

**TypeFetcher_proofs** (for every catalog and every sequence of calls).
`DescendantsClosed` shows that the set the catalog query returns contains the
request and is closed under columns and elements. The inductive invariant says
that the result and what is left to classify together make up that set, so at
each placeholder the part it stands for is either found already or still to be
found by a later pass; `CacheAlwaysSound`, `RequestedAlwaysReturned`,
`LookupsAlwaysSucceed` and `TypeCorrect` follow.
Assumed: requests are subsets of the types, and a type's parts are types.

**PgCatalog_proofs** (for every catalog, every sequence of calls, and a connection
that breaks at any row). Assumed is what Postgres keeps true of its tables
(`TypesAssumption`, `PartsAssumption`): OIDs are unique and not 0, a column or an
element has a row in pg_type, a composite type and its relation point at each
other, column numbers and sort orders are unique in their relation or enum. From
it follow the assumptions of TypeFetcher, whose invariant is then used through
`TFP == INSTANCE TypeFetcher_proofs`. Three arguments are about the statements:
`DescendantsFound` (the recursive statement reaches the least closed set: a round
that finds nothing new is the last, and there are not more rounds than OIDs,
`RoundsReachEnd`), `KindOfRow` (the five statements classify a type alike, the
columns found over pg_class and over typrelid being the same) and `RanksFill`
(array_agg puts the element with n before it at n + 1, and every place is taken).
The inductive invariant `PInv` is TypeFetcher's, seen through the mapping, with
`Shapes` (what is possible at each query), `Reading` (rows to come and rows read
are the answer as long as the connection holds), `Building` (the composites not
built yet), `CacheDescribed` (a cached type is the catalog's, whole, up to its
placeholders) and `Missed` (an unclassified OID is one the caller asked for). Each
action has two lemmas, one that it is TypeFetcher's step (`...Simulated`) and one
that it keeps the rest (`...Keeps`). `FetcherImplements`, `AnswersAlwaysDescribe` and
`CatalogTypeCorrect` follow.

**Scanner_proofs** (for every file). `SInv` adds to `TokensTile` what the scan
loops rely on: the character read covers the bytes between `offset` and
`rdOffset`, it is blank only if they are, and what lies between the last token
and the current one is blank. Every step either moves on inside a token or
returns one that ends at the current character (`MoveSInv`, `EmitSInv`).
`TypeCorrect` and `TokensAlwaysTile` follow, also for invalid UTF-8 and NUL.

**Infer_proofs** (for all databases and queries). `IInv` says that a cached
column agrees with every database that has its key, that the columns still
missing are among the rows to come, and that the flags computed so far are
sound. It is inductive if no two databases of the process use one OID for
different columns (`NoClash`, a hypothesis of the theorems, and exactly what
`InferSameOids.cfg` lacks). `ColumnsAlwaysCatalogs` and
`TableColumnsAlwaysNullSound` follow. Assumed of Postgres: an outer join takes the
word "join", and EXPLAIN prints a column of a table as an expression.

**Lifecycle_proofs** (for every combination of options and every order of
failures). `IInv` relates the place `Generate` is at to what exists there: a
container only between its creation and its removal, a connection only between
`Connect` and `CloseConn`, the schema loaded once on the way, and `err` with the
first failure as its cause from then on; where `runContainer` dropped the ID, that
is the first failure and `Generate` has returned. Each call site of `Stop` has its
own clause, since they differ in the context they pass. `NothingIsLeftBehind`,
`SuccessLeavesNothing`, `FirstFailureIsReported` and `SchemaComesFirst` follow, and
`ConnectionClosesFirst`, an action property, from the same invariant.

**Parser_proofs** (for every token stream and every error limit). `IInv` is a
conjunction of nine parts, one for each thing the parser remembers between two
calls of `next`: `LookAhead` (the token in hand and the scanner's place),
`GroupRead` and `Docs` (the comment group being read, and the one that may name
the next query), `ArgsFound` (the arguments read so far are exactly the `pggen.arg`
fragments passed so far), `ParamsFound` (the loop of `prepareSQL`, which has
numbered the names of the arguments it has passed), `SourcesOK`, `Tiled` and
`Results`. A query that is accepted inherits them: `EveryArgIsFound`,
`FileIsTiled`, `DocStandsAbove`, `NoBadQueryUnreported`. Assumed of a file: lines
never go down from token to token, and a line comment ends its line.

**Keyset_proofs** (for every table, page size and sequence of writes).
`OrderIrreflexive`, `OrderTransitive` and `OrderTotal` make the ORDER BY of a
variant a strict order on rows the author's promise keeps apart;
`PredicateIsAfter` shows that the WHERE clause, in SQL's three truth values, holds
exactly of the rows behind the cursor, by comparing the generated disjuncts with
the first column in which two rows differ (`LeastNat`). The inductive invariant
says that the cursor is the last row returned, and that every row that was there
all along and was not returned is behind it. `NoRowIsReturnedTwice`,
`WalksAreWhole` and `WhereFollowsOrderBy` follow. They have the hypothesis
`BlocksAreSound`: a key ends in a column that is not nullable, and the default
ordering has no nullable column. `parseSortSpec` does not enforce it, and
`KeysetSingleNullable.cfg` and `KeysetNullableDefault.cfg` are the two ways in which
the theorems fail without it; TLC confirms it for the blocks of the passing run.

**ChCodegen_proofs** (for every package, number of rows and server).
`AlwaysWholeOrError` has no hypothesis: its invariant `Rows` says that the rows
scanned and the rows to come make up the answer. The other two, `AlwaysDispatchesToKey`
and `AlwaysBindsCallersValues`, are about packages that are `WellNamed`: no constant,
method or struct is declared twice and a struct has the fields its methods read,
which Go's compiler and `FieldsFit` (checked by the run) say, and no inlined
parameter beside an identifier is called sql, which nothing says
(`ChCodegenSqlParam.cfg`). The invariant follows a query through its template file
into the emitted body and constant (`BodyHasConst`, `VariantIsEmitted`), so that the
method that runs is that of the query asked for, its locals hold the caller's
values (`Scope`), and a bad identifier is among those not yet filled in. A key that
the dispatcher knows always has a case (`KeyHasCase`, from the assumption that
`fanOut` makes both directions), so that only a bad identifier of the statement
asked for keeps it from being sent.
Two parts of `ChPackageFits` need no hypothesis: `ConnMethodsAlwaysExact` and
`ClientImportsAlwaysExact`. Their invariant `Layout` says that some file is the
leader (the first of the least path, `LeastNat`), that the sorted files have the queries the
imports were chosen from, and that every file is emitted before a method is
called.

Only model-checked: everything about Codegen, ChQuery and ChTypes; the other parts
of `ChPackageFits` (declared names and fields are built with `SelectSeq` and folds
over sequences, which the provers take as unknown, and none of them holds for
every package, see the failing configurations above); all liveness (the prover has
no rules for fairness and `ENABLED`); `TokenGrammar`, which is about what loops
compute for every input. The library's induction theorems cannot be used, since
they take an operator as a parameter; where a least number is enough, `LeastNat`
derives it from well-founded relations, and with it induction up to a bound (the
rounds of the recursive statement, the places of an array).

## Not modelled, and the plan

In order:

1. Proofs for ChQuery (`OutputsComplete`) and Codegen (`DiskFollowsEmission`).
2. `SortSpec`: the text of a sort block, the splicing of a variant and its second
   parse, composed with Parser. ChCodegen has the variants but not their text.
3. An abstract specification of `Generate` (all files and no container, or an
   error) that Lifecycle implements.

Known hazards without a property: the logs of a container are fetched after its
removal and a :many query of one nullable column cannot scan a NULL (both fail
today, see above); the slice at the end of a file may reach one byte beyond it
(parser.go:225), which depends on the buffer's capacity; the index of an unnamed
column is padded with a blank from ten columns on (templater.go:398); the column
cache is written without its mutex (column.go:95), a race that needs two calls of
`Generate` at once; the settings under which ClickHouse infers may differ from
those of the application (chinfer.go:166); a schema may change between the
statements of one inference (pginfer.go:182).

Left out for good: text layout of the generated code, casing of identifiers,
tables of known types, flag parsing, and the databases themselves.
