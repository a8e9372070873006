------------------------- MODULE ChCodegen_proofs -------------------------
(***************************************************************************)
(* Proofs about the generated ClickHouse querier: what a method returns,    *)
(* and, for a package that Go compiles, which statement it sends and with   *)
(* which values.                                                            *)
(***************************************************************************)
EXTENDS ChCodegen, WellFoundedInduction, TLAPS

Running == {"substitute", "send", "answer", "rows"}
Places  == Running \cup {"template", "emit", "ready", "failed", "returned"}

(* The server's rows: those of the answer are all still to come, and of a   *)
(* stream those scanned and those to come make up all of them.              *)
Flow ==
  /\ pc \in Places
  /\ open <=> pc = "rows"
  /\ left \in Nat
  /\ pc = "answer" => sent.conn = body.conn /\ sent.rows = left
  /\ pc = "rows" =>
       /\ sent.conn = "Query" /\ sent.rows = result.items + left
       /\ result \in [items : Nat, failed : {FALSE}]
Rows == Flow /\ WholeOrError

(* Nothing is sent or open before a call.                                   *)
LEMMA InitRows == ASSUME Init PROVE Rows
  BY DEF Init, Rows, Flow, WholeOrError, Places, Running

(* A return with an error, or with all of the rows, closes them.            *)
LEMMA ReturnRows ==
  ASSUME Rows, left' \in Nat, sent' = sent, NEW n, NEW failed, Return(n, failed),
         ~failed => n = IF sent.conn = "QueryRow" THEN 1 ELSE sent.rows
  PROVE  Rows'
  BY DEF Return, Rows, Flow, WholeOrError, Places, Running

(* A step that touches neither the rows nor the stream keeps both.          *)
LEMMA QuietRows ==
  ASSUME Rows, pc' \in Places \ {"answer", "rows", "returned"}, pc # "rows",
         UNCHANGED <<left, open>>
  PROVE  Rows'
  BY DEF Rows, Flow, WholeOrError

(* A method begins with its identifiers or, if it has none, with its call   *)
(* of the connection.                                                       *)
LEMMA EnterPlace == ASSUME NEW b, Enter(b) PROVE pc' \in {"send", "substitute"}
  BY DEF Enter

(* Every step keeps the account of the rows.                                *)
LEMMA NextRows == ASSUME Rows, [Next]_vars PROVE Rows'
<1>0. left \in Nat /\ MaxRows \in Nat
  BY ChCodegenAssumption DEF Rows, Flow
<1>1. CASE UNCHANGED vars
  BY <1>1 DEF vars, Rows, Flow, WholeOrError
<1>2. CASE TemplateAll
  <2>1. pc = "template" /\ pc' \in {"failed", "emit"} /\ UNCHANGED <<left, open>>
    BY <1>2 DEF TemplateAll, Fail, running
  <2> QED BY <2>1, QuietRows DEF Places, Running
<1>3. CASE EmitQueryFile
  <2>1. pc = "emit" /\ pc' \in {"failed", "emit", "ready"} /\ UNCHANGED <<left, open>>
    BY <1>3 DEF EmitQueryFile, Fail, running
  <2> QED BY <2>1, QuietRows DEF Places, Running
<1>4. CASE CallMethod
  <2>1. pc = "ready" /\ UNCHANGED <<left, open>> /\ \E b : Enter(b)
    BY <1>4 DEF CallMethod
  <2> QED BY <2>1, EnterPlace, QuietRows DEF Places, Running
<1>5. CASE Dispatch
  <2>1. /\ pc = "ready" /\ UNCHANGED <<left, sent>>
        /\ Return(0, TRUE) \/ (UNCHANGED open /\ \E b : Enter(b))
    BY <1>5 DEF Dispatch
  <2>2. CASE Return(0, TRUE)
    BY <1>0, <2>1, <2>2, ReturnRows
  <2>3. CASE UNCHANGED open /\ \E b : Enter(b)
    BY <2>1, <2>3, EnterPlace, QuietRows DEF Places, Running
  <2> QED BY <2>1, <2>2, <2>3
<1>6. CASE SubstituteIdentifier
  <2>1. /\ pc = "substitute" /\ UNCHANGED <<left, sent>>
        /\ Return(0, TRUE) \/ (UNCHANGED open /\ pc' \in {"send", "substitute"})
    BY <1>6 DEF SubstituteIdentifier
  <2>2. CASE Return(0, TRUE)
    BY <1>0, <2>1, <2>2, ReturnRows
  <2>3. CASE UNCHANGED open /\ pc' \in {"send", "substitute"}
    BY <2>1, <2>3, QuietRows DEF Places, Running
  <2> QED BY <2>1, <2>2, <2>3
<1>7. CASE Send
  <2>1. PICK n \in 0..MaxRows :
          sent'.conn = body.conn /\ sent'.rows = n /\ left' = n
    BY <1>7 DEF Send
  <2>2. pc = "send" /\ pc' = "answer" /\ UNCHANGED <<body, open>>
    BY <1>7 DEF Send
  <2>3. n \in Nat
    BY <1>0
  <2> QED BY <2>1, <2>2, <2>3 DEF Rows, Flow, WholeOrError, Places, Running
<1>8. CASE NextRow
  <2>1. pc = "rows" /\ left > 0 /\ left' = left - 1 /\ left' \in Nat /\ UNCHANGED sent
    BY <1>0, <1>8 DEF NextRow
  <2>2. CASE Return(0, TRUE)
    BY <2>1, <2>2, ReturnRows
  <2>3. CASE result' = [result EXCEPT !.items = @ + 1] /\ UNCHANGED <<pc, open>>
    <3>1. /\ result \in [items : Nat, failed : {FALSE}] /\ result.items \in Nat
          /\ sent.conn = "Query" /\ sent.rows = result.items + left
      BY <2>1 DEF Rows, Flow
    <3>2. result' \in [items : Nat, failed : {FALSE}] /\ result'.items = result.items + 1
      <4>1. \A n \in Nat : n + 1 \in Nat
        OBVIOUS
      <4>2. result.items + 1 \in Nat
        BY <3>1, <4>1
      <4>3. result' = [result EXCEPT !.items = result.items + 1]
        BY <2>3
      <4> QED BY <3>1, <4>2, <4>3
    <3>3. sent.rows = result'.items + left'
      BY <1>0, <2>1, <3>1, <3>2
    <3> QED BY <2>1, <2>3, <3>1, <3>2, <3>3 DEF Rows, Flow, WholeOrError
  <2> QED BY <1>8, <2>2, <2>3 DEF NextRow
<1>9. CASE Ends
  <2>1. UNCHANGED <<sent, left, body>> /\ (Fails \/ Answers \/ RowsEnd \/ RowsBreak)
    BY <1>9 DEF Ends
  <2>2. CASE Fails \/ RowsBreak
    BY <1>0, <2>1, <2>2, ReturnRows DEF Fails, RowsBreak
  <2>3. CASE Answers
    <3>1. pc = "answer" /\ sent.conn = body.conn /\ sent.rows = left
      BY <2>3 DEF Answers, Rows, Flow
    <3>2. CASE body.conn \in {"Exec", "Select"} /\ Return(left, FALSE)
      BY <1>0, <2>1, <3>1, <3>2, ReturnRows
    <3>3. CASE body.conn = "QueryRow" /\ left > 0 /\ Return(1, FALSE)
      BY <1>0, <2>1, <3>1, <3>3, ReturnRows
    <3>4. CASE /\ body.conn = "Query" /\ pc' = "rows" /\ open' = TRUE
               /\ result' = [items |-> 0, failed |-> FALSE]
      BY <1>0, <2>1, <3>1, <3>4 DEF Rows, Flow, WholeOrError, Places, Running
    <3> QED BY <2>3, <3>2, <3>3, <3>4 DEF Answers
  <2>4. CASE RowsEnd
    <3>1. /\ pc = "rows" /\ left = 0 /\ Return(result.items, FALSE)
          /\ sent.conn = "Query" /\ sent.rows = result.items + left /\ result.items \in Nat
      BY <2>4 DEF RowsEnd, Rows, Flow
    <3>2. sent.rows = result.items
      BY <3>1
    <3> QED BY <1>0, <2>1, <3>1, <3>2, ReturnRows
  <2> QED BY <2>1, <2>2, <2>3, <2>4
<1>10. CASE Finished
  BY <1>1, <1>10 DEF Finished
<1> QED BY <1>1, <1>2, <1>3, <1>4, <1>5, <1>6, <1>7, <1>8, <1>9, <1>10 DEF Next

(* A generated method returns all of the rows the server has or an error,   *)
(* whatever row the stream breaks at, and closes its rows.                  *)
THEOREM AlwaysWholeOrError == Spec => []WholeOrError
<1>1. Init => Rows
  BY InitRows
<1>2. Rows /\ [Next]_vars => Rows'
  BY NextRows
<1>3. Rows => WholeOrError
  BY DEF Rows
<1> QED BY <1>1, <1>2, <1>3, PTL DEF Spec

-----------------------------------------------------------------------------
(* What Go asks of the package before it runs: no constant, method or       *)
(* struct is declared twice, and a struct has the fields its methods read.  *)
(* And no inlined parameter is called sql beside an identifier, the one     *)
(* name that the emitted code itself uses (ChCodegenSqlParam).              *)
WellNamed ==
  Whole =>
    /\ \A c, d \in Consts : c.name = d.name => c = d
    /\ \A b, c \in Bodies : b.method = c.method => b = c
    /\ \A s, t \in AllStructs : s.name = t.name => s = t
    /\ FieldsFit
    /\ \A b \in Bodies : ~b.fromStruct /\ b.idents # {} => "sql" \notin b.named

(* The files: a group has the variants of its name, and what is emitted is  *)
(* one body and one constant for each query.                                *)
GroupOK(g, queries) ==
  g.variants = GroupVariants(g.name, queries) /\ g.params = g.name \o <<"Params">>
FileOK(f) ==
  /\ f.queries \in Seq(Query) /\ \A q \in AllQueries(f) : q.key # UnknownKey
  /\ BothDirections(f.queries)
  /\ \A g \in Elems(f.groups) : GroupOK(g, f.queries)
Package ==
  /\ files \in Packages
  /\ tfs \in Seq(Elems(tfs)) /\ \A f \in Elems(tfs) : FileOK(f)
  /\ code \in Seq({Emitted(f) : f \in Elems(tfs)})
  /\ pc = "template" => code = <<>>
  /\ pc = "emit" => Len(code) < Len(tfs)

(* The method that runs is that of a query of the package, and of the one   *)
(* asked for if the dispatcher called it.                                   *)
Const(q) == [name |-> SQLVarName(q), query |-> q]
AskedFor(q, c) ==
  c.dispatched => /\ q.group = c.method /\ q.key = c.key /\ q.key # UnknownKey
                  /\ q.key # "" => q.desc = c.desc
RunsQuery(b, c, consts) ==
  \E d \in consts : d = Const(d.query) /\ b = Body(d.query) /\ AskedFor(d.query, c)
Runs == pc \in Running => body \in Bodies /\ RunsQuery(body, call, Consts)

(* Its arguments are the caller's, and the bad identifiers among them are   *)
(* still to be seen.                                                        *)
Argument(b, e, x) == IF b.fromStruct THEN e.params[x] ELSE e.locals[x]
Scope(b, e, c, rest) ==
  /\ DOMAIN e = {"params", "locals"} /\ "sql" \in DOMAIN e.locals
  /\ ~b.fromStruct => b.named \subseteq DOMAIN e.locals
  /\ \A x \in b.named : Argument(b, e, x) = Value(x)
  /\ c.bad \cap Named(Elems(b.ins)) \subseteq rest
  /\ rest \subseteq b.idents
Args ==
  /\ pc \in {"substitute", "send"} => Scope(body, env, call, todo)
  /\ pc = "substitute" => body.idents # {}
  /\ pc = "send" =>
       todo = {} /\ (body.idents # {} => env.locals["sql"] = Text(body.const, {}))

(* What was sent is its statement with those arguments.                     *)
Sent ==
  /\ pc \in Places \ {"answer", "rows", "returned"} => sent.conn = None
  /\ pc \in {"answer", "rows"} => sent.text = Text(body.const, {}) /\ sent.conn # None
  /\ pc = "answer" => /\ sent.named = {[pg |-> x, val |-> Value(x)] : x \in body.named}
                      /\ call.bad \cap Named(Elems(body.ins)) = {}
IInv == pc \in Places /\ Package /\ Runs /\ Args /\ Sent /\ DispatchesToKey

(* What the template writes into a method of a query.                       *)
LEMMA BodyFields ==
  ASSUME NEW q
  PROVE  /\ Body(q).method = MethodName(q) /\ Body(q).const = SQLVarName(q)
         /\ Body(q).fromStruct = FromStruct(q) /\ Body(q).ins = q.ins
         /\ Body(q).params = (IF FromStruct(q) THEN ParamsType(q) ELSE <<>>)
         /\ Body(q).idents = {in.pg : in \in ChIdentifierInputs(q)}
         /\ Body(q).named = ParamNames(q) /\ Body(q).conn # None
  BY DEF Body, ConnCall, None

(* The methods, constants and groups of the package are those of its files. *)
LEMMA Emission ==
  /\ Bodies = UNION {c.bodies : c \in Elems(code)}
  /\ Consts = UNION {c.consts : c \in Elems(code)}
  /\ Groups = UNION {c.groups : c \in Elems(code)}
  BY DEF Bodies, Consts, Groups, Emits

(* A file has a method and a constant for each of its queries.              *)
LEMMA EmittedFields ==
  ASSUME NEW f
  PROVE  /\ Emitted(f).bodies = {Body(q) : q \in AllQueries(f)}
         /\ Emitted(f).consts = {Const(q) : q \in AllQueries(f)}
         /\ Emitted(f).groups = Elems(f.groups)
  BY DEF Emitted, Const

(* What is in the package was emitted for one of its files.                 *)
LEMMA OfFile ==
  ASSUME Package, NEW c \in Elems(code)
  PROVE  \E f \in Elems(tfs) : FileOK(f) /\ c = Emitted(f)
<1>1. PICK k \in DOMAIN code : c = code[k]
  BY DEF Elems
<1>2. code[k] \in {Emitted(f) : f \in Elems(tfs)}
  BY DEF Package
<1> QED BY <1>1, <1>2 DEF Package

(* Every method has its constant beside it.                                 *)
LEMMA BodyHasConst ==
  ASSUME Package, NEW b \in Bodies
  PROVE  \E d \in Consts : d = Const(d.query) /\ b = Body(d.query) /\ d.query.key # UnknownKey
<1>1. PICK c \in Elems(code) : b \in c.bodies
  BY Emission
<1>2. PICK f \in Elems(tfs) : FileOK(f) /\ c = Emitted(f)
  BY OfFile
<1>3. PICK q \in AllQueries(f) : b = Body(q)
  BY <1>1, <1>2, EmittedFields
<1>4. Const(q) \in c.consts /\ Const(q).query = q
  BY <1>2, EmittedFields DEF Const
<1>5. Const(q) \in Consts /\ q.key # UnknownKey
  BY <1>2, <1>4, Emission DEF FileOK
<1> QED BY <1>3, <1>4, <1>5

(* So has every variant that a dispatcher knows.                            *)
LEMMA VariantIsEmitted ==
  ASSUME Package, NEW g \in Groups, NEW k \in DOMAIN g.variants
  PROVE  /\ k \in Nat /\ IsVariant(g.variants[k]) /\ g.variants[k].group = g.name
         /\ g.variants[k].key # UnknownKey
         /\ Body(g.variants[k]) \in Bodies /\ Const(g.variants[k]) \in Consts
         /\ g.params = g.name \o <<"Params">>
<1>1. PICK c \in Elems(code) : g \in c.groups
  BY Emission
<1>2. PICK f \in Elems(tfs) : FileOK(f) /\ c = Emitted(f)
  BY OfFile
<1>3. g.variants = GroupVariants(g.name, f.queries) /\ g.params = g.name \o <<"Params">>
  BY <1>1, <1>2, EmittedFields DEF FileOK, GroupOK
<1>4. /\ k \in DOMAIN f.queries /\ g.variants[k] = f.queries[k]
      /\ IsVariant(f.queries[k]) /\ f.queries[k].group = g.name
  BY <1>3 DEF GroupVariants
<1>5. k \in Nat /\ g.variants[k] \in AllQueries(f)
  BY <1>2, <1>4 DEF FileOK, AllQueries, Elems
<1>6. Body(g.variants[k]) \in c.bodies /\ Const(g.variants[k]) \in c.consts
  BY <1>2, <1>5, EmittedFields
<1> QED BY <1>2, <1>3, <1>4, <1>5, <1>6, Emission DEF FileOK

(* A dispatcher that knows a key has a case for each direction of it.       *)
LEMMA KeyHasCase ==
  ASSUME Package, NEW g \in Groups, NEW k \in DOMAIN g.variants, NEW desc \in BOOLEAN
  PROVE  \E j \in DOMAIN g.variants : Applies(g.variants[j], g.variants[k].key, desc)
<1>1. PICK c \in Elems(code) : g \in c.groups
  BY Emission
<1>2. PICK f \in Elems(tfs) : FileOK(f) /\ c = Emitted(f)
  BY OfFile
<1>3. g.variants = GroupVariants(g.name, f.queries)
  BY <1>1, <1>2, EmittedFields DEF FileOK, GroupOK
<1>4. /\ k \in DOMAIN f.queries /\ g.variants[k] = f.queries[k]
      /\ f.queries[k].group # <<>> /\ f.queries[k].group = g.name
  BY <1>3 DEF GroupVariants, IsVariant
<1>5. CASE f.queries[k].key = "" \/ f.queries[k].desc = desc
  BY <1>4, <1>5 DEF Applies
<1>6. CASE f.queries[k].key # "" /\ f.queries[k].desc # desc
  <2>1. PICK j \in DOMAIN f.queries :
          /\ f.queries[j].group = f.queries[k].group /\ f.queries[j].key = f.queries[k].key
          /\ f.queries[j].desc # f.queries[k].desc
    BY <1>2, <1>4, <1>6 DEF FileOK, BothDirections
  <2>2. f.queries[j] \in Query /\ f.queries[k] \in Query
    BY <1>2, <1>4, <2>1 DEF FileOK
  <2>3. f.queries[j].desc \in BOOLEAN /\ f.queries[k].desc \in BOOLEAN
    BY <2>2 DEF Query
  <2>4. f.queries[j].desc = desc
    BY <1>6, <2>1, <2>3
  <2>5. j \in DOMAIN g.variants /\ g.variants[j] = f.queries[j]
    BY <1>3, <1>4, <2>1 DEF GroupVariants, IsVariant
  <2> QED BY <1>4, <2>1, <2>4, <2>5 DEF Applies
<1> QED BY <1>5, <1>6

(* A constant's name leads back to its query.                               *)
LEMMA StatementIsQuery ==
  ASSUME WellNamed, Whole, NEW d \in Consts, d = Const(d.query), NEW holes
  PROVE  StatementOf(Text(SQLVarName(d.query), holes)) = d.query
<1>1. d.name = SQLVarName(d.query)
  BY DEF Const
<1>2. \A c \in Consts : c.name = SQLVarName(d.query) => c = d
  BY <1>1 DEF WellNamed
<1>3. (CHOOSE c \in Consts : c.name = SQLVarName(d.query)) = d
  BY <1>1, <1>2
<1>4. Text(SQLVarName(d.query), holes).const = SQLVarName(d.query)
  BY DEF Text
<1> QED BY <1>3, <1>4 DEF StatementOf

-----------------------------------------------------------------------------
(* There is no package yet, and no call.                                    *)
LEMMA InitIInv == ASSUME Init PROVE IInv
<1>1. tfs = <<>> /\ code = <<>> /\ pc = "template" /\ sent = [conn |-> None] /\ files \in Packages
  BY DEF Init
<1>2. Elems(tfs) = {}
  BY <1>1 DEF Elems
<1>3. Package
  BY <1>1, <1>2 DEF Package
<1> QED BY <1>1, <1>3 DEF IInv, Places, Running, Runs, Args, Sent, DispatchesToKey

(* TemplateAll leaves one file for each file it was given, none empty.      *)
LEMMA TemplateOK ==
  ASSUME NEW f \in File, NEW leader,
         \A k \in DOMAIN f.queries : f.queries[k].key # UnknownKey
  PROVE  LET t == TemplateFile(f, leader)
         IN t.queries = f.queries /\ \A g \in Elems(t.groups) : GroupOK(g, f.queries)
  BY DEF TemplateFile, BuildPaginateGroup, GroupOK, Elems

(* The files that TemplateAll leaves, before they are sorted.               *)
Filled(k) == [Templates[k] EXCEPT !.imports = Imports(Templates, Templates[k]),
                                  !.declarers = Declarers(Templates, Templates[k])]
Prepared == [k \in DOMAIN files |-> Filled(k)]

(* Such a file has the queries and the path of the file it is made from.    *)
LEMMA FilledFields ==
  ASSUME files \in Packages, NEW k \in DOMAIN files
  PROVE  /\ Templates[k].queries = files[k].queries /\ Templates[k].isLeader = IsLeader(k)
         /\ Templates[k].imports = {"context", "fmt", "clickhouse", "driver"}
         /\ Filled(k).queries = files[k].queries /\ Filled(k).groups = Templates[k].groups
         /\ Filled(k).isLeader = IsLeader(k)
         /\ Filled(k).imports = Imports(Templates, Templates[k])
         /\ FileOK(Filled(k))
<1>1. files \in Seq(File)
  BY ChCodegenAssumption
<1>2. /\ files[k] \in File
      /\ \A j \in DOMAIN files[k].queries : files[k].queries[j].key # UnknownKey
      /\ BothDirections(files[k].queries)
  BY <1>1, ChCodegenAssumption
<1>3. Templates[k] = TemplateFile(files[k], IsLeader(k))
  BY DEF Templates
<1>4. /\ Templates[k].queries = files[k].queries
      /\ \A g \in Elems(Templates[k].groups) : GroupOK(g, files[k].queries)
  BY <1>2, <1>3, TemplateOK
<1>5. /\ Templates[k].isLeader = IsLeader(k)
      /\ Templates[k].imports = {"context", "fmt", "clickhouse", "driver"}
  BY <1>3 DEF TemplateFile
<1>6. /\ Filled(k).queries = Templates[k].queries /\ Filled(k).groups = Templates[k].groups
      /\ Filled(k).isLeader = Templates[k].isLeader
      /\ Filled(k).imports = Imports(Templates, Templates[k])
  BY <1>3 DEF Filled, TemplateFile
<1>7. files[k].queries \in Seq(Query)
  BY <1>2 DEF File
<1> QED BY <1>2, <1>4, <1>5, <1>6, <1>7 DEF FileOK, AllQueries, Elems

(* Sorting loses no file and adds none.                                     *)
LEMMA SortedFiles ==
  ASSUME files \in Packages, NEW s \in Sorted(Prepared)
  PROVE  /\ s \in Seq(Elems(s)) /\ Len(s) = Len(files) /\ Len(files) \in Nat \ {0}
         /\ Elems(s) = {Filled(k) : k \in DOMAIN files}
<1>1. files \in Seq(File) /\ files # <<>>
  BY ChCodegenAssumption
<1>2. /\ DOMAIN files = 1..Len(files) /\ Len(files) \in Nat \ {0}
      /\ DOMAIN Prepared = DOMAIN files /\ \A k \in DOMAIN files : Prepared[k] = Filled(k)
  BY <1>1 DEF Prepared
<1>3. PICK p \in [DOMAIN files -> DOMAIN files] :
        /\ s = [k \in DOMAIN files |-> Prepared[p[k]]]
        /\ \A k \in DOMAIN files : \E j \in DOMAIN files : p[j] = k
  BY <1>2 DEF Sorted, Bijection, Injection, Surjection
<1>4. DOMAIN s = 1..Len(files) /\ s = [k \in 1..Len(files) |-> s[k]]
  BY <1>2, <1>3
<1>5. \A k \in 1..Len(files) : s[k] \in Elems(s)
  BY <1>4 DEF Elems
<1>6. s \in Seq(Elems(s)) /\ Len(s) = Len(files)
  BY <1>2, <1>4, <1>5
<1>7. ASSUME NEW f \in Elems(s) PROVE \E k \in DOMAIN files : f = Filled(k)
  BY <1>2, <1>3 DEF Elems
<1>8. ASSUME NEW k \in DOMAIN files PROVE Filled(k) \in Elems(s)
  BY <1>2, <1>3 DEF Elems
<1> QED BY <1>2, <1>6, <1>7, <1>8

(* TemplateAll, whose files are sorted in between.                          *)
LEMMA TemplatePackage ==
  ASSUME Package, TemplateAll
  PROVE  /\ Package' /\ files' = files /\ files \in Packages /\ code' = <<>>
         /\ \/ pc' = "failed" /\ tfs' = tfs
            \/ pc' = "emit" /\ tfs' \in Sorted(Prepared)
<1>1. pc = "template" /\ code = <<>> /\ code' = code /\ files' = files /\ files \in Packages
  BY DEF TemplateAll, Package
<1>2. CASE pc' = "failed" /\ tfs' = tfs
  <2>1. Elems(tfs)' = Elems(tfs)
    BY <1>2 DEF Elems
  <2>2. Package'
    BY <1>1, <1>2, <2>1 DEF Package
  <2> QED BY <1>1, <1>2, <2>2
<1>3. CASE pc' = "emit" /\ tfs' \in Sorted(Prepared)
  <2>1. /\ tfs' \in Seq(Elems(tfs')) /\ Len(tfs') \in Nat /\ Len(tfs') > 0
        /\ Elems(tfs') = {Filled(k) : k \in DOMAIN files}
    BY <1>1, <1>3, SortedFiles
  <2>2. \A f \in Elems(tfs') : FileOK(f)
    BY <1>1, <2>1, FilledFields
  <2>3. code' = <<>> /\ Len(code') = 0
    BY <1>1
  <2>4. Package'
    BY <1>1, <1>3, <2>1, <2>2, <2>3 DEF Package
  <2> QED BY <1>1, <1>3, <2>4
<1> QED BY <1>2, <1>3 DEF TemplateAll, Fail, Prepared, Filled

(* No method runs yet.                                                      *)
LEMMA TemplateIInv == ASSUME IInv, TemplateAll PROVE IInv'
<1>1. Package' /\ pc' \in {"failed", "emit"}
  BY TemplatePackage DEF IInv
<1>2. sent' = sent /\ sent.conn = None
  BY DEF IInv, TemplateAll, running, Sent, Places, Running
<1> QED BY <1>1, <1>2 DEF IInv, Places, Running, Runs, Args, Sent, DispatchesToKey

(* EmitQueryFile adds the next file.                                        *)
LEMMA EmitPackage ==
  ASSUME Package, EmitQueryFile
  PROVE  /\ Package' /\ pc = "emit" /\ UNCHANGED <<files, tfs>>
         /\ Elems(tfs)' = Elems(tfs)
         /\ \A f \in Elems(tfs) : Emitted(f)' = Emitted(f)
         /\ \/ pc' = "failed" /\ code' = code
            \/ /\ code' = Append(code, Emitted(tfs[Len(code) + 1]))
               /\ pc' = IF Len(code) + 1 = Len(tfs) THEN "ready" ELSE "emit"
<1>1. pc = "emit" /\ UNCHANGED <<files, tfs>>
  BY DEF EmitQueryFile
<1>2. Elems(tfs)' = Elems(tfs) /\ \A f \in Elems(tfs) : Emitted(f)' = Emitted(f)
  BY <1>1 DEF Elems, Emitted
<1>3. {Emitted(f) : f \in Elems(tfs)}' = {Emitted(f) : f \in Elems(tfs)}
  BY <1>1, <1>2 DEF Emitted
<1>4. CASE code' = code /\ pc' = "failed"
  <2>1. Package'
    BY <1>1, <1>2, <1>3, <1>4 DEF Package
  <2> QED BY <1>1, <1>2, <1>4, <2>1
<1>5. CASE /\ code' = Append(code, Emitted(tfs[Len(code) + 1]))
           /\ pc' = IF Len(code) + 1 = Len(tfs) THEN "ready" ELSE "emit"
  <2>1. Len(code) \in Nat /\ Len(tfs) \in Nat /\ Len(code) < Len(tfs)
    BY <1>1 DEF Package
  <2>2. Len(code) + 1 \in DOMAIN tfs
    BY <1>1, <2>1 DEF Package
  <2>3. tfs[Len(code) + 1] \in Elems(tfs)
    BY <2>2 DEF Elems
  <2>4. code' \in Seq({Emitted(f) : f \in Elems(tfs)}) /\ Len(code') = Len(code) + 1
    BY <1>5, <2>3 DEF Package
  <2>5. pc' = "emit" => Len(code') < Len(tfs)
    BY <1>5, <2>1, <2>4
  <2>6. Package'
    BY <1>1, <1>2, <1>3, <1>5, <2>4, <2>5 DEF Package
  <2> QED BY <1>1, <1>2, <1>5, <2>6
<1> QED BY <1>4, <1>5 DEF EmitQueryFile, Fail

(* Still no method runs.                                                    *)
LEMMA EmitIInv == ASSUME IInv, EmitQueryFile PROVE IInv'
<1>1. Package' /\ pc = "emit" /\ pc' \in {"failed", "emit", "ready"}
  BY EmitPackage DEF IInv
<1>2. sent' = sent /\ sent.conn = None
  BY <1>1 DEF IInv, EmitQueryFile, running, Sent, Places, Running
<1> QED BY <1>1, <1>2 DEF IInv, Places, Running, Runs, Args, Sent, DispatchesToKey

(* Of the cases that apply one is the first.                                *)
LEMMA LeastNat ==
  ASSUME NEW T \in SUBSET Nat, T # {}
  PROVE  \E n \in T : \A m \in T : n <= m
<1> DEFINE R == {ss \in Nat \X Nat : ss[1] < ss[2]}
<1>1. R = OpToRel(<, Nat)
  BY DEF OpToRel
<1>2. IsWellFoundedOn(R, Nat)
  BY <1>1, NatLessThanWellFounded
<1>3. \E x \in T : \A y \in T : ~(<<y, x>> \in R)
  <2> HIDE DEF R
  <2> QED BY <1>2, WFMin
<1>4. PICK n \in T : \A y \in T : <<y, n>> \notin R
  BY <1>3
<1>5. ASSUME NEW m \in T PROVE n <= m
  <2>1. ~(m < n)
    BY <1>4
  <2> QED BY <2>1
<1> QED BY <1>5

(* From here on the package stands.                                         *)
LEMMA PackageStands ==
  ASSUME Package, UNCHANGED package, pc' \notin {"template", "emit"}
  PROVE  Package' /\ Bodies' = Bodies /\ Consts' = Consts
<1>1. UNCHANGED <<files, tfs, code>>
  BY DEF package
<1>2. Elems(tfs)' = Elems(tfs) /\ Elems(code)' = Elems(code)
  BY <1>1 DEF Elems
<1>3. {Emitted(f) : f \in Elems(tfs)}' = {Emitted(f) : f \in Elems(tfs)}
  BY <1>1, <1>2 DEF Emitted
<1>4. Package'
  BY <1>1, <1>2, <1>3 DEF Package
<1>5. Bodies' = Bodies /\ Consts' = Consts
  BY <1>2 DEF Bodies, Consts, Emits
<1> QED BY <1>4, <1>5

(* A method begins with the caller's arguments: a struct has all its fields. *)
LEMMA EnterScope ==
  ASSUME WellNamed, Whole, NEW b \in Bodies, Enter(b), NEW q, b = Body(q), NEW c,
         c.bad \cap Named(Elems(b.ins)) \subseteq b.idents
  PROVE  Scope(b, env', c, b.idents)
<1>1. env' = [params |-> [n \in IF b.fromStruct THEN Named(Fields(b.params)) ELSE {} |-> Value(n)],
              locals |-> [n \in {"sql"} \cup IF b.fromStruct THEN {} ELSE Named(Elems(b.ins)) |-> Value(n)]]
  BY DEF Enter
<1>2. b.named \subseteq Named(Elems(b.ins))
  BY BodyFields DEF ParamNames, Named
<1>3. b.fromStruct => b.named \subseteq Named(Fields(b.params))
  <2> SUFFICES ASSUME b.fromStruct PROVE b.named \subseteq Named(Fields(b.params))
    OBVIOUS
  <2>1. PICK s \in AllStructs : s.name = b.params /\ Elems(b.ins) \subseteq Elems(s.fields)
    BY DEF WellNamed, FieldsFit
  <2>2. Elems(b.ins) \subseteq Fields(b.params)
    BY <2>1 DEF Fields
  <2> QED BY <1>2, <2>2 DEF Named
<1>4. ASSUME NEW x \in b.named PROVE Argument(b, env', x) = Value(x)
  <2>1. CASE b.fromStruct
    BY <1>1, <1>3, <2>1 DEF Argument
  <2>2. CASE ~b.fromStruct
    BY <1>1, <1>2, <2>2 DEF Argument
  <2> QED BY <2>1, <2>2
<1>5. DOMAIN env' = {"params", "locals"} /\ "sql" \in DOMAIN env'.locals
  BY <1>1
<1>6. ~b.fromStruct => b.named \subseteq DOMAIN env'.locals
  BY <1>1, <1>2
<1> QED BY <1>4, <1>5, <1>6 DEF Scope

(* A method that begins is that of a query asked for.                       *)
LEMMA EnterIInv ==
  ASSUME IInv, WellNamed, pc = "ready", UNCHANGED <<package, sent>>,
         NEW b \in Bodies, Enter(b), RunsQuery(b, call', Consts),
         call'.bad \cap Named(Elems(b.ins)) \subseteq b.idents
  PROVE  IInv'
<1>1. /\ body' = b /\ todo' = b.idents /\ pc' \in {"send", "substitute"} /\ sent' = sent
      /\ pc' = "send" <=> b.idents = {}
  BY DEF Enter
<1>2. Package' /\ Bodies' = Bodies /\ Consts' = Consts
  BY <1>1, PackageStands DEF IInv
<1>3. Runs'
  BY <1>1, <1>2 DEF Runs
<1>4. PICK q : b = Body(q)
  BY DEF RunsQuery
<1>5. Scope(b, env', call', b.idents)
  BY <1>4, EnterScope DEF Whole
<1>6. Args'
  BY <1>1, <1>5 DEF Args
<1>7. sent.conn = None
  BY DEF IInv, Sent, Places, Running
<1>8. Sent' /\ DispatchesToKey'
  BY <1>1, <1>7 DEF Sent, DispatchesToKey
<1> QED BY <1>1, <1>2, <1>3, <1>6, <1>8 DEF IInv, Places, Running

(* A caller calls a method.                                                 *)
LEMMA CallIInv == ASSUME IInv, WellNamed, CallMethod PROVE IInv'
<1>1. PICK b \in PublicBodies : \E bad \in SUBSET b.idents :
        /\ call' = [method |-> b.method, dispatched |-> FALSE, key |-> "", desc |-> FALSE, bad |-> bad]
        /\ Enter(b)
  BY DEF CallMethod
<1>2. b \in Bodies /\ pc = "ready" /\ UNCHANGED <<package, sent>>
  BY DEF CallMethod, PublicBodies
<1>3. call'.dispatched = FALSE /\ call'.bad \subseteq b.idents
  <2>1. PICK bad \in SUBSET b.idents :
          call' = [method |-> b.method, dispatched |-> FALSE, key |-> "", desc |-> FALSE, bad |-> bad]
    BY <1>1
  <2>2. call'.dispatched = FALSE /\ call'.bad = bad
    BY <2>1
  <2> QED BY <2>2
<1>4. RunsQuery(b, call', Consts)
  <2>1. PICK d \in Consts : d = Const(d.query) /\ b = Body(d.query)
    BY <1>2, BodyHasConst DEF IInv
  <2>2. AskedFor(d.query, call')
    BY <1>3 DEF AskedFor
  <2> QED BY <2>1, <2>2 DEF RunsQuery
<1>5. call'.bad \cap Named(Elems(b.ins)) \subseteq b.idents
  BY <1>3
<1> QED BY <1>1, <1>2, <1>4, <1>5, EnterIInv

(* A bad identifier that a variant reads is one of its own identifiers: the *)
(* struct has one field of the name.                                        *)
LEMMA BadIsOwn ==
  ASSUME WellNamed, Whole, NEW v, IsVariant(v), Body(v) \in Bodies,
         NEW bad \in SUBSET Named({in \in Fields(v.group \o <<"Params">>) : IsIdentifier(in)})
  PROVE  bad \cap Named(Elems(Body(v).ins)) \subseteq Body(v).idents
<1> SUFFICES ASSUME NEW x \in bad, x \in Named(Elems(v.ins)) PROVE x \in Body(v).idents
  BY BodyFields
<1>1. Body(v).fromStruct /\ Body(v).params = v.group \o <<"Params">> /\ Body(v).ins = v.ins
  BY BodyFields DEF FromStruct, ParamsType
<1>2. PICK s \in AllStructs :
        s.name = v.group \o <<"Params">> /\ Elems(v.ins) \subseteq Elems(s.fields)
  BY <1>1 DEF WellNamed, FieldsFit
<1>3. PICK in \in Fields(v.group \o <<"Params">>) : IsIdentifier(in) /\ x = in.pg
  BY DEF Named
<1>4. in \in Elems(s.fields)
  <2>1. PICK t \in AllStructs : t.name = v.group \o <<"Params">> /\ in \in Elems(t.fields)
    BY <1>3 DEF Fields
  <2>2. t = s
    BY <1>2, <2>1 DEF WellNamed
  <2> QED BY <2>1, <2>2
<1>5. PICK own \in Elems(v.ins) : x = own.pg
  BY DEF Named
<1>6. own = in
  <2>1. PICK j \in DOMAIN s.fields : own = s.fields[j]
    BY <1>2, <1>5 DEF Elems
  <2>2. PICK k \in DOMAIN s.fields : in = s.fields[k]
    BY <1>4 DEF Elems
  <2>3. s.fields[j].pg = s.fields[k].pg
    BY <1>3, <1>5, <2>1, <2>2
  <2>4. j = k
    BY <2>3 DEF WellNamed, FieldsFit
  <2> QED BY <2>1, <2>2, <2>4
<1>7. own \in ChIdentifierInputs(v)
  BY <1>3, <1>5, <1>6 DEF ChIdentifierInputs
<1> QED BY <1>5, <1>7, BodyFields

(* A caller calls a dispatcher: the first case that applies is a variant of *)
(* the group, and the method it names that of the variant.                  *)
LEMMA DispatchIInv == ASSUME IInv, WellNamed, Dispatch PROVE IInv'
<1> DEFINE idents(g) == Named({in \in Fields(g.params) : IsIdentifier(in)})
           keys(g) == {v.key : v \in Elems(g.variants)} \cup {UnknownKey}
           cases(g, key, desc) == {k \in DOMAIN g.variants : Applies(g.variants[k], key, desc)}
           first(g, key, desc) == CHOOSE k \in cases(g, key, desc) :
                                    \A j \in cases(g, key, desc) : k <= j
<1> DEFINE called(g, key, desc, bad) ==
        /\ call' = [method |-> g.name, dispatched |-> TRUE, key |-> key, desc |-> desc, bad |-> bad]
        /\ IF cases(g, key, desc) = {}
           THEN Return(0, TRUE) /\ UNCHANGED <<body, env, todo>>
           ELSE /\ Enter(CHOOSE b \in Bodies :
                           b.method = VariantMethodName(g.variants[first(g, key, desc)]))
                /\ UNCHANGED <<result, open>>
<1>0. PICK g \in Groups : \E key \in keys(g), desc \in BOOLEAN, bad \in SUBSET idents(g) :
                            called(g, key, desc, bad)
  BY DEF Dispatch
<1>1. PICK key \in keys(g), desc \in BOOLEAN, bad \in SUBSET idents(g) : called(g, key, desc, bad)
  BY <1>0
<1>2. pc = "ready" /\ UNCHANGED <<package, sent>> /\ sent.conn = None /\ Package
  BY DEF Dispatch, IInv, Sent, Places, Running
<1>3. CASE cases(g, key, desc) = {}
  <2>1. pc' = "returned" /\ result'.failed /\ sent'.conn = None /\ call'.key = key
    BY <1>1, <1>2, <1>3 DEF Return
  <2>2. Package'
    BY <1>2, <2>1, PackageStands
  <2>3. key = UnknownKey
    <3> SUFFICES ASSUME NEW k \in DOMAIN g.variants, key = g.variants[k].key PROVE FALSE
      BY DEF Elems
    <3> QED BY <1>2, <1>3, KeyHasCase
  <2>4. DispatchesToKey'
    BY <2>1, <2>3 DEF DispatchesToKey
  <2> QED BY <2>1, <2>2, <2>4 DEF IInv, Places, Running, Runs, Args, Sent
<1>4. CASE cases(g, key, desc) # {}
  <2>1. first(g, key, desc) \in cases(g, key, desc)
    <3>1. cases(g, key, desc) \subseteq Nat
      BY <1>2, VariantIsEmitted
    <3>2. \E k \in cases(g, key, desc) : \A j \in cases(g, key, desc) : k <= j
      BY <1>4, <3>1, LeastNat
    <3> QED BY <3>2
  <2> DEFINE v == g.variants[first(g, key, desc)]
  <2>2. /\ IsVariant(v) /\ v.group = g.name /\ v.key # UnknownKey
        /\ Body(v) \in Bodies /\ Const(v) \in Consts /\ g.params = g.name \o <<"Params">>
    BY <1>2, <2>1, VariantIsEmitted
  <2>3. v.key = key /\ (v.key # "" => v.desc = desc)
    BY <2>1 DEF Applies
  <2> HIDE DEF v
  <2>4. (CHOOSE b \in Bodies : b.method = VariantMethodName(v)) = Body(v)
    <3>1. Body(v).method = VariantMethodName(v)
      BY <2>2, BodyFields DEF MethodName
    <3>2. \A b \in Bodies : b.method = VariantMethodName(v) => b = Body(v)
      BY <1>2, <2>2, <3>1 DEF WellNamed, Whole
    <3> QED BY <2>2, <3>1, <3>2
  <2>5. Enter(Body(v))
    BY <1>1, <1>4, <2>4 DEF v
  <2>6. /\ call'.dispatched /\ call'.method = g.name /\ call'.key = key
        /\ call'.desc = desc /\ call'.bad = bad
    BY <1>1
  <2>7. RunsQuery(Body(v), call', Consts)
    BY <2>2, <2>3, <2>6 DEF RunsQuery, AskedFor, Const
  <2>8. call'.bad \cap Named(Elems(Body(v).ins)) \subseteq Body(v).idents
    BY <1>2, <2>2, <2>6, BadIsOwn DEF Whole
  <2> QED BY <1>2, <2>2, <2>5, <2>7, <2>8, EnterIInv
<1> QED BY <1>3, <1>4

(* A running method that returns has sent the statement that was asked for, *)
(* or met a bad identifier of it.                                           *)
LEMMA ReturnIInv ==
  ASSUME IInv, WellNamed, UNCHANGED <<package, call, body, sent>>,
         NEW n, NEW failed, Return(n, failed),
         \/ pc \in {"answer", "rows"}
         \/ pc = "substitute" /\ failed /\ call.bad \cap body.idents # {}
  PROVE  IInv'
<1>1. pc' = "returned" /\ sent' = sent /\ call' = call /\ result'.failed = failed
  BY DEF Return
<1>2. Package' /\ Bodies' = Bodies /\ Consts' = Consts
  BY <1>1, PackageStands DEF IInv
<1>3. PICK d \in Consts : d = Const(d.query) /\ body = Body(d.query) /\ AskedFor(d.query, call)
  BY DEF IInv, Runs, RunsQuery, Running
<1>4. StatementOf(sent.text)' = StatementOf(sent.text)
  BY <1>1, <1>2 DEF StatementOf
<1>5. DispatchesToKey'
  <2>1. CASE pc = "substitute" /\ failed /\ call.bad \cap body.idents # {}
    <3>1. sent.conn = None
      BY <2>1 DEF IInv, Sent, Places, Running
    <3>2. body.idents = Named(ChIdentifierInputs(d.query))
      BY <1>3, BodyFields DEF Named
    <3>3. call.dispatched => Asked(d.query)'
      BY <1>1, <1>3 DEF AskedFor, Asked
    <3> QED BY <1>1, <1>2, <1>3, <2>1, <3>1, <3>2, <3>3 DEF DispatchesToKey
  <2>2. CASE pc \in {"answer", "rows"}
    <3>1. sent.text = Text(SQLVarName(d.query), {}) /\ sent.conn # None
      BY <1>3, <2>2, BodyFields DEF IInv, Sent
    <3>2. StatementOf(sent.text) = d.query
      BY <1>3, <2>2, <3>1, StatementIsQuery DEF Whole
    <3>3. call.dispatched => call.key # UnknownKey /\ Asked(d.query)'
      BY <1>1, <1>3 DEF AskedFor, Asked
    <3> QED BY <1>1, <1>4, <3>1, <3>2, <3>3 DEF DispatchesToKey
  <2> QED BY <2>1, <2>2
<1> QED BY <1>1, <1>2, <1>5 DEF IInv, Places, Running, Runs, Args, Sent

(* Filling an identifier in leaves the other arguments alone.               *)
LEMMA FillScope ==
  ASSUME NEW b, NEW e, NEW f, NEW c, NEW rest, Scope(b, e, c, rest),
         ~b.fromStruct => "sql" \notin b.named,
         DOMAIN f = DOMAIN e, f.params = e.params, DOMAIN f.locals = DOMAIN e.locals,
         \A y \in DOMAIN e.locals : y # "sql" => f.locals[y] = e.locals[y],
         NEW x, x \notin c.bad
  PROVE  Scope(b, f, c, rest \ {x})
<1>1. ASSUME NEW y \in b.named PROVE Argument(b, f, y) = Value(y)
  <2>1. CASE b.fromStruct
    BY <2>1 DEF Scope, Argument
  <2>2. CASE ~b.fromStruct
    <3>1. y \in DOMAIN e.locals /\ y # "sql" /\ e.locals[y] = Value(y)
      BY <2>2 DEF Scope, Argument
    <3> QED BY <2>2, <3>1 DEF Argument
  <2> QED BY <2>1, <2>2
<1>2. c.bad \cap Named(Elems(b.ins)) \subseteq rest \ {x} /\ rest \ {x} \subseteq b.idents
  BY DEF Scope
<1> QED BY <1>1, <1>2 DEF Scope

(* substituteIdentifiers fills in one identifier or refuses it.             *)
LEMMA SubstituteIInv == ASSUME IInv, WellNamed, SubstituteIdentifier PROVE IInv'
<1>1. pc = "substitute" /\ UNCHANGED <<package, call, body, sent>>
  BY DEF SubstituteIdentifier
<1>2. CASE Return(0, TRUE)
  <2>1. PICK x \in todo : x \in call.bad
    BY <1>2 DEF SubstituteIdentifier, Return
  <2>2. x \in body.idents
    BY <1>1 DEF IInv, Args, Scope
  <2> QED BY <1>1, <1>2, <2>1, <2>2, ReturnIInv
<1>3. CASE ~Return(0, TRUE)
  <2>1. PICK x \in todo :
          /\ x \notin call.bad /\ todo' = todo \ {x}
          /\ env' = [env EXCEPT !.locals["sql"] = Text(body.const, todo')]
          /\ pc' = IF todo' = {} THEN "send" ELSE "substitute"
    BY <1>3 DEF SubstituteIdentifier
  <2>2. pc' \in {"send", "substitute"} /\ (pc' = "send" => todo' = {})
    BY <2>1
  <2>3. Package' /\ Bodies' = Bodies /\ Consts' = Consts
    BY <1>1, <2>2, PackageStands DEF IInv
  <2>4. Runs'
    BY <1>1, <2>2, <2>3 DEF IInv, Runs, Running
  <2>5. Scope(body, env, call, todo) /\ body \in Bodies
    BY <1>1 DEF IInv, Args, Runs, Running
  <2>6. Scope(body, env', call, todo') /\ env'.locals["sql"] = Text(body.const, todo')
    <3>1. \A b \in Bodies : ~b.fromStruct /\ b.idents # {} => "sql" \notin b.named
      BY <1>1 DEF WellNamed, Whole
    <3>2. body.idents # {}
      BY <1>1 DEF IInv, Args
    <3>3. ~body.fromStruct => "sql" \notin body.named
      BY <2>5, <3>1, <3>2
    <3>4. DOMAIN env = {"params", "locals"} /\ "sql" \in DOMAIN env.locals
      BY <2>5 DEF Scope
    <3>5. /\ DOMAIN env' = DOMAIN env /\ env'.params = env.params
          /\ env'.locals = [env.locals EXCEPT !["sql"] = Text(body.const, todo')]
      BY <2>1, <3>4
    <3>6. /\ DOMAIN env'.locals = DOMAIN env.locals
          /\ env'.locals["sql"] = Text(body.const, todo')
          /\ \A y \in DOMAIN env.locals : y # "sql" => env'.locals[y] = env.locals[y]
      BY <3>4, <3>5
    <3>7. Scope(body, env', call, todo \ {x})
      BY <2>1, <2>5, <3>3, <3>5, <3>6, FillScope
    <3> QED BY <2>1, <3>6, <3>7
  <2>7. Args'
    BY <1>1, <2>2, <2>6 DEF IInv, Args
  <2>8. Sent' /\ DispatchesToKey'
    BY <1>1, <2>2 DEF IInv, Sent, DispatchesToKey, Places, Running
  <2> QED BY <2>2, <2>3, <2>4, <2>7, <2>8 DEF IInv, Places, Running
<1> QED BY <1>2, <1>3

(* The connection is called with the statement and its arguments.           *)
LEMMA SendIInv == ASSUME IInv, Send PROVE IInv'
<1>1. pc = "send" /\ pc' = "answer" /\ UNCHANGED <<package, call, body>>
  BY DEF Send
<1>2. /\ Scope(body, env, call, todo) /\ todo = {}
      /\ body.idents # {} => env.locals["sql"] = Text(body.const, {})
  BY <1>1 DEF IInv, Args
<1>3. /\ sent'.text = SQLRef /\ sent'.conn = body.conn
      /\ sent'.named = {[pg |-> x, val |-> Argument(body, env, x)] : x \in body.named}
  BY DEF Send, Argument
<1>4. sent'.text = Text(body.const, {})
  BY <1>2, <1>3 DEF SQLRef
<1>5. sent'.named = {[pg |-> x, val |-> Value(x)] : x \in body.named}
  BY <1>2, <1>3 DEF Scope
<1>6. call.bad \cap Named(Elems(body.ins)) = {}
  BY <1>2 DEF Scope
<1>7. Package' /\ Bodies' = Bodies /\ Consts' = Consts
  BY <1>1, PackageStands DEF IInv
<1>8. Runs'
  BY <1>1, <1>7 DEF IInv, Runs, Running
<1>9. sent'.conn # None
  BY <1>1, <1>3, BodyFields DEF IInv, Runs, RunsQuery, Running
<1>10. Sent'
  BY <1>1, <1>4, <1>5, <1>6, <1>9 DEF Sent
<1> QED BY <1>1, <1>7, <1>8, <1>10 DEF IInv, Args, DispatchesToKey, Places, Running

(* Rows that are opened or read leave what was sent alone.                  *)
LEMMA StreamIInv ==
  ASSUME IInv, pc \in {"answer", "rows"}, pc' = "rows", UNCHANGED <<package, call, body, sent>>
  PROVE  IInv'
<1>1. Package' /\ Bodies' = Bodies /\ Consts' = Consts
  BY PackageStands DEF IInv
<1>2. Runs'
  BY <1>1 DEF IInv, Runs, Running
<1>3. Sent'
  BY DEF IInv, Sent
<1> QED BY <1>1, <1>2, <1>3 DEF IInv, Args, DispatchesToKey, Places, Running

(* Every step keeps the invariant in a package that Go compiles.            *)
LEMMA NextIInv == ASSUME IInv, WellNamed, [Next]_vars PROVE IInv'
<1>1. CASE UNCHANGED vars
  <2>1. /\ UNCHANGED <<files, tfs, code, pc, call, body, env, todo, sent, result>>
    BY <1>1 DEF vars
  <2>2. Elems(tfs)' = Elems(tfs) /\ Elems(code)' = Elems(code)
    BY <2>1 DEF Elems
  <2>3. Bodies' = Bodies /\ Consts' = Consts
    BY <2>2 DEF Bodies, Consts, Emits
  <2>4. {Emitted(f) : f \in Elems(tfs)}' = {Emitted(f) : f \in Elems(tfs)}
    BY <2>1, <2>2 DEF Emitted
  <2>5. Package'
    BY <2>1, <2>2, <2>4 DEF IInv, Package
  <2>6. Runs' /\ Args' /\ Sent'
    BY <2>1, <2>3 DEF IInv, Runs, Args, Sent
  <2>7. DispatchesToKey'
    BY <2>1, <2>3 DEF IInv, DispatchesToKey, StatementOf, Asked
  <2> QED BY <2>1, <2>5, <2>6, <2>7 DEF IInv
<1>2. CASE NextRow
  <2>1. pc = "rows" /\ UNCHANGED <<package, call, body, sent>>
    BY <1>2 DEF NextRow
  <2>2. pc' = "rows" \/ Return(0, TRUE)
    BY <1>2, <2>1 DEF NextRow
  <2> QED BY <2>1, <2>2, StreamIInv, ReturnIInv
<1>3. CASE Ends
  <2>1. UNCHANGED <<package, call, body, sent>> /\ pc \in {"answer", "rows"}
    BY <1>3 DEF Ends, Fails, Answers, RowsEnd, RowsBreak
  <2>2. pc' = "rows" \/ \E n, failed : Return(n, failed)
    BY <1>3 DEF Ends, Fails, Answers, RowsEnd, RowsBreak
  <2> QED BY <2>1, <2>2, StreamIInv, ReturnIInv
<1>4. CASE Finished
  BY <1>1, <1>4 DEF Finished
<1> QED BY <1>1, <1>2, <1>3, <1>4, TemplateIInv, EmitIInv, CallIInv, DispatchIInv,
           SubstituteIInv, SendIInv DEF Next

(* What the invariant says of what was sent is what the property asks.      *)
LEMMA IInvBinds == ASSUME IInv, WellNamed PROVE BindsCallersValues
<1> SUFFICES ASSUME pc = "answer" PROVE BindsCallersValues
  BY DEF BindsCallersValues
<1>1. PICK d \in Consts : d = Const(d.query) /\ body = Body(d.query)
  BY DEF IInv, Runs, RunsQuery, Running
<1>2. sent.text = Text(SQLVarName(d.query), {})
  BY <1>1, BodyFields DEF IInv, Sent
<1>3. StatementOf(sent.text) = d.query /\ sent.text.holes = {}
  BY <1>1, <1>2, StatementIsQuery DEF Whole, Text
<1>4. body.named = {in.pg : in \in {x \in Elems(d.query.ins) : ~IsIdentifier(x)}}
  BY <1>1, BodyFields DEF ParamNames
<1>5. call.bad \cap {in.pg : in \in Elems(d.query.ins)} = {}
  BY <1>1, BodyFields DEF IInv, Sent, Named
<1>6. sent.named = {[pg |-> x, val |-> Value(x)] : x \in body.named}
  BY DEF IInv, Sent
<1> QED BY <1>3, <1>4, <1>5, <1>6 DEF BindsCallersValues

(* In a package that Go compiles, a dispatcher that returns has run the     *)
(* statement of the sort key and direction asked for, unless it does not    *)
(* know the key or an identifier of that statement is bad: whatever the     *)
(* keys are, a case applies, and the first that does is the right one.      *)
THEOREM AlwaysDispatchesToKey == Spec /\ []WellNamed => []DispatchesToKey
<1>1. Init => IInv
  BY InitIInv
<1>2. IInv /\ WellNamed /\ [Next]_vars => IInv'
  BY NextIInv
<1>3. IInv => DispatchesToKey
  BY DEF IInv
<1> QED BY <1>1, <1>2, <1>3, PTL DEF Spec

(* In a package that Go compiles and in which no inlined parameter beside   *)
(* an identifier is called sql, every statement is sent with the caller's   *)
(* value for each of its parameters, and never with a bad identifier.       *)
THEOREM AlwaysBindsCallersValues == Spec /\ []WellNamed => []BindsCallersValues
<1>1. Init => IInv
  BY InitIInv
<1>2. IInv /\ WellNamed /\ [Next]_vars => IInv'
  BY NextIInv
<1>3. IInv /\ WellNamed => BindsCallersValues
  BY IInvBinds
<1> QED BY <1>1, <1>2, <1>3, PTL DEF Spec

-----------------------------------------------------------------------------
(* The package as a whole, whatever its names are.  Each file is emitted    *)
(* with the methods and the imports of a package that is sorted only after  *)
(* they were chosen, so what is chosen may not depend on the order; one     *)
(* file is the leader; and when a method can be called all are emitted.     *)
ReturnsRows == {"Query", "QueryRow"}
ImportsOK(f, fs) ==
  f.imports \cap {"clickhouse", "driver"} =
    (IF NeedsClickHouseImport(f) THEN {"clickhouse"} ELSE {})
    \cup (IF f.isLeader /\ ConnMethodsOf(fs) \cap ReturnsRows # {} THEN {"driver"} ELSE {})
Layout ==
  /\ pc \in Places /\ Package
  /\ \A k \in DOMAIN code : k \in DOMAIN tfs /\ code[k] = Emitted(tfs[k])
  /\ \A f \in Elems(tfs) : ImportsOK(f, tfs)
  /\ pc \notin {"template", "failed"} => \E f \in Elems(tfs) : f.isLeader
  /\ Whole => Len(code) = Len(tfs)

(* No file, no emitted file.                                                *)
LEMMA InitLayout == ASSUME Init PROVE Layout
<1>1. tfs = <<>> /\ code = <<>> /\ pc = "template"
  BY DEF Init
<1>2. Elems(tfs) = {} /\ DOMAIN code = {}
  BY <1>1 DEF Elems
<1>3. Package
  BY InitIInv DEF IInv
<1> QED BY <1>1, <1>2, <1>3 DEF Layout, Places, Running, Whole

(* The first file with the least path is the leader.                        *)
LEMMA LeaderExists ==
  ASSUME files \in Packages
  PROVE  \E k \in DOMAIN files : IsLeader(k)
<1>1. files \in Seq(File) /\ files # <<>>
  BY ChCodegenAssumption
<1> DEFINE T == {files[k].path : k \in DOMAIN files}
<1>2. T \in SUBSET Nat /\ T # {}
  <2>1. \A k \in DOMAIN files : files[k] \in File
    BY <1>1
  <2>2. \A f \in File : f.path \in Nat
    BY DEF File
  <2>3. 1 \in DOMAIN files
    BY <1>1
  <2> QED BY <2>1, <2>2, <2>3
<1>3. PICK n \in T : \A m \in T : n <= m
  <2> HIDE DEF T
  <2> QED BY <1>2, LeastNat
<1> DEFINE K == {k \in DOMAIN files : files[k].path = n}
<1>4. K \in SUBSET Nat /\ K # {}
  BY <1>1, <1>3
<1>5. PICK k \in K : \A j \in K : k <= j
  <2> HIDE DEF K
  <2> QED BY <1>4, LeastNat
<1>6. ASSUME NEW j \in DOMAIN files
      PROVE  files[k].path < files[j].path \/ (files[k].path = files[j].path /\ k <= j)
  <2>1. n \in Nat /\ files[j].path \in Nat /\ n <= files[j].path /\ files[k].path = n
    BY <1>2, <1>3, <1>5
  <2>2. CASE files[j].path = n
    BY <1>5, <2>1, <2>2
  <2>3. CASE files[j].path # n
    BY <2>1, <2>3
  <2> QED BY <2>2, <2>3
<1>7. IsLeader(k)
  BY <1>6 DEF IsLeader
<1> QED BY <1>5, <1>7

(* The imports of a file are chosen from the queries of all files, which    *)
(* sorting leaves as they are.                                              *)
LEMMA TemplateLayout == ASSUME Layout, TemplateAll PROVE Layout'
<1>1. /\ Package' /\ files' = files /\ files \in Packages /\ code' = <<>>
      /\ \/ pc' = "failed" /\ tfs' = tfs
         \/ pc' = "emit" /\ tfs' \in Sorted(Prepared)
  BY TemplatePackage DEF Layout
<1>2. DOMAIN code' = {}
  BY <1>1
<1>3. CASE pc' = "failed" /\ tfs' = tfs
  <2>1. \A f \in Elems(tfs') : ImportsOK(f, tfs')
    BY <1>3 DEF Layout
  <2> QED BY <1>1, <1>2, <1>3, <2>1 DEF Layout, Places, Running, Whole
<1>4. CASE pc' = "emit" /\ tfs' \in Sorted(Prepared)
  <2>1. Elems(tfs') = {Filled(k) : k \in DOMAIN files}
    BY <1>1, <1>4, SortedFiles
  <2>2. DOMAIN Templates = DOMAIN files
    BY DEF Templates
  <2>3. PackageQueries(tfs') = PackageQueries(Templates)
    <3>1. PackageQueries(tfs') = UNION {AllQueries(f) : f \in Elems(tfs')}
      BY DEF PackageQueries, Elems
    <3>2. \A k \in DOMAIN files : AllQueries(Filled(k)) = AllQueries(Templates[k])
      BY <1>1, FilledFields DEF AllQueries
    <3>3. PackageQueries(Templates) = UNION {AllQueries(Templates[k]) : k \in DOMAIN files}
      BY <2>2 DEF PackageQueries
    <3> QED BY <2>1, <3>1, <3>2, <3>3
  <2>4. ConnMethodsOf(tfs') = ConnMethodsOf(Templates)
    BY <2>3 DEF ConnMethodsOf
  <2>5. ASSUME NEW f \in Elems(tfs') PROVE ImportsOK(f, tfs')
    <3>1. PICK k \in DOMAIN files : f = Filled(k)
      BY <2>1
    <3>2. /\ f.imports = Imports(Templates, Templates[k])
          /\ f.isLeader = Templates[k].isLeader /\ f.queries = Templates[k].queries
          /\ Templates[k].imports = {"context", "fmt", "clickhouse", "driver"}
      BY <1>1, <3>1, FilledFields
    <3>3. NeedsClickHouseImport(f) = NeedsClickHouseImport(Templates[k])
      BY <3>2 DEF NeedsClickHouseImport, AllQueries
    <3> QED BY <2>4, <3>2, <3>3 DEF ImportsOK, Imports, ReturnsRows
  <2>6. \E f \in Elems(tfs') : f.isLeader
    <3>1. PICK k \in DOMAIN files : IsLeader(k)
      BY <1>1, LeaderExists
    <3>2. Filled(k).isLeader
      BY <1>1, <3>1, FilledFields
    <3> QED BY <2>1, <3>2
  <2> QED BY <1>1, <1>2, <1>4, <2>5, <2>6 DEF Layout, Places, Running, Whole
<1> QED BY <1>1, <1>3, <1>4

(* The next file is emitted at its place; after the last one, all are.      *)
LEMMA EmitLayout == ASSUME Layout, EmitQueryFile PROVE Layout'
<1>1. /\ Package' /\ pc = "emit" /\ tfs' = tfs /\ Elems(tfs)' = Elems(tfs)
      /\ \A f \in Elems(tfs) : Emitted(f)' = Emitted(f)
      /\ \/ pc' = "failed" /\ code' = code
         \/ /\ code' = Append(code, Emitted(tfs[Len(code) + 1]))
            /\ pc' = IF Len(code) + 1 = Len(tfs) THEN "ready" ELSE "emit"
  BY EmitPackage DEF Layout
<1>2. \A k \in DOMAIN tfs : tfs[k] \in Elems(tfs) /\ Emitted(tfs[k])' = Emitted(tfs[k])
  BY <1>1 DEF Elems, Emitted
<1>3. \A f \in Elems(tfs)' : ImportsOK(f, tfs')
  BY <1>1 DEF Layout
<1>4. \E f \in Elems(tfs)' : f.isLeader
  BY <1>1 DEF Layout
<1>5. CASE pc' = "failed" /\ code' = code
  <2>1. \A k \in DOMAIN code' : k \in DOMAIN tfs' /\ code'[k] = Emitted(tfs[k])'
    BY <1>1, <1>2, <1>5 DEF Layout
  <2> QED BY <1>1, <1>3, <1>4, <1>5, <2>1 DEF Layout, Places, Running, Whole
<1>6. CASE /\ code' = Append(code, Emitted(tfs[Len(code) + 1]))
           /\ pc' = IF Len(code) + 1 = Len(tfs) THEN "ready" ELSE "emit"
  <2>1. /\ Len(code) \in Nat /\ Len(tfs) \in Nat /\ Len(code) + 1 \in DOMAIN tfs
        /\ code \in Seq({Emitted(f) : f \in Elems(tfs)})
    BY <1>1 DEF Layout, Package
  <2>2. /\ Len(code') = Len(code) + 1 /\ DOMAIN code' = DOMAIN code \cup {Len(code) + 1}
        /\ code'[Len(code) + 1] = Emitted(tfs[Len(code) + 1])
        /\ \A k \in DOMAIN code : code'[k] = code[k]
    BY <1>2, <1>6, <2>1
  <2>3. \A k \in DOMAIN code' : k \in DOMAIN tfs' /\ code'[k] = Emitted(tfs[k])'
    BY <1>1, <1>2, <2>1, <2>2 DEF Layout
  <2>4. Whole' => Len(code') = Len(tfs')
    BY <1>1, <1>6, <2>2 DEF Whole
  <2> QED BY <1>1, <1>3, <1>4, <1>6, <2>3, <2>4 DEF Layout, Places, Running
<1> QED BY <1>1, <1>5, <1>6

(* Calls leave the package alone.                                           *)
LEMMA CallsLayout ==
  ASSUME Layout, UNCHANGED package,
         \/ pc' = pc
         \/ Whole /\ pc' \in Places \ {"template", "emit", "failed"}
  PROVE  Layout'
<1>1. UNCHANGED <<files, tfs, code>>
  BY DEF package
<1>2. Elems(tfs)' = Elems(tfs) /\ Elems(code)' = Elems(code)
  BY <1>1 DEF Elems
<1>3. {Emitted(f) : f \in Elems(tfs)}' = {Emitted(f) : f \in Elems(tfs)}
  BY <1>1, <1>2 DEF Emitted
<1>4. Package'
  BY <1>1, <1>2, <1>3 DEF Layout, Package, Whole
<1>5. \A k \in DOMAIN code' : k \in DOMAIN tfs' /\ code'[k] = Emitted(tfs[k])'
  BY <1>1 DEF Layout, Emitted
<1>6. \A f \in Elems(tfs)' : ImportsOK(f, tfs')
  BY <1>1, <1>2 DEF Layout
<1> QED BY <1>1, <1>2, <1>4, <1>5, <1>6 DEF Layout, Whole

(* Every step keeps the layout, without any hypothesis on the package.      *)
LEMMA NextLayout == ASSUME Layout, [Next]_vars PROVE Layout'
<1>1. CASE UNCHANGED vars
  BY <1>1, CallsLayout DEF vars, package
<1>2. CASE CallMethod \/ Dispatch
  <2>1. pc = "ready" /\ UNCHANGED package /\ (Return(0, TRUE) \/ \E b : Enter(b))
    BY <1>2 DEF CallMethod, Dispatch
  <2>2. pc' \in {"send", "substitute", "returned"}
    BY <2>1, EnterPlace DEF Return
  <2> QED BY <2>1, <2>2, CallsLayout DEF Whole, Places, Running
<1>3. CASE SubstituteIdentifier \/ Send \/ NextRow \/ Ends
  <2>1. /\ pc \in Running /\ UNCHANGED package
        /\ pc' \in {"send", "substitute", "answer", "rows", "returned"}
    BY <1>3 DEF SubstituteIdentifier, Send, NextRow, Ends, Fails, Answers, RowsEnd, RowsBreak,
       Return, Running
  <2> QED BY <2>1, CallsLayout DEF Whole, Places, Running
<1>4. CASE Finished
  BY <1>1, <1>4 DEF Finished
<1> QED BY <1>1, <1>2, <1>3, <1>4, TemplateLayout, EmitLayout DEF Next

(* The template and chConnMethodsOf choose the same method for a query.     *)
LEMMA ConnMethodsAre ==
  ASSUME Package
  PROVE  ConnMethodsOf(tfs) = {ConnCall(q) : q \in PackageQueries(tfs)}
<1>1. ASSUME NEW q \in PackageQueries(tfs) PROVE q.kind \in {"one", "many", "exec"}
  <2>1. PICK k \in DOMAIN tfs : q \in AllQueries(tfs[k])
    BY DEF PackageQueries
  <2>2. tfs[k].queries \in Seq(Query)
    BY DEF Package, FileOK, Elems
  <2>3. q \in Query
    BY <2>1, <2>2 DEF AllQueries, Elems
  <2> QED BY <2>3 DEF Query
<1> QED BY <1>1 DEF ConnMethodsOf, ConnCall

(* In an emitted package, the bodies are those of all its queries.          *)
LEMMA BodiesOfQueries ==
  ASSUME Layout, Whole
  PROVE  Bodies = {Body(q) : q \in PackageQueries(tfs)}
<1>1. DOMAIN code = DOMAIN tfs
  BY DEF Layout, Package
<1>2. Elems(code) = {Emitted(tfs[k]) : k \in DOMAIN tfs}
  BY <1>1 DEF Layout, Elems
<1>3. Bodies = UNION {Emitted(tfs[k]).bodies : k \in DOMAIN tfs}
  BY <1>2, Emission
<1>4. Bodies = UNION {{Body(q) : q \in AllQueries(tfs[k])} : k \in DOMAIN tfs}
  BY <1>3, EmittedFields
<1> QED BY <1>4 DEF PackageQueries

(* genericConn has the methods that the emitted code calls, and no others:  *)
(* for every package, however its queries are spread over files, paginated  *)
(* ones included.                                                           *)
THEOREM ConnMethodsAlwaysExact == Spec => []ConnMethodsExact
<1>1. Init => Layout
  BY InitLayout
<1>2. Layout /\ [Next]_vars => Layout'
  BY NextLayout
<1>3. Layout => ConnMethodsExact
  <2> SUFFICES ASSUME Layout, Whole
               PROVE  {b.conn : b \in Bodies} = UNION {c.connMethods : c \in Elems(code)}
    BY DEF ConnMethodsExact, Emits
  <2>1. {b.conn : b \in Bodies} = ConnMethodsOf(tfs)
    <3>1. \A q : Body(q).conn = ConnCall(q)
      BY DEF Body
    <3>2. {b.conn : b \in Bodies} = {ConnCall(q) : q \in PackageQueries(tfs)}
      BY <3>1, BodiesOfQueries
    <3> QED BY <3>2, ConnMethodsAre DEF Layout
  <2>2. \A f : Emitted(f).connMethods = IF f.isLeader THEN ConnMethodsOf(tfs) ELSE {}
    BY DEF Emitted
  <2>3. DOMAIN code = DOMAIN tfs
    BY DEF Layout, Package
  <2>4. PICK k \in DOMAIN tfs : tfs[k].isLeader
    BY DEF Layout, Whole, Elems
  <2>5. code[k] \in Elems(code) /\ code[k].connMethods = ConnMethodsOf(tfs)
    BY <2>2, <2>3, <2>4 DEF Layout, Elems
  <2>6. ASSUME NEW c \in Elems(code) PROVE c.connMethods \subseteq ConnMethodsOf(tfs)
    <3>1. PICK j \in DOMAIN code : c = Emitted(tfs[j])
      BY DEF Layout, Elems
    <3> QED BY <2>2, <3>1
  <2> QED BY <2>1, <2>5, <2>6
<1> QED BY <1>1, <1>2, <1>3, PTL DEF Spec

(* A file imports clickhouse and driver exactly if its text names them: the *)
(* first if one of its own methods names a value, the second if it is the   *)
(* leader and some file of the package reads rows.                          *)
ClientImportsExact ==
  \A c \in Elems(code) :
    c.imports \cap {"clickhouse", "driver"} = NamedPackages(c) \ {"strings"}

(* Go refuses neither a missing nor an unused import of the client, for     *)
(* every package and also in a package whose emission fails half-way.       *)
THEOREM ClientImportsAlwaysExact == Spec => []ClientImportsExact
<1>1. Init => Layout
  BY InitLayout
<1>2. Layout /\ [Next]_vars => Layout'
  BY NextLayout
<1>3. Layout => ClientImportsExact
  <2> SUFFICES ASSUME Layout, NEW c \in Elems(code)
               PROVE  c.imports \cap {"clickhouse", "driver"} = NamedPackages(c) \ {"strings"}
    BY DEF ClientImportsExact
  <2>1. PICK f \in Elems(tfs) : c = Emitted(f)
    BY OfFile DEF Layout
  <2>2. /\ c.imports = f.imports /\ c.bodies = {Body(q) : q \in AllQueries(f)}
        /\ c.connMethods = IF f.isLeader THEN ConnMethodsOf(tfs) ELSE {}
    BY <2>1 DEF Emitted
  <2>3. (\E b \in c.bodies : b.named # {}) <=> NeedsClickHouseImport(f)
    <3>1. ASSUME NEW q
          PROVE  Body(q).named # {} <=> \E in \in Elems(q.ins) : ~IsIdentifier(in)
      <4>1. Body(q).named = ParamNames(q)
        BY BodyFields
      <4> QED BY <4>1 DEF ParamNames
    <3> QED BY <2>2, <3>1 DEF NeedsClickHouseImport
  <2>4. c.connMethods \cap ReturnsRows # {}
          <=> f.isLeader /\ ConnMethodsOf(tfs) \cap ReturnsRows # {}
    BY <2>2
  <2>5. ImportsOK(f, tfs)
    BY DEF Layout
  <2> QED BY <2>2, <2>3, <2>4, <2>5 DEF ImportsOK, NamedPackages, ReturnsRows
<1> QED BY <1>1, <1>2, <1>3, PTL DEF Spec
=============================================================================
