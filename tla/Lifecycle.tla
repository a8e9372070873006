------------------------------ MODULE Lifecycle ------------------------------
(***************************************************************************)
(* One call of pggen.Generate (generate.go) and everything it acquires: the *)
(* Docker container that dbdocker starts, the database connection, and the  *)
(* error it reports.  Every step that talks to Docker, to the database or   *)
(* to the file system may fail; the five-minute context of Generate may     *)
(* expire between any two steps; the container may exit by itself.          *)
(*                                                                          *)
(* A step is one blocking call.  The Docker daemon, the database drivers    *)
(* and Go's timers are external: they are modelled by the outcomes that     *)
(* generate.go and internal/dbdocker distinguish.                           *)
(***************************************************************************)
EXTENDS Naturals

CONSTANTS
  Languages,  \* values of GenerateOptions.Language that a caller may pass
  Dialects    \* values of GenerateOptions.Dialect, after the default

ASSUME LanguagesAssumption == Languages \subseteq {"", "go", "other"}
ASSUME DialectsAssumption  == Dialects \subseteq {"postgres", "clickhouse", "other"}

VARIABLES
  opts,        \* the GenerateOptions: language, dialect, external connection
  pc,          \* the blocking call Generate is about to make
  ctx,         \* the context.WithTimeout of Generate: "live" or "expired"
  container,   \* what the Docker daemon has for this run
  containerID, \* is Client.containerID set
  late,        \* has the deadline of waitIsReady fired
  conn,        \* the connection handed to the Inferrer
  schema,      \* how often the schema files were run on the database
  out,         \* the generated files on disk
  stopFor,     \* on whose behalf Client.Stop runs
  closeErr,    \* did conn.Close fail inside cleanup
  err,         \* mErr: the causes joined into the returned error, {} is nil
  logs,        \* are the container's logs part of the returned error
  cause,       \* history: the first failure, "none" if there was none
  dockerFault  \* history: a stop or remove failed although its context was live

vars == <<opts, pc, ctx, container, containerID, late, conn, schema, out,
          stopFor, closeErr, err, logs, cause, dockerFault>>

Locations == {"check", "build", "create", "start", "wait", "try", "startLogs",
              "connString", "connect", "ping", "schema", "parse", "enrich",
              "codegen", "close", "stop", "remove", "returned"}
Causes == {"options", "dialect", "build", "create", "start", "ready", "connString",
           "connect", "ping", "schema", "parse", "codegen", "logs", "cleanup"}
Containers == {"none", "created", "running", "exited", "stopped", "removed"}

(* GenerateOptions as far as Generate looks at it: the language, are there  *)
(* query files, schema files and an output directory, the dialect, is there *)
(* a connection string.                                                     *)
Options == [lang : Languages, files : BOOLEAN, schemas : BOOLEAN, outDir : BOOLEAN,
            dialect : Dialects, external : BOOLEAN]

Postgres == opts.dialect = "postgres"
External == opts.external      \* opts.ConnString # ""

-----------------------------------------------------------------------------
Init ==
  /\ opts \in Options
  /\ pc = "check" /\ ctx = "live"
  /\ container = "none" /\ containerID = FALSE /\ late = FALSE
  /\ conn = "none" /\ schema = 0 /\ out = "none"
  /\ stopFor = "nobody" /\ closeErr = FALSE
  /\ err = {} /\ logs = FALSE /\ cause = "none" /\ dockerFault = FALSE

(* Go on to another call, or leave with an error that joins `why` to mErr. *)
Goto(from, to) == pc = from /\ pc' = to /\ UNCHANGED <<err, cause>>

(* Mutant of Fail: a later error replaces mErr instead of being joined.     *)
FailReplaces(from, why, to) ==
  /\ pc = from /\ pc' = to
  /\ err' = {why}
  /\ cause' = IF cause = "none" THEN why ELSE cause

Fail(from, why, to) ==
  /\ pc = from /\ pc' = to
  /\ err' = err \cup {why}
  /\ cause' = IF cause = "none" THEN why ELSE cause

UnchangedDocker == UNCHANGED <<container, containerID, late, dockerFault>>
UnchangedDb     == UNCHANGED <<conn, schema, out>>
UnchangedStop   == UNCHANGED <<stopFor, closeErr>>

-----------------------------------------------------------------------------
(* Generate: preconditions, then connectInferrer picks the dialect.  With a *)
(* connection string the Docker container is skipped.                       *)
CheckOptions ==
  /\ \/ /\ opts.lang = "" \/ ~opts.files \/ ~opts.outDir
        /\ Fail("check", "options", "returned")
     \/ /\ opts.lang # "" /\ opts.files /\ opts.outDir
        /\ \/ /\ opts.dialect \notin {"postgres", "clickhouse"}
              /\ Fail("check", "dialect", "returned")
           \/ /\ opts.dialect \in {"postgres", "clickhouse"}
              /\ Goto("check", IF External THEN "connect" ELSE "build")
  /\ UnchangedDocker /\ UnchangedDb /\ UnchangedStop /\ UNCHANGED <<opts, ctx, logs>>

(* dbdocker.Start, buildImage.  Nothing has to be undone yet.               *)
BuildImage ==
  /\ \/ Goto("build", "create") /\ ctx = "live"
     \/ Fail("build", "build", "returned")
  /\ UnchangedDocker /\ UnchangedDb /\ UnchangedStop /\ UNCHANGED <<opts, ctx, logs>>

(* runContainer, first call: ContainerCreate.  The reply may be lost: the   *)
(* call fails and the daemon has the container nevertheless.                *)
ContainerCreate ==
  /\ \/ /\ Goto("create", "start") /\ ctx = "live"
        /\ container' = "created"
     \/ /\ Fail("create", "create", "returned")
        /\ container' \in {"none", "created"}
  /\ UnchangedDb /\ UnchangedStop
  /\ UNCHANGED <<opts, ctx, containerID, late, logs, dockerFault>>

(* runContainer, second call: ContainerStart.  Only its success returns the *)
(* ID, so on failure Client.containerID stays empty and no defer is set.    *)
ContainerStart ==
  /\ \/ /\ Goto("start", "wait") /\ ctx = "live"
        /\ container' = "running" /\ containerID' = TRUE
     \/ /\ Fail("start", "start", "returned")
        /\ container' \in {"created", "running"} /\ UNCHANGED containerID
  /\ UnchangedDb /\ UnchangedStop /\ UNCHANGED <<opts, ctx, late, logs, dockerFault>>

(* Mutant of WaitSelect: the loop only watches the context.                 *)
WaitSelectNoDeadline ==
  /\ \/ Goto("wait", "try") /\ ctx = "live"
     \/ Fail("wait", "ready", "startLogs") /\ ctx = "expired"
  /\ UnchangedDocker /\ UnchangedDb /\ UnchangedStop /\ UNCHANGED <<opts, ctx, logs>>

(* waitIsReady: the select at the head of the loop, then one attempt.  A    *)
(* fired deadline or an expired context always wins over the default case.  *)
WaitSelect ==
  /\ \/ Goto("wait", "try") /\ ~late /\ ctx = "live"
     \/ Fail("wait", "ready", "startLogs") /\ (late \/ ctx = "expired")
  /\ UnchangedDocker /\ UnchangedDb /\ UnchangedStop /\ UNCHANGED <<opts, ctx, logs>>

(* What an attempt sees is only whether the database answers.  That it does *)
(* not answer before its init scripts ran is assumed of the images, as      *)
(* waitIsReady does: ClickHouse may accept a connection earlier, which is   *)
(* why its attempt is a query.                                              *)
(* Mutant: the database answers while its scripts still run.                *)
ReachableEarly == container = "running"
Reachable == container = "running" /\ schema = 1

WaitTry ==
  /\ \/ Goto("try", "connString") /\ ctx = "live" /\ Reachable
     \/ Goto("try", "wait")
  /\ UnchangedDocker /\ UnchangedDb /\ UnchangedStop /\ UNCHANGED <<opts, ctx, logs>>

(* The deferred log capture of dbdocker.Start; GetContainerLogs has a       *)
(* context of its own.  Then the deferred Stop, with a fresh context.       *)
StartLogs ==
  /\ \/ Goto("startLogs", "stop") /\ container # "removed" /\ logs' = TRUE
     \/ Fail("startLogs", "logs", "stop") /\ UNCHANGED logs
  /\ stopFor' = "start"
  /\ UnchangedDocker /\ UnchangedDb /\ UNCHANGED <<opts, ctx, closeErr>>

(* Back in connectPostgres or connectClickHouse: the connection string of   *)
(* the client, and for ClickHouse its DSN.                                  *)
ConnString ==
  /\ \/ Goto("connString", "connect") /\ UNCHANGED stopFor
     \/ Fail("connString", "connString", "stop") /\ stopFor' = "connect"
  /\ UnchangedDocker /\ UnchangedDb /\ UNCHANGED <<opts, ctx, closeErr, logs>>

(* Mutants of Connect: the schema files are loaded over every connection;   *)
(* over none.                                                               *)
ConnectTo(next) ==
  /\ \/ /\ Goto("connect", IF ~Postgres THEN "ping" ELSE next)
        /\ Postgres => ctx = "live" /\ container \in {"none", "running"}
        /\ conn' = "open" /\ UNCHANGED stopFor
     \/ Fail("connect", "connect", "stop") /\ stopFor' = "connect" /\ UNCHANGED conn
  /\ UnchangedDocker /\ UNCHANGED <<opts, ctx, schema, out, closeErr, logs>>
ConnectAlwaysLoads == ConnectTo("schema")
ConnectNeverLoads  == ConnectTo("parse")

(* pgx.Connect dials; clickhouse.Open does not.                             *)
Connect ==
  /\ \/ /\ Goto("connect", IF ~Postgres THEN "ping" ELSE IF External THEN "schema" ELSE "parse")
        /\ Postgres => ctx = "live" /\ container \in {"none", "running"}
        /\ conn' = "open" /\ UNCHANGED stopFor
     \/ /\ Fail("connect", "connect", "stop")
        /\ stopFor' = "connect" /\ UNCHANGED conn
  /\ UnchangedDocker /\ UNCHANGED <<opts, ctx, schema, out, closeErr, logs>>

(* Mutant of Ping: the error is returned without running cleanup.           *)
PingNoCleanup ==
  /\ \/ /\ Goto("ping", IF External THEN "schema" ELSE "parse")
        /\ ctx = "live" /\ container \in {"none", "running"}
     \/ Fail("ping", "ping", "returned")
  /\ UnchangedDocker /\ UnchangedDb /\ UnchangedStop /\ UNCHANGED <<opts, ctx, logs>>

(* connectClickHouse only: the first dial, its failure runs cleanup.        *)
Ping ==
  /\ \/ /\ Goto("ping", IF External THEN "schema" ELSE "parse")
        /\ ctx = "live" /\ container \in {"none", "running"} /\ UNCHANGED stopFor
     \/ Fail("ping", "ping", "close") /\ stopFor' = "discard"
  /\ UnchangedDocker /\ UnchangedDb /\ UNCHANGED <<opts, ctx, closeErr, logs>>

(* loadPostgresSchemas, loadClickHouseSchemas: only over a connection the   *)
(* caller gave; the container ran the files as init scripts.  Without files *)
(* there is nothing to fail.                                                *)
LoadSchemas ==
  /\ \/ /\ Goto("schema", "parse") /\ (opts.schemas => ctx = "live")
        /\ schema' = schema + 1 /\ UNCHANGED stopFor
     \/ /\ Fail("schema", "schema", "close") /\ opts.schemas
        /\ stopFor' = "discard" /\ UNCHANGED schema
  /\ UnchangedDocker /\ UNCHANGED <<opts, ctx, conn, out, closeErr, logs>>

-----------------------------------------------------------------------------
(* parseQueryFiles: parse, check and infer every query.  Its queries run    *)
(* under contexts of their own.  A failure passes through errEnricher.      *)
ParseQueryFiles ==
  /\ stopFor' = "capture"      \* the deferred errs.Capture is registered
  /\ \/ Goto("parse", "codegen")
     \/ Fail("parse", "parse", "enrich")
  /\ UnchangedDocker /\ UnchangedDb /\ UNCHANGED <<opts, ctx, closeErr, logs>>

(* errEnricher: the container's logs for a Postgres container, else the     *)
(* identity.  Then the error is returned, through cleanup once it is set.   *)
ErrEnricher ==
  LET next == IF stopFor = "capture" THEN "close" ELSE "returned"
  IN /\ \/ Goto("enrich", next) /\ ~(Postgres /\ containerID) /\ UNCHANGED logs
        \/ /\ Goto("enrich", next) /\ Postgres /\ containerID
           /\ container # "removed" /\ logs' = TRUE
        \/ Fail("enrich", "logs", next) /\ Postgres /\ containerID /\ UNCHANGED logs
     /\ UnchangedDocker /\ UnchangedDb /\ UnchangedStop /\ UNCHANGED <<opts, ctx>>

(* golang.Generate, or an unsupported language.  Files are written one by   *)
(* one, so a failure may leave some of them.                                *)
Codegen ==
  /\ \/ Goto("codegen", "close") /\ opts.lang = "go" /\ out' = "complete"
     \/ /\ Fail("codegen", "codegen", "close")
        /\ out' \in IF opts.lang = "go" THEN {"none", "partial"} ELSE {"none"}
  /\ UnchangedDocker /\ UnchangedStop /\ UNCHANGED <<opts, ctx, conn, schema, logs>>

-----------------------------------------------------------------------------
(* Mutant of CloseConn: cleanup stops the container and forgets Close.      *)
CloseConnForgotten ==
  /\ pc = "close" /\ pc' = "stop" /\ closeErr' = FALSE
  /\ UnchangedDocker /\ UnchangedDb /\ UNCHANGED <<opts, ctx, stopFor, err, logs, cause>>

(* cleanup: close the connection whatever the outcome, then stop.           *)
CloseConn ==
  /\ pc = "close" /\ pc' = "stop" /\ conn' = "closed" /\ closeErr' \in BOOLEAN
  /\ UnchangedDocker /\ UNCHANGED <<opts, ctx, schema, out, stopFor, err, logs, cause>>

(* Mutant of AfterStop: the deferred cleanup drops its error.               *)
AfterStopDropped(failed) ==
  /\ UNCHANGED <<err, cause>>
  /\ pc' = IF stopFor = "connect" /\ Postgres THEN "enrich" ELSE "returned"

(* What the caller of Client.Stop does with its result: Start logs it,      *)
(* `_ = stop()` and `_ = cleanup()` drop it, errs.Capture joins it.  A      *)
(* failed connect of connectPostgres enriches its error only now.           *)
AfterStop(failed) ==
  /\ IF stopFor = "capture" /\ (failed \/ closeErr)
       THEN /\ err' = err \cup {"cleanup"}
            /\ cause' = IF cause = "none" THEN "cleanup" ELSE cause
       ELSE UNCHANGED <<err, cause>>
  /\ pc' = IF stopFor = "connect" /\ Postgres THEN "enrich" ELSE "returned"

(* Mutant of StopCtxLive: Start's defer reuses Generate's context.          *)
StopCtxShared == ctx = "live"

(* The context Stop is called with: Start's defer makes a fresh one.        *)
StopCtxLive == stopFor = "start" \/ ctx = "live"
StopFails   == dockerFault' = (dockerFault \/ StopCtxLive)

(* Client.Stop: a no-op without a container; the container is only removed  *)
(* once it was stopped.                                                     *)
ContainerStop ==
  /\ pc = "stop"
  /\ \/ ~containerID /\ AfterStop(FALSE) /\ UNCHANGED <<container, dockerFault>>
     \/ /\ containerID /\ StopCtxLive
        /\ container' = "stopped" /\ pc' = "remove" /\ UNCHANGED <<err, cause, dockerFault>>
     \/ /\ containerID /\ StopFails /\ AfterStop(TRUE)
        /\ container' \in {container, "stopped"}
  /\ UnchangedDb /\ UnchangedStop /\ UNCHANGED <<opts, ctx, containerID, late, logs>>

ContainerRemove ==
  /\ pc = "remove"
  /\ \/ StopCtxLive /\ container' = "removed" /\ AfterStop(FALSE) /\ UNCHANGED dockerFault
     \/ StopFails /\ AfterStop(TRUE) /\ container' \in {container, "removed"}
  /\ UnchangedDb /\ UnchangedStop /\ UNCHANGED <<opts, ctx, containerID, late, logs>>

-----------------------------------------------------------------------------
(* The environment: Generate's context expires, the deadline of waitIsReady *)
(* fires, the container runs its init scripts, and it exits (a failing init *)
(* script, an OOM kill).                                                    *)
CtxExpires ==
  /\ pc \notin {"check", "returned"} /\ ctx = "live" /\ ctx' = "expired"
  /\ UnchangedDocker /\ UnchangedDb /\ UnchangedStop /\ UNCHANGED <<opts, pc, err, logs, cause>>

ReadyDeadline ==
  /\ pc \in {"wait", "try"} /\ ~late /\ late' = TRUE
  /\ UnchangedDb /\ UnchangedStop
  /\ UNCHANGED <<opts, pc, ctx, container, containerID, err, logs, cause, dockerFault>>

InitScriptsRun ==
  /\ pc # "returned" /\ container = "running" /\ schema = 0 /\ schema' = schema + 1
  /\ UnchangedDocker /\ UnchangedStop
  /\ UNCHANGED <<opts, pc, ctx, conn, out, err, logs, cause>>

ContainerExits ==
  /\ pc # "returned" /\ container = "running" /\ container' = "exited"
  /\ UnchangedDb /\ UnchangedStop
  /\ UNCHANGED <<opts, pc, ctx, containerID, late, err, logs, cause, dockerFault>>

Generate ==
  \/ CheckOptions \/ BuildImage \/ ContainerCreate \/ ContainerStart
  \/ WaitSelect \/ WaitTry \/ StartLogs \/ ConnString \/ Connect \/ Ping
  \/ LoadSchemas \/ ParseQueryFiles \/ ErrEnricher \/ Codegen
  \/ CloseConn \/ ContainerStop \/ ContainerRemove

Environment == CtxExpires \/ ReadyDeadline \/ InitScriptsRun \/ ContainerExits

(* Generate returned: nothing is left to do.                                *)
Returned == pc = "returned" /\ UNCHANGED vars

Next == Generate \/ Environment \/ Returned

Spec == Init /\ [][Next]_vars

(* Generate runs on a goroutine of its own and each of its calls is bounded *)
(* by a timeout, so it keeps moving; a timer that was set does fire.        *)
Fairness == WF_vars(Generate) /\ WF_vars(ReadyDeadline)
FairSpec == Spec /\ Fairness

-----------------------------------------------------------------------------
(* The state has its shape; the schema files run at most once per database. *)
TypeOK ==
  /\ opts \in Options
  /\ pc \in Locations /\ ctx \in {"live", "expired"}
  /\ container \in Containers /\ containerID \in BOOLEAN /\ late \in BOOLEAN
  /\ conn \in {"none", "open", "closed"} /\ schema \in 0..1
  /\ out \in {"none", "partial", "complete"}
  /\ stopFor \in {"nobody", "start", "connect", "discard", "capture"}
  /\ closeErr \in BOOLEAN
  /\ err \subseteq Causes /\ logs \in BOOLEAN
  /\ cause \in Causes \cup {"none"} /\ dockerFault \in BOOLEAN

Gone == container \in {"none", "removed"}

(* A container that never became ready is removed even when the reason is   *)
(* the expired context: dbdocker.Start stops it under a fresh one.          *)
StartFailureCleansUp ==
  pc = "returned" /\ stopFor = "start" => Gone \/ dockerFault

(* Whatever path Generate leaves by, the connection is closed, and there    *)
(* are three ways only in which a container stays behind: runContainer      *)
(* failed and dropped the ID, so that nobody can stop it; stopping it       *)
(* failed; or Generate's context had expired when it was to be stopped.  No *)
(* return skips the cleanup.                                                *)
IDDropped == cause \in {"create", "start"}
NothingLeftBehind ==
  /\ pc = "returned" => conn # "open" /\ (Gone \/ IDDropped \/ dockerFault \/ ctx = "expired")
  /\ StartFailureCleansUp

(* A nil error means all of it: every file written, the connection closed   *)
(* and no container left, whatever failed or expired on the way.            *)
SuccessIsClean ==
  pc = "returned" /\ err = {} =>
    out = "complete" /\ conn = "closed" /\ container = IF External THEN "none" ELSE "removed"

(* The failure that made Generate give up is in the error it returns, even  *)
(* when log capture or cleanup fail afterwards; without one there is none.  *)
FirstFailureReported ==
  pc = "returned" => IF cause = "none" THEN err = {} ELSE cause \in err

(* Queries are inferred over an open connection on a database on which the  *)
(* schema files ran exactly once, by the image or by Generate.              *)
SchemaBeforeInference ==
  pc \in {"parse", "codegen"} => conn = "open" /\ schema = 1

(* Generate never takes the container away under an open connection.        *)
CloseBeforeStop ==
  [][container' \in {"stopped", "removed"} /\ container' # container => conn # "open"]_vars

(* Generate returns: no retry loop, timeout or failed cleanup keeps it.     *)
Terminates == <>(pc = "returned")

(* generate.go on connectPostgres: "every failure below has to run it       *)
(* rather than leave either behind".  With Docker itself at no fault, a     *)
(* failing step of connectPostgres leaves neither behind.                   *)
FailureLeavesNeither ==
  pc = "returned" /\ Postgres /\ cause \in {"connString", "connect", "schema"} /\ ~dockerFault
    => conn # "open" /\ Gone

(* dbdocker.go on the order of its defers: "stopping the container also     *)
(* removes it, and its logs with it".  The logs of a container are asked    *)
(* for while Docker still has them.                                         *)
LogsBeforeRemoval ==
  pc \in {"startLogs", "enrich"} /\ containerID => container # "removed"
=============================================================================
