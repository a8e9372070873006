---------------------------- MODULE Lifecycle_proofs ----------------------------
(***************************************************************************)
(* Generate gives back what it acquired, whatever fails, expires or exits   *)
(* on the way.  IInv says, for every blocking call Generate can be at, what *)
(* it holds there: the connection, the container, the schema and the error. *)
(***************************************************************************)
EXTENDS Lifecycle, TLAPS

(* The calls made before the connection exists, in order.                   *)
Acquiring == {"check", "build", "create", "start", "wait", "try", "startLogs",
              "connString", "connect"}

(* The connection is open from connect to close, in between whatever the    *)
(* path: over errEnricher only when the deferred cleanup is still to come.  *)
ConnHeld ==
  /\ pc \in Acquiring => conn = "none"
  /\ pc \in {"ping", "schema", "parse", "codegen", "close"} => conn = "open"
  /\ pc = "enrich" => conn = IF stopFor = "capture" THEN "open" ELSE "none"
  /\ pc \in {"stop", "remove", "returned"} =>
       conn = IF stopFor \in {"discard", "capture"} THEN "closed" ELSE "none"

(* Who asked for the stop, at every call from which it can be reached.      *)
StopAsked ==
  /\ pc \in (Acquiring \cup {"ping", "schema", "parse"}) => stopFor = "nobody"
  /\ pc = "codegen" => stopFor = "capture"
  /\ pc = "close" => stopFor \in {"discard", "capture"}
  /\ pc = "enrich" => stopFor \in {"connect", "capture"}
  /\ pc \in {"stop", "remove"} => stopFor # "nobody"

(* What Docker has for this run.  From ContainerStart to Stop the client    *)
(* knows the container, unless the caller gave a connection and there is    *)
(* none; after Stop it is gone, or Docker failed, or the shared context of  *)
(* Stop had expired, which Start's own never does.  Where runContainer drops *)
(* the ID it is the first failure, and Generate returns at once.            *)
ContainerHeld ==
  /\ External => container = "none" /\ ~containerID
  /\ pc \in {"build", "create", "start", "wait", "try", "startLogs", "connString"} => ~External
  /\ pc \in {"check", "build", "create"} => container = "none" /\ ~containerID
  /\ pc = "start" => container = "created" /\ ~containerID
  /\ \/ pc \in {"wait", "try", "startLogs", "connString", "connect", "ping", "schema",
                "parse", "codegen", "close", "stop"}
     \/ pc = "enrich" /\ stopFor = "capture"
     => External \/ (containerID /\ container \in {"running", "exited"})
  /\ pc = "remove" => containerID /\ container = "stopped"
  /\ pc = "returned" \/ (pc = "enrich" /\ stopFor = "connect") =>
       Gone \/ IDDropped \/ dockerFault \/ (ctx = "expired" /\ stopFor # "start")
  /\ pc \in {"check", "build", "create", "start"} => cause = "none"
  /\ IDDropped => pc = "returned" /\ stopFor = "nobody"

(* How often the schema files ran: once by the image before connString, or  *)
(* once over the caller's connection before parse.                          *)
SchemaRun ==
  /\ External /\ pc \notin {"parse", "codegen", "enrich", "close", "stop", "returned"} => schema = 0
  /\ pc = "connString" => schema = 1
  /\ pc \in {"connect", "ping"} => schema = IF External THEN 0 ELSE 1
  /\ pc = "schema" => External /\ schema = 0
  /\ pc \in {"parse", "codegen"} => schema = 1

(* mErr holds the first failure, if there was one.  On the way out an empty *)
(* error means that everything was written and only the captured cleanup    *)
(* is left; after it, that nothing is.                                      *)
ErrorKept ==
  /\ IF cause = "none" THEN err = {} ELSE cause \in err
  /\ pc \in {"startLogs", "enrich"} => err # {}
  /\ pc \in {"close", "stop", "remove", "returned"} /\ err = {} =>
       out = "complete" /\ stopFor = "capture"
  /\ pc = "returned" /\ err = {} =>
       container = IF External THEN "none" ELSE "removed"

IInv == TypeOK /\ ConnHeld /\ StopAsked /\ ContainerHeld /\ SchemaRun /\ ErrorKept

(* The two halves of TypeOK: how far Generate is and what it reports; and   *)
(* what it holds.                                                           *)
ControlOK ==
  /\ pc \in Locations /\ schema \in 0..1
  /\ err \subseteq Causes /\ cause \in Causes \cup {"none"}

HeldOK ==
  /\ opts \in Options /\ ctx \in {"live", "expired"}
  /\ container \in Containers /\ containerID \in BOOLEAN /\ late \in BOOLEAN
  /\ conn \in {"none", "open", "closed"}
  /\ out \in {"none", "partial", "complete"}
  /\ stopFor \in {"nobody", "start", "connect", "discard", "capture"}
  /\ closeErr \in BOOLEAN /\ logs \in BOOLEAN /\ dockerFault \in BOOLEAN

(* TypeOK is its two halves.                                                *)
LEMMA TypeHalves == TypeOK <=> ControlOK /\ HeldOK
BY DEF TypeOK, ControlOK, HeldOK

(* Generate is called with nothing acquired and no error.                   *)
LEMMA InitIInv == Init => IInv
<1> SUFFICES ASSUME Init PROVE IInv
  OBVIOUS
<1>1. ControlOK
  BY DEF Init, ControlOK, Locations, Causes
<1>2. HeldOK
  BY DEF Init, HeldOK, Containers
<1>3. ConnHeld /\ StopAsked /\ ContainerHeld /\ SchemaRun /\ ErrorKept
  BY DEF Init, ConnHeld, StopAsked, ContainerHeld, SchemaRun, ErrorKept, Acquiring, Gone, IDDropped
<1> QED BY <1>1, <1>2, <1>3, TypeHalves DEF IInv

(* Every call of Generate, whatever its outcome, and everything the         *)
(* environment does in between keeps the shape of the state.                *)
LEMMA NextTypeOK == IInv /\ [Next]_vars => TypeOK'
<1> SUFFICES ASSUME IInv, [Next]_vars PROVE ControlOK' /\ HeldOK'
  BY DEF TypeOK, ControlOK, HeldOK
<1>0. ControlOK /\ HeldOK /\ SchemaRun
  BY TypeHalves DEF IInv
<1> USE <1>0 DEF ControlOK, HeldOK, Locations, Causes, Containers,
                 UnchangedDocker, UnchangedDb, UnchangedStop
<1>1. CASE CheckOptions
  <2>1. ControlOK'
    BY <1>1 DEF CheckOptions, Goto, Fail
  <2>2. UNCHANGED <<opts, ctx, container, containerID, late, conn, out, stopFor, closeErr,
                    logs, dockerFault>>
    BY <1>1 DEF CheckOptions
  <2> QED BY <2>1, <2>2
<1>2. CASE BuildImage
  <2>1. ControlOK'
    BY <1>2 DEF BuildImage, Goto, Fail
  <2>2. HeldOK'
    BY <1>2 DEF BuildImage
  <2> QED BY <2>1, <2>2
<1>3. CASE ContainerCreate
  <2>1. ControlOK'
    BY <1>3 DEF ContainerCreate, Goto, Fail
  <2>2. HeldOK'
    BY <1>3 DEF ContainerCreate
  <2> QED BY <2>1, <2>2
<1>4. CASE ContainerStart
  <2>1. ControlOK'
    BY <1>4 DEF ContainerStart, Goto, Fail
  <2>2. UNCHANGED <<opts, ctx, late, conn, out, stopFor, closeErr, logs, dockerFault>>
    BY <1>4 DEF ContainerStart
  <2>3. container' \in Containers /\ containerID' \in BOOLEAN
    BY <1>4 DEF ContainerStart
  <2> QED BY <2>1, <2>2, <2>3
<1>5. CASE WaitSelect
  <2>1. ControlOK'
    BY <1>5 DEF WaitSelect, Goto, Fail
  <2>2. HeldOK'
    BY <1>5 DEF WaitSelect
  <2> QED BY <2>1, <2>2
<1>6. CASE WaitTry
  <2>1. ControlOK'
    BY <1>6 DEF WaitTry, Goto
  <2>2. HeldOK'
    BY <1>6 DEF WaitTry
  <2> QED BY <2>1, <2>2
<1>7. CASE StartLogs
  <2>1. ControlOK'
    BY <1>7 DEF StartLogs, Goto, Fail
  <2>2. HeldOK'
    BY <1>7 DEF StartLogs
  <2> QED BY <2>1, <2>2
<1>8. CASE ConnString
  <2>1. ControlOK'
    BY <1>8 DEF ConnString, Goto, Fail
  <2>2. HeldOK'
    BY <1>8 DEF ConnString
  <2> QED BY <2>1, <2>2
<1>9. CASE Connect
  <2>1. ControlOK'
    BY <1>9 DEF Connect, Goto, Fail, Postgres
  <2>2. HeldOK'
    BY <1>9 DEF Connect
  <2> QED BY <2>1, <2>2
<1>10. CASE Ping
  <2>1. ControlOK'
    BY <1>10 DEF Ping, Goto, Fail
  <2>2. HeldOK'
    BY <1>10 DEF Ping
  <2> QED BY <2>1, <2>2
<1>11. CASE LoadSchemas
  <2>1. ControlOK'
    <3>1. schema' \in 0..1
      BY <1>11 DEF LoadSchemas, Goto, Fail, SchemaRun
    <3>2. pc' \in Locations /\ err' \subseteq Causes /\ cause' \in Causes \cup {"none"}
      BY <1>11 DEF LoadSchemas, Goto, Fail
    <3> QED BY <3>1, <3>2
  <2>2. HeldOK'
    BY <1>11 DEF LoadSchemas
  <2> QED BY <2>1, <2>2
<1>12. CASE ParseQueryFiles
  <2>1. ControlOK'
    BY <1>12 DEF ParseQueryFiles, Goto, Fail
  <2>2. HeldOK'
    BY <1>12 DEF ParseQueryFiles
  <2> QED BY <2>1, <2>2
<1>13. CASE ErrEnricher
  <2>1. ControlOK'
    BY <1>13 DEF ErrEnricher, Goto, Fail, Postgres
  <2>2. UNCHANGED <<opts, ctx, container, containerID, late, conn, out, stopFor, closeErr,
                    dockerFault>>
        /\ logs' \in BOOLEAN
    BY <1>13 DEF ErrEnricher
  <2> QED BY <2>1, <2>2
<1>14. CASE Codegen
  <2>1. ControlOK'
    BY <1>14 DEF Codegen, Goto, Fail
  <2>2. HeldOK'
    BY <1>14 DEF Codegen
  <2> QED BY <2>1, <2>2
<1>15. CASE CloseConn
  <2>1. ControlOK'
    BY <1>15 DEF CloseConn
  <2>2. HeldOK'
    BY <1>15 DEF CloseConn
  <2> QED BY <2>1, <2>2
<1>16. CASE ContainerStop
  <2>1. ControlOK'
    BY <1>16 DEF ContainerStop, AfterStop, StopCtxLive, StopFails, Postgres
  <2>2. HeldOK'
    <3>1. UNCHANGED <<opts, ctx, containerID, late, conn, out, stopFor, closeErr, logs>>
      BY <1>16 DEF ContainerStop
    <3>2. container' \in Containers
      BY <1>16 DEF ContainerStop
    <3>3. dockerFault' \in BOOLEAN
      BY <1>16 DEF ContainerStop, StopFails
    <3> QED BY <3>1, <3>2, <3>3
  <2> QED BY <2>1, <2>2
<1>17. CASE ContainerRemove
  <2>1. ControlOK'
    BY <1>17 DEF ContainerRemove, AfterStop, StopCtxLive, StopFails, Postgres
  <2>2. HeldOK'
    <3>1. UNCHANGED <<opts, ctx, containerID, late, conn, out, stopFor, closeErr, logs>>
      BY <1>17 DEF ContainerRemove
    <3>2. container' \in Containers
      BY <1>17 DEF ContainerRemove
    <3>3. dockerFault' \in BOOLEAN
      BY <1>17 DEF ContainerRemove, StopFails
    <3> QED BY <3>1, <3>2, <3>3
  <2> QED BY <2>1, <2>2
<1>18. CASE CtxExpires
  <2>1. ControlOK'
    BY <1>18 DEF CtxExpires
  <2>2. HeldOK'
    BY <1>18 DEF CtxExpires
  <2> QED BY <2>1, <2>2
<1>19. CASE ReadyDeadline
  <2>1. ControlOK'
    BY <1>19 DEF ReadyDeadline
  <2>2. HeldOK'
    BY <1>19 DEF ReadyDeadline
  <2> QED BY <2>1, <2>2
<1>20. CASE ContainerExits
  <2>1. ControlOK'
    BY <1>20 DEF ContainerExits
  <2>2. HeldOK'
    BY <1>20 DEF ContainerExits
  <2> QED BY <2>1, <2>2
<1>21. CASE InitScriptsRun
  <2>1. ControlOK'
    BY <1>21 DEF InitScriptsRun
  <2>2. HeldOK'
    BY <1>21 DEF InitScriptsRun
  <2> QED BY <2>1, <2>2
<1>22. CASE UNCHANGED vars
  BY <1>22 DEF vars
<1> QED BY <1>1, <1>2, <1>3, <1>4, <1>5, <1>6, <1>7, <1>8, <1>9, <1>10, <1>11,
          <1>12, <1>13, <1>14, <1>15, <1>16, <1>17, <1>18, <1>19, <1>20, <1>21, <1>22
   DEF Next, Generate, Environment, Returned

(* They preserve the invariant.                                             *)
LEMMA NextIInv == IInv /\ [Next]_vars => IInv'
<1> SUFFICES ASSUME IInv, [Next]_vars
             PROVE  ConnHeld' /\ StopAsked' /\ ContainerHeld' /\ SchemaRun' /\ ErrorKept'
  BY NextTypeOK DEF IInv
<1> USE DEF IInv, TypeOK, ConnHeld, StopAsked, ContainerHeld, SchemaRun, ErrorKept,
            Acquiring, Locations, Containers, External, Gone, IDDropped,
            UnchangedDocker, UnchangedDb, UnchangedStop
<1>1. CASE CheckOptions
  BY <1>1 DEF CheckOptions, Goto, Fail
<1>2. CASE BuildImage
  BY <1>2 DEF BuildImage, Goto, Fail
<1>3. CASE ContainerCreate
  BY <1>3 DEF ContainerCreate, Goto, Fail
<1>4. CASE ContainerStart
  BY <1>4 DEF ContainerStart, Goto, Fail
<1>5. CASE WaitSelect
  BY <1>5 DEF WaitSelect, Goto, Fail
<1>6. CASE WaitTry
  BY <1>6 DEF WaitTry, Goto, Fail, Reachable
<1>7. CASE StartLogs
  BY <1>7 DEF StartLogs, Goto, Fail
<1>8. CASE ConnString
  BY <1>8 DEF ConnString, Goto, Fail
<1>9. CASE Connect
  BY <1>9 DEF Connect, Goto, Fail, Postgres
<1>10. CASE Ping
  BY <1>10 DEF Ping, Goto, Fail
<1>11. CASE LoadSchemas
  BY <1>11 DEF LoadSchemas, Goto, Fail
<1>12. CASE ParseQueryFiles
  BY <1>12 DEF ParseQueryFiles, Goto, Fail
<1>13. CASE ErrEnricher
  BY <1>13 DEF ErrEnricher, Goto, Fail, Postgres
<1>14. CASE Codegen
  BY <1>14 DEF Codegen, Goto, Fail
<1>15. CASE CloseConn
  BY <1>15 DEF CloseConn
<1>16. CASE ContainerStop
  BY <1>16 DEF ContainerStop, AfterStop, StopCtxLive, StopFails, Postgres
<1>17. CASE ContainerRemove
  BY <1>17 DEF ContainerRemove, AfterStop, StopCtxLive, StopFails, Postgres
<1>18. CASE CtxExpires
  BY <1>18 DEF CtxExpires
<1>19. CASE ReadyDeadline
  BY <1>19 DEF ReadyDeadline
<1>20. CASE ContainerExits
  BY <1>20 DEF ContainerExits
<1>21. CASE InitScriptsRun
  BY <1>21 DEF InitScriptsRun
<1>22. CASE UNCHANGED vars
  BY <1>22 DEF vars
<1> QED BY <1>1, <1>2, <1>3, <1>4, <1>5, <1>6, <1>7, <1>8, <1>9, <1>10, <1>11,
          <1>12, <1>13, <1>14, <1>15, <1>16, <1>17, <1>18, <1>19, <1>20, <1>21, <1>22
   DEF Next, Generate, Environment, Returned

(* The invariant holds in every state of every call of Generate.            *)
THEOREM IInvHolds == Spec => []IInv
BY InitIInv, NextIInv, PTL DEF Spec

(* The state keeps its shape; in particular the schema files run at most    *)
(* once on the database, by the image or by loadSchemas.                    *)
THEOREM TypeCorrect == Spec => []TypeOK
BY IInvHolds, PTL DEF IInv

(* Whatever path Generate returns by, the connection is not left open and a *)
(* container is left only where runContainer dropped its ID, stopping it    *)
(* failed or the shared context had expired; after a failed Start only      *)
(* where stopping it failed.                                                *)
THEOREM NothingIsLeftBehind == Spec => []NothingLeftBehind
<1>1. IInv => NothingLeftBehind
  BY DEF IInv, TypeOK, ConnHeld, ContainerHeld, NothingLeftBehind, StartFailureCleansUp,
         Gone, IDDropped
<1> QED BY <1>1, IInvHolds, PTL

(* A nil error of Generate means that all files are written, the connection *)
(* is closed and no container is left.                                      *)
THEOREM SuccessLeavesNothing == Spec => []SuccessIsClean
<1>1. IInv => SuccessIsClean
  BY DEF IInv, TypeOK, ConnHeld, ErrorKept, SuccessIsClean, External
<1> QED BY <1>1, IInvHolds, PTL

(* The error that Generate returns holds the failure that made it give up,  *)
(* and there is none without a failure.                                     *)
THEOREM FirstFailureIsReported == Spec => []FirstFailureReported
<1>1. IInv => FirstFailureReported
  BY DEF IInv, ErrorKept, FirstFailureReported
<1> QED BY <1>1, IInvHolds, PTL

(* parseQueryFiles and the code generator run over an open connection on a  *)
(* database on which the schema files ran exactly once.                     *)
THEOREM SchemaComesFirst == Spec => []SchemaBeforeInference
<1>1. IInv => SchemaBeforeInference
  BY DEF IInv, ConnHeld, SchemaRun, SchemaBeforeInference
<1> QED BY <1>1, IInvHolds, PTL

(* No step stops or removes the container under an open connection: only    *)
(* ContainerStop and ContainerRemove do either, after CloseConn or before   *)
(* there is a connection.                                                   *)
THEOREM ConnectionClosesFirst == Spec => CloseBeforeStop
<1> DEFINE Taken == container' \in {"stopped", "removed"} /\ container' # container
<1>1. IInv /\ [Next]_vars => [Taken => conn # "open"]_vars
  <2> SUFFICES ASSUME IInv, Next, Taken PROVE conn # "open"
    BY DEF vars
  <2>1. pc \in {"stop", "remove"}
    BY DEF Next, Generate, Environment, Returned, CheckOptions, BuildImage, ContainerCreate,
           ContainerStart, WaitSelect, WaitTry, StartLogs, ConnString, Connect, Ping,
           LoadSchemas, ParseQueryFiles, ErrEnricher, Codegen, CloseConn, ContainerStop,
           ContainerRemove, CtxExpires, ReadyDeadline, InitScriptsRun, ContainerExits,
           UnchangedDocker, vars
  <2> QED BY <2>1 DEF IInv, ConnHeld
<1> QED BY <1>1, IInvHolds, PTL DEF Spec, CloseBeforeStop
=============================================================================
