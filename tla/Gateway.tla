------------------------------- MODULE Gateway -------------------------------
(***************************************************************************)
(* The engine as its HTTP clients see it: InvokeFunctionHandler and the    *)
(* test-run handler (internal/api/v1/handler_invoke.go, test_run.go), run  *)
(* by concurrent requests over the process's two caches, the functions     *)
(* table (FunctionStore) and RunFunction, of which this module uses only   *)
(* the promises of FunctionRun.  The execution record of an invocation is  *)
(* written by a goroutine that outlives its request.                       *)
(***************************************************************************)
EXTENDS FunctionStore, FunctionRun

CONSTANTS TestRuns,    \* the calls that the test-run route makes
          NoEnv        \* no entry in the cache of environments

ASSUME GWAssumption ==
  TestRuns \subseteq Calls /\ NoEnv \notin Envs /\ ExitCodes \subseteq Nat

VARIABLES
  up,              \* the engine process is running
  functionCache,   \* the row cached for each name
  envCache,        \* the environment cached for each name
  request,         \* each request: its place, name, function, env, response
  recorder,        \* the goroutine of each invocation that writes its record
  executions       \* the execution record of each invocation

runVars == <<phase, answer, process, exitCode>>
caches  == <<functionCache, envCache>>
records == <<recorder, executions>>
gwVars  == <<up, functionCache, envCache, request, recorder, executions,
             functions, create, phase, answer, process, exitCode>>

Invocations == Calls \ TestRuns

-----------------------------------------------------------------------------
NoResponse == [Code |-> 0, StatusCode |-> 0]
Responses == [Code : {0, 200, 404, 500}, StatusCode : ExitCodes \cup {0}]
NoRecord   == [Status |-> "none"]

Execution ==
  [FunctionID : Creates, Status : {"success", "failed", "timed_out"},
   StatusCode : ExitCodes \cup {500, 504}]

Request ==
  [pc : {"new", "query", "store", "env", "storeEnv", "run", "running",
         "respond", "done", "lost"},
   name : Names \cup {BadName}, fn : Rows \cup {NoRow},
   env : Envs \cup {NoEnv}, response : Responses]

GWTypeOK ==
  /\ up \in BOOLEAN
  /\ functionCache \in [Names -> Rows \cup {NoRow}]
  /\ envCache \in [Names -> Envs \cup {NoEnv}]
  /\ request \in [Calls -> Request]
  /\ recorder \in [Calls -> {"none", "pending", "written", "lost"}]
  /\ executions \in [Calls -> Execution \cup {NoRecord}]

GWInit ==
  /\ FSInit
  /\ FRInit
  /\ up = TRUE
  /\ functionCache = [n \in Names |-> NoRow]
  /\ envCache = [n \in Names |-> NoEnv]
  /\ request = [r \in Calls |-> [pc |-> "new", name |-> BadName, fn |-> NoRow,
                                 env |-> NoEnv, response |-> NoResponse]]
  /\ recorder = [r \in Calls |-> "none"]
  /\ executions = [r \in Calls |-> NoRecord]

Answered(r)     == answer[r] # NoReply
\* Variant: a timeout is not seen as an error.
HasNotFailed(r) == Answered(r) /\ answer[r] # Failure
HasExitCode(r)  == answer[r] \in ExitCodes

-----------------------------------------------------------------------------
(* InvokeFunctionHandler: the function, from the cache or the table. *)

InvokeFunctionHandler(r, n) ==
  /\ up
  /\ r \in Invocations
  /\ request[r].pc = "new"
  /\ request' = [request EXCEPT ![r].name = n, ![r].fn = functionCache[n],
       ![r].pc = IF functionCache[n] # NoRow THEN "env" ELSE "query"]
  /\ UNCHANGED <<up, caches, records, fsVars, runVars>>

Refusal(code) == [Code |-> code, StatusCode |-> 0]

Refuse(r, code) ==
  request' = [request EXCEPT ![r] = [@ EXCEPT !.pc = "done", !.response = Refusal(code)]]

\* Variant: any error of the query means that the name is unknown.
QueryFunctionUnknown(r) ==
  LET row == functions[request[r].name]
  IN /\ request[r].pc = "query"
     /\ \/ row # NoRow
           /\ request' = [request EXCEPT ![r].fn = row, ![r].pc = "store"]
        \/ (row = NoRow \/ DBMayFail) /\ Refuse(r, 404)
     /\ UNCHANGED <<up, caches, records, fsVars, runVars>>

QueryFunction(r) ==
  LET row == functions[request[r].name]
  IN /\ request[r].pc = "query"
     /\ \/ row # NoRow
           /\ request' = [request EXCEPT ![r].fn = row, ![r].pc = "store"]
        \/ row = NoRow /\ Refuse(r, 404)
        \/ DBMayFail /\ Refuse(r, 500)
     /\ UNCHANGED <<up, caches, records, fsVars, runVars>>

StoreFunction(r) ==
  /\ request[r].pc = "store"
  /\ functionCache' = [functionCache EXCEPT ![request[r].name] = request[r].fn]
  /\ request' = [request EXCEPT ![r].pc = "env"]
  /\ UNCHANGED <<up, envCache, records, fsVars, runVars>>

(* Its environment, from the cache or the row. *)
LoadEnv(r) ==
  LET cached == envCache[request[r].name]
  IN /\ request[r].pc = "env"
     /\ \/ /\ cached # NoEnv
           /\ request' = [request EXCEPT ![r].env = cached, ![r].pc = "run"]
        \/ /\ cached = NoEnv
           /\ request' = [request EXCEPT ![r].env = request[r].fn.EnvVars,
                                         ![r].pc = "storeEnv"]
     /\ UNCHANGED <<up, caches, records, fsVars, runVars>>

StoreEnv(r) ==
  /\ request[r].pc = "storeEnv"
  /\ envCache' = [envCache EXCEPT ![request[r].name] = request[r].env]
  /\ request' = [request EXCEPT ![r].pc = "run"]
  /\ UNCHANGED <<up, functionCache, records, fsVars, runVars>>

-----------------------------------------------------------------------------
(* The run, its record and the response. *)

(* A request of the test-run route, with an image and an environment of    *)
(* its own: nothing is looked up.                                          *)
TestRun(r) == up /\ r \in TestRuns /\ request[r].pc = "new"

RunFunction(r) ==
  /\ request[r].pc = "run" \/ TestRun(r)
  /\ Ask(r)
  /\ request' = [request EXCEPT ![r].pc = "running"]
  /\ UNCHANGED <<up, caches, records, fsVars>>

\* Variant: an error returns before the record is made.
SpawnRecorderOnSuccess(r) ==
  /\ request[r].pc = "running"
  /\ r \in Invocations
  /\ Answered(r)
  /\ recorder' = [recorder EXCEPT ![r] = IF HasExitCode(r) THEN "pending" ELSE @]
  /\ request' = [request EXCEPT ![r].pc = "respond"]
  /\ UNCHANGED <<up, caches, executions, fsVars, runVars>>

SpawnRecorder(r) ==
  /\ request[r].pc = "running"
  /\ r \in Invocations
  /\ Answered(r)
  /\ recorder' = [recorder EXCEPT ![r] = "pending"]
  /\ request' = [request EXCEPT ![r].pc = "respond"]
  /\ UNCHANGED <<up, caches, executions, fsVars, runVars>>

\* Variant: a status the readers of the table do not know.
StatusUnknown(r) == IF answer[r] = 0 THEN "success" ELSE "error"
\* Variant: only an error makes a failure, not an exit code.
StatusOfError(r) == IF HasExitCode(r) THEN "success" ELSE "failed"
StatusOf(r) == IF answer[r] = 0 THEN "success" ELSE "failed"

StatusCodeOf(r) ==
  IF HasExitCode(r) THEN answer[r] ELSE IF answer[r] = Timeout THEN 504 ELSE 500

(* An insert of its own; its error is ignored. *)
WriteExecution(r) ==
  /\ up
  /\ recorder[r] = "pending"
  /\ \/ /\ recorder' = [recorder EXCEPT ![r] = "written"]
        /\ executions' = [executions EXCEPT ![r] =
             [FunctionID |-> request[r].fn.ID, Status |-> StatusOf(r),
              StatusCode |-> StatusCodeOf(r)]]
     \/ /\ DBMayFail
        /\ recorder' = [recorder EXCEPT ![r] = "lost"]
        /\ UNCHANGED executions
  /\ UNCHANGED <<up, caches, request, fsVars, runVars>>

ResponseOf(r) ==
  IF HasExitCode(r) THEN [Code |-> 200, StatusCode |-> answer[r]] ELSE Refusal(500)

Respond(r) ==
  /\ \/ request[r].pc = "respond"
     \/ request[r].pc = "running" /\ r \in TestRuns /\ Answered(r)
  /\ request' = [request EXCEPT ![r].pc = "done", ![r].response = ResponseOf(r)]
  /\ UNCHANGED <<up, caches, records, fsVars, runVars>>

-----------------------------------------------------------------------------
(* The rest of the system: creates, runs, crashes. *)

CreateStep == up /\ FSStep /\ UNCHANGED <<up, caches, request, records, runVars>>

Serving == <<up, caches, request, records, fsVars>>

RunStep(r) ==
  /\ \/ up /\ (Launch(r) \/ Reply(r) \/ Fail(r) \/ TimeOut(r) \/ Discard(r))
     \/ Exit(r)
  /\ UNCHANGED Serving

GWCrash ==
  /\ up
  /\ up' = FALSE
  /\ functionCache' = [n \in Names |-> NoRow]
  /\ envCache' = [n \in Names |-> NoEnv]
  /\ request' = [r \in Calls |-> [request[r] EXCEPT
       !.pc = IF @ \in {"new", "done"} THEN @ ELSE "lost"]]
  /\ recorder' = [r \in Calls |->
       IF recorder[r] = "pending" THEN "lost" ELSE recorder[r]]
  /\ FSCrash
  /\ Lose
  /\ UNCHANGED executions

GWRestart ==
  /\ ~up
  /\ up' = TRUE
  /\ UNCHANGED <<caches, request, records, fsVars, runVars>>

-----------------------------------------------------------------------------
HandlerStep(r) ==
  \/ QueryFunction(r) \/ StoreFunction(r) \/ LoadEnv(r) \/ StoreEnv(r)
  \/ RunFunction(r) \/ SpawnRecorder(r) \/ Respond(r)

GWNext ==
  \/ \E r \in Calls, n \in Names : InvokeFunctionHandler(r, n)
  \/ \E r \in Calls : HandlerStep(r) \/ WriteExecution(r) \/ RunStep(r)
  \/ CreateStep
  \/ GWCrash
  \/ GWRestart

GWSpec == GWInit /\ [][GWNext]_gwVars

-----------------------------------------------------------------------------
(* What the caches hold is what the table holds, in every interleaving of  *)
(* misses, queries, fills, creates and restarts: neither cache has a name  *)
(* the table has not, or another function's row or environment             *)
(* (handler_invoke.go:28-52).                                              *)
CacheCoherent ==
  \A n \in Names :
    /\ functionCache[n] # NoRow => functionCache[n] = functions[n]
    /\ envCache[n] # NoEnv =>
         functions[n] # NoRow /\ envCache[n] = functions[n].EnvVars

(* An invocation runs the function of the name it was sent to, with that   *)
(* function's environment, although the two come from caches filled by     *)
(* other requests at other times (handler_invoke.go:28-61).                *)
RunsNamedFunction ==
  \A r \in Invocations : phase[r] # "idle" =>
    /\ request[r].fn # NoRow
    /\ request[r].fn = functions[request[r].name]
    /\ request[r].env = request[r].fn.EnvVars

(* A response is true of the run: 200 carries the code with which the      *)
(* request's own process exited, and a request answered 404 ran nothing    *)
(* (handler_invoke.go:32-38 and 81-96, test_run.go:26-38).                 *)
ResponsesAreTrue ==
  \A r \in Calls :
    /\ request[r].response.Code = 200 =>
         /\ process[r] = "exited"
         /\ request[r].response.StatusCode = exitCode[r]
    /\ request[r].response.Code = 404 => process[r] = "none"

(* A record is true of the run and agrees with the response: it is of the  *)
(* named function, successful exactly if the process exited with 0, with   *)
(* the code that a 200 response carries; a 500 response of a run that was  *)
(* made is never recorded as a success (handler_invoke.go:64-96).          *)
RecordsAreTrue ==
  \A r \in Calls : executions[r] # NoRecord =>
    /\ r \in Invocations
    /\ executions[r].FunctionID = functions[request[r].name].ID
    /\ executions[r].Status = "success" <=> answer[r] = 0
    /\ request[r].response.Code = 200 =>
         executions[r].StatusCode = request[r].response.StatusCode
    /\ request[r].response.Code = 500 => executions[r].Status = "failed"

(* Every request is answered, unless the engine dies under it              *)
(* (handler_invoke.go:23-97, test_run.go:17-39).                           *)
RequestIsAnswered ==
  \A r \in Calls :
    request[r].pc \notin {"new", "done", "lost"} ~> request[r].pc \in {"done", "lost"}

(* Every invocation that ran is recorded, unless the insert fails or the   *)
(* engine dies first (handler_invoke.go:63-79).                            *)
RunIsRecorded ==
  \A r \in Invocations :
    phase[r] = "answered" ~>
      executions[r] # NoRecord \/ recorder[r] = "lost" \/ request[r].pc = "lost"

(* An invocation as its client may think of it.                            *)
PlaceOf(r) ==
  CASE request[r].pc = "new"              -> "new"
    [] request[r].pc \in {"done", "lost"} -> "ended"
    [] OTHER                              -> "open"

RanOf(r) ==
  IF phase[r] = "idle" THEN NoRow
  ELSE [request[r].fn EXCEPT !.EnvVars = request[r].env]

Service == INSTANCE InvokeService WITH
  Calls <- Invocations, NoName <- BadName, table <- functions,
  asked <- [r \in Invocations |-> request[r].name],
  place <- [r \in Invocations |-> PlaceOf(r)],
  ran <- [r \in Invocations |-> RanOf(r)],
  code <- [r \in Invocations |-> request[r].response.Code]

(* The caches are not to be seen: whatever other requests have filled      *)
(* them, each invocation behaves as if there were only the table, runs     *)
(* what it has under the name with its own environment, and is answered    *)
(* for that (handler_invoke.go:23-97).                                     *)
ImplementsInvokeService == Service!ISSpec
=============================================================================
