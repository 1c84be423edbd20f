------------------------------- MODULE MicroFaaS -------------------------------
(***************************************************************************)
(* The whole path of a command: CommandLine, whose engine only knows what  *)
(* FunctionRun promises of a run, put together with ContainerManager, that *)
(* keeps these promises.  What CommandLine and Gateway see of a run is a   *)
(* view of the call and its container.  The two parts share the process:   *)
(* a handler's call of RunFunction, a crash and a restart are steps of     *)
(* both, every other step belongs to one and leaves the other alone.       *)
(***************************************************************************)
EXTENDS ContainerManager

CONSTANTS
  Creates, Lists, Names, BadName, Envs, TimeoutInputs, MemoryInputs,
  NoRow, NoEnv, DBMayFail,
  PathName, NoRoute, BadURL,          \* as in CommandLine and its modules
  TestImage                           \* the image of the test-run route

VARIABLES
  functionCache, envCache,            \* the caches of the process
  request, recorder, executions,      \* the requests and their records
  functions, create,                  \* the table and the create requests
  command                             \* the processes of the commands

frontVars == <<functionCache, envCache, request, recorder, executions,
               functions, create, command>>
syVars == <<cmVars, frontVars>>

(* The test-run route is what calls RunFunction with context.Background(). *)
(* CommandLineProofs is CommandLine with its theorems, which hold of this  *)
(* instance as well.                                                       *)
Front == INSTANCE CommandLineProofs WITH
  TestRuns <- Background,
  phase    <- [c \in Calls |-> PhaseOf(c)],
  answer   <- [c \in Calls |-> AnswerOf(c)],
  process  <- [c \in Calls |-> ProcessOf(c)],
  exitCode <- [c \in Calls |-> box[c].code]

ASSUME SYAssumption ==
  /\ BadName \notin Names
  /\ TimeoutInputs \subseteq Int /\ MemoryInputs \subseteq Int
  /\ DBMayFail \in BOOLEAN /\ TestImage \in Images
  /\ NoRow \notin Front!Rows
  /\ NoEnv \notin Envs
  /\ Creates \cap Calls = {} /\ Lists \cap (Creates \cup Calls) = {}
  /\ PathName \in [Names -> Names \cup {NoRoute, BadURL}]
  /\ NoRoute \notin Names /\ BadURL \notin Names /\ NoRoute # BadURL

SYInit == CMInit /\ Front!CLInit

-----------------------------------------------------------------------------
(* Commands and handlers, while runs stand still. *)

CommandStep ==
  /\ UNCHANGED cmVars
  /\ \/ Front!CommandStarts \/ Front!CommandEnds
     \/ \E c \in Front!Commands : Front!Unreachable(c)
     \/ \E r \in Front!Invocations, n \in Names : Front!InvokeUnrouted(r, n)

CreateStep(q) == UNCHANGED <<cmVars, command>> /\ Front!InsertStep(q)

HandlerStep(r) ==
  /\ UNCHANGED <<cmVars, command>>
  /\ \/ Front!QueryFunction(r) \/ Front!StoreFunction(r)
     \/ Front!LoadEnv(r) \/ Front!StoreEnv(r)
     \/ Front!SpawnRecorder(r) \/ Front!Respond(r)

RecordStep(r) == UNCHANGED <<cmVars, command>> /\ Front!WriteExecution(r)

(* The call itself, a step of both parts: an invocation passes the image   *)
(* of the function it has found, the test run one of its own.              *)
ImageOf(r) == IF request[r].pc = "run" THEN request[r].fn.ImageTag ELSE TestImage

CallRunFunction(r, i) ==
  /\ i = ImageOf(r)
  /\ RunFunction(r, i)
  /\ Front!RunFunction(r)
  /\ UNCHANGED command

-----------------------------------------------------------------------------
(* Runs, the daemon and the process. *)

ManagerStep(c) == (EngineStep(c) \/ WorldStep(c)) /\ UNCHANGED frontVars

PruneStep(i) == ImagePruned(i) /\ UNCHANGED frontVars

Crash == CMCrash /\ Front!EngineDies

Restart == CMRestart /\ UNCHANGED frontVars

SYNext ==
  \/ CommandStep
  \/ \E q \in Creates : CreateStep(q)
  \/ \E r \in Calls : HandlerStep(r) \/ RecordStep(r) \/ ManagerStep(r)
  \/ \E r \in Calls, i \in Images : CallRunFunction(r, i)
  \/ \E i \in Images : PruneStep(i)
  \/ Crash
  \/ Restart

SYSpec == SYInit /\ [][SYNext]_syVars

(* One goroutine serves a request, from the look-up through RunFunction to *)
(* the response.                                                           *)
RequestStep(r) ==
  \/ request[r].pc # "new" /\ (HandlerStep(r) \/ \E i \in Images : CallRunFunction(r, i))
  \/ /\ RunStep(r) \/ WaitResult(r) \/ (ExecCtxDone(r) /\ WaitError(r))
     /\ UNCHANGED frontVars

(* Goroutines run, the deadline's timer fires, the daemon and the database *)
(* answer or fail, and a command reads the answer that has come.  That     *)
(* RunFunction answers every call is not assumed.                          *)
SYFairness ==
  /\ \A r \in Calls :
       /\ WF_syVars(RequestStep(r))
       /\ WF_syVars(DeadlinePasses(r) /\ UNCHANGED frontVars)
       /\ WF_syVars(RecordStep(r))
  /\ \A q \in Creates :
       /\ WF_syVars(CreateStep(q))
       /\ WF_syVars(UNCHANGED cmVars /\ Front!CreateCommandEnds(q))
  /\ \A r \in Front!Invocations :
       WF_syVars(UNCHANGED cmVars /\ Front!InvokeCommandEnds(r))
  /\ \A l \in Lists : WF_syVars(UNCHANGED cmVars /\ Front!ListCommandEnds(l))

SYFairSpec == SYSpec /\ SYFairness

-----------------------------------------------------------------------------
(* From the command to the container: the container of an invocation is    *)
(* of the image that the row holds of the name its path asks for, through  *)
(* caches, an insert that may race with the look-up, and restarts; a       *)
(* command that says success has had this very container run to its exit,  *)
(* with the code that the response carries (main.go:259-297,               *)
(* handler_invoke.go:28-61 and 91, manager.go:91-98 and 160-164).          *)
ContainersOfNamedFunction ==
  \A r \in Front!Invocations :
    LET asked == PathName[command[r].name] IN
    /\ box[r].state # "none" =>
         /\ asked \in Names /\ functions[asked] # NoRow
         /\ call[r].image = functions[asked].ImageTag
    /\ command[r].said = "success" =>
         box[r].code # NoCode /\ box[r].code = request[r].response.StatusCode

(* The record of an invocation says what RunFunction returned, although it *)
(* is written by another goroutine, perhaps after the response or while    *)
(* the container is being removed: its code is the result's, a success is  *)
(* the exit with 0 of the invocation's own container                       *)
(* (handler_invoke.go:63-79, manager.go:104-164).                          *)
RecordsOfRuns ==
  \A r \in Front!Invocations : executions[r] # Front!NoRecord =>
    /\ call[r].pc = "returned"
    /\ executions[r].StatusCode = call[r].result.StatusCode
    /\ executions[r].Status = "success" => box[r].code = 0

(* The commands, the gateway and the run behave together as CommandLine    *)
(* says, which only uses the promises of FunctionRun: nothing the engine   *)
(* or the daemon does in a run breaks what was checked without them.       *)
ImplementsCommandLine == Front!CLSpec

(* With the run in all its steps, and no promise of an answer taken for    *)
(* granted: requests are answered, runs recorded, and commands end.        *)
RequestIsAnswered == Front!RequestIsAnswered
RunIsRecorded     == Front!RunIsRecorded
CommandsEnd       == Front!CommandsEnd
=============================================================================
