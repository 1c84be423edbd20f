--------------------------- MODULE ContainerManager ---------------------------
(***************************************************************************)
(* DockerManager.RunFunction (internal/container/manager.go), run by many  *)
(* request goroutines at once, with the goroutine each of them defers to   *)
(* remove its container, and the Docker daemon as this code uses it.       *)
(*                                                                         *)
(* A call of RunFunction creates at most one container, so a container is  *)
(* named by its call.  Every Docker client call is one action, its         *)
(* outcomes the disjuncts: it takes effect at the daemon and returns.      *)
(* When its context ends while it is under way, or the daemon fails, the   *)
(* engine may see an error although the daemon has done the work.          *)
(***************************************************************************)
EXTENDS Integers

CONSTANTS
  Calls,          \* calls of RunFunction, one per invoke or test-run request
  Images,         \* image tags
  NoImage,        \* the image of a call that is yet to be made
  ExitCodes,      \* exit codes of the functions' processes
  Background,     \* calls made with context.Background(): the test-run route
  Prunable,       \* images an operator may remove from the daemon
  DaemonMayFail   \* whether the daemon may fail for reasons of its own

ASSUME CMAssumption ==
  /\ NoImage \notin Images
  /\ ExitCodes \subseteq Nat
  /\ Background \subseteq Calls
  /\ Prunable \subseteq Images
  /\ DaemonMayFail \in BOOLEAN

VARIABLES
  up,             \* the engine process is running
  knownImages,    \* the package variable knownImages, memory of the process
  call,           \* each call: its place, argument, contexts, result, remover
  present,        \* images in the daemon's store
  pruned,         \* history: images removed and not pulled since
  box             \* the container of each call, as the daemon has it

cmVars == <<up, knownImages, call, present, pruned, box>>
engine == <<up, knownImages>>
daemon == <<present, pruned, box>>

-----------------------------------------------------------------------------
InternalServerError == 500
GatewayTimeout      == 504

ExecutionResult ==
  [Error : {"nil", "pull", "create", "start", "wait", "timeout"},
   StatusCode : ExitCodes \cup {0, InternalServerError, GatewayTimeout},
   Logs : {"none", "output", "timed out"}]   \* "none": missing or cut short

ZeroResult == [Error |-> "nil", StatusCode |-> 0, Logs |-> "none"]

\* Variant: a status the readers of ExecutionResult do not expect.
FailedUnavailable(e) == [Error |-> e, StatusCode |-> 503, Logs |-> "none"]
Failed(e) == [Error |-> e, StatusCode |-> InternalServerError, Logs |-> "none"]

\* Variant: the Error field of the timed-out result is left nil.
TimedOutSilently ==
  [Error |-> "nil", StatusCode |-> GatewayTimeout, Logs |-> "timed out"]
TimedOut ==
  [Error |-> "timeout", StatusCode |-> GatewayTimeout, Logs |-> "timed out"]

ImagePhase == {"inspect", "pull", "pulling", "store", "create"}
Owning     == {"start", "wait", "waiting", "logs"}  \* the removal is deferred
InFlight   == ImagePhase \cup Owning
NoCode     == -1
Live       == {"created", "running", "exited"}

Call ==
  [pc : InFlight \cup {"idle", "returned", "lost"},
   image : Images \cup {NoImage},
   canceled : BOOLEAN,     \* ctx was canceled
   expired : BOOLEAN,      \* the deadline of execCtx has passed
   cut : BOOLEAN,          \* history: its pull ended before the image was there
   result : ExecutionResult,
   remover : {"none", "pending", "done", "failed"}]

Box == [state : Live \cup {"none", "removed"}, code : ExitCodes \cup {NoCode}]

CMTypeOK ==
  /\ up \in BOOLEAN
  /\ knownImages \subseteq Images
  /\ call \in [Calls -> Call]
  /\ present \subseteq Images /\ pruned \subseteq Images
  /\ box \in [Calls -> Box]

NewCall == [pc |-> "idle", image |-> NoImage, canceled |-> FALSE,
            expired |-> FALSE, cut |-> FALSE, result |-> ZeroResult,
            remover |-> "none"]

CMInit ==
  /\ up = TRUE
  /\ knownImages = {}
  /\ call = [c \in Calls |-> NewCall]
  /\ present \in SUBSET Images /\ pruned = {}
  /\ box = [c \in Calls |-> [state |-> "none", code |-> NoCode]]

-----------------------------------------------------------------------------
(* execCtx is derived from ctx: it ends with it, or at its own deadline.   *)
ExecCtxDone(c) == call[c].canceled \/ call[c].expired

Goto(c, s)     == call' = [call EXCEPT ![c].pc = s]
SetBox(c, s)   == box' = [box EXCEPT ![c].state = s] /\ UNCHANGED <<present, pruned>>
HasImage(c)    == call[c].image \in present

(* A return before the defer statement, and one after it: the latter       *)
(* leaves a goroutine behind that removes the container.                   *)
Return(c, res) ==
  call' = [call EXCEPT ![c].pc = "returned", ![c].result = res]
\* Variant: a return that forgets the container.
ReturnOnly(c, res) == Return(c, res)
ReturnAndRemove(c, res) ==
  call' = [call EXCEPT ![c].pc = "returned", ![c].result = res,
                       ![c].remover = "pending"]

-----------------------------------------------------------------------------
RunFunction(c, i) ==
  /\ up
  /\ call[c].pc = "idle"
  /\ call' = [call EXCEPT ![c].image = i,
       ![c].pc = IF i \in knownImages THEN "create" ELSE "inspect"]
  /\ UNCHANGED <<engine, daemon>>

ImageInspect(c) ==
  /\ call[c].pc = "inspect"
  /\ \/ HasImage(c) /\ ~call[c].canceled /\ Goto(c, "store")
     \/ /\ DaemonMayFail \/ call[c].canceled \/ ~HasImage(c)
        /\ Goto(c, "pull")
  /\ UNCHANGED <<engine, daemon>>

\* Variant: the error of the pull is not returned.
ImagePullIgnored(c) ==
  /\ call[c].pc = "pull"
  /\ Goto(c, "store") \/ (~call[c].canceled /\ Goto(c, "pulling"))
  /\ UNCHANGED <<engine, daemon>>

(* The daemon refuses the pull, or starts to stream its progress. *)
ImagePull(c) ==
  /\ call[c].pc = "pull"
  /\ \/ Return(c, Failed("pull"))
     \/ ~call[c].canceled /\ Goto(c, "pulling")
  /\ UNCHANGED <<engine, daemon>>

(* io.Copy reads the stream: to its end, and the image is there, or until  *)
(* ctx is canceled or the stream reports an error, which nobody looks at.  *)
DiscardPullStream(c) ==
  /\ call[c].pc = "pulling"
  /\ \/ /\ present' = present \cup {call[c].image}
        /\ pruned' = pruned \ {call[c].image}
        /\ Goto(c, "store")
     \/ /\ DaemonMayFail \/ call[c].canceled
        /\ call' = [call EXCEPT ![c].pc = "store", ![c].cut = TRUE]
        /\ UNCHANGED <<present, pruned>>
  /\ UNCHANGED <<engine, box>>

StoreKnownImage(c) ==
  /\ call[c].pc = "store"
  /\ knownImages' = knownImages \cup {call[c].image}
  /\ Goto(c, "create")
  /\ UNCHANGED <<up, daemon>>

(* The third outcome: the container exists but the engine never learns its *)
(* id, and the early return comes before the defer statement.              *)
ContainerCreate(c) ==
  /\ call[c].pc = "create"
  /\ \/ ~call[c].canceled /\ HasImage(c) /\ SetBox(c, "created")
        /\ Goto(c, "start")
     \/ (DaemonMayFail \/ call[c].canceled \/ ~HasImage(c)) /\ UNCHANGED daemon
        /\ Return(c, Failed("create"))
     \/ (DaemonMayFail \/ call[c].canceled) /\ HasImage(c)
        /\ SetBox(c, "created") /\ Return(c, Failed("create"))
  /\ UNCHANGED engine

ContainerStart(c) ==
  /\ call[c].pc = "start"
  /\ \/ ~ExecCtxDone(c) /\ SetBox(c, "running") /\ Goto(c, "wait")
     \/ /\ DaemonMayFail \/ ExecCtxDone(c)
        /\ SetBox(c, "running") \/ UNCHANGED daemon
        /\ ReturnAndRemove(c, Failed("start"))
  /\ UNCHANGED engine

(* ContainerWait has posted its request: the daemon watches the container, *)
(* which may have exited since it was started.                             *)
ContainerWait(c) ==
  /\ call[c].pc = "wait"
  /\ ~ExecCtxDone(c)
  /\ box[c].state \in {"running", "exited"}
  /\ Goto(c, "waiting")
  /\ UNCHANGED <<engine, daemon>>

WaitResult(c) ==
  /\ call[c].pc = "waiting"
  /\ box[c].state \in {"exited", "removed"}
  /\ call' = [call EXCEPT ![c].pc = "logs", ![c].result.StatusCode = box[c].code]
  /\ UNCHANGED <<engine, daemon>>

\* Variant: an error of the wait is taken for the exit of the function.
WaitErrorIgnored(c) ==
  /\ call[c].pc \in {"wait", "waiting"} /\ (DaemonMayFail \/ ExecCtxDone(c))
  /\ Goto(c, "logs")
  /\ UNCHANGED <<engine, daemon>>

(* execCtx has ended, the daemon failed, or it had removed the container   *)
(* by the time it was asked to wait for it.                                *)
WaitError(c) ==
  /\ \/ call[c].pc \in {"wait", "waiting"} /\ (DaemonMayFail \/ ExecCtxDone(c))
     \/ call[c].pc = "wait" /\ box[c].state = "removed"
  /\ ReturnAndRemove(c, IF ExecCtxDone(c) THEN TimedOut ELSE Failed("wait"))
  /\ UNCHANGED <<engine, daemon>>

(* An error of ContainerLogs is not reported: the logs are left empty. *)
ContainerLogs(c) ==
  /\ call[c].pc = "logs"
  /\ \/ /\ ~call[c].canceled /\ box[c].state = "exited"
        /\ ReturnAndRemove(c, [call[c].result EXCEPT !.Logs = "output"])
     \/ /\ DaemonMayFail \/ call[c].canceled \/ box[c].state = "removed"
        /\ ReturnAndRemove(c, call[c].result)
  /\ UNCHANGED <<engine, daemon>>

\* Variant: the removal is not deferred to the end of the call.
ContainerRemoveEarly(c) ==
  /\ call[c].pc \in Owning \/ call[c].remover = "pending"
  /\ call' = [call EXCEPT ![c].remover = "done"]
  /\ SetBox(c, "removed")
  /\ UNCHANGED engine

(* The deferred goroutine: one forced removal within five seconds, its     *)
(* error ignored.                                                          *)
ContainerRemove(c) ==
  /\ call[c].remover = "pending"
  /\ \/ /\ call' = [call EXCEPT ![c].remover = "done"]
        /\ SetBox(c, "removed")
     \/ /\ DaemonMayFail
        /\ call' = [call EXCEPT ![c].remover = "failed"]
        /\ UNCHANGED daemon
  /\ UNCHANGED engine

-----------------------------------------------------------------------------
(* The environment: the client, the clock, the daemon, the operator. *)

ClientCancels(c) ==
  /\ call[c].pc \in InFlight
  /\ c \notin Background
  /\ call' = [call EXCEPT ![c].canceled = TRUE]
  /\ UNCHANGED <<engine, daemon>>

\* Variant: execCtx has no timeout.
DeadlineNever(c) == FALSE /\ UNCHANGED cmVars
(* execCtx is made once the container is; the wait is its last use. *)
DeadlinePasses(c) ==
  /\ call[c].pc \in {"start", "wait", "waiting"}
  /\ call' = [call EXCEPT ![c].expired = TRUE]
  /\ UNCHANGED <<engine, daemon>>

ContainerExits(c) ==
  /\ box[c].state = "running"
  /\ \E k \in ExitCodes :
       box' = [box EXCEPT ![c].state = "exited", ![c].code = k]
  /\ UNCHANGED <<engine, call, present, pruned>>

(* HostConfig.AutoRemove *)
ContainerAutoRemoved(c) ==
  /\ box[c].state = "exited"
  /\ SetBox(c, "removed")
  /\ UNCHANGED <<engine, call>>

(* docker image rm; the daemon keeps the images of the containers it has.  *)
ImagePruned(i) ==
  /\ i \in Prunable
  /\ \A c \in Calls : call[c].image = i => box[c].state \notin Live
  /\ present' = present \ {i}
  /\ pruned' = pruned \cup (present \cap {i})
  /\ UNCHANGED <<engine, call, box>>

(* The engine dies: its goroutines and its memory are lost, the daemon's   *)
(* images and containers are not, and no restart looks for them.           *)
CMCrash ==
  /\ up
  /\ up' = FALSE
  /\ knownImages' = {}
  /\ call' = [c \in Calls |-> [call[c] EXCEPT
       !.pc = IF @ \in InFlight THEN "lost" ELSE @,
       !.remover = IF @ = "pending" THEN "failed" ELSE @]]
  /\ UNCHANGED daemon

CMRestart == ~up /\ up' = TRUE /\ UNCHANGED <<knownImages, call, daemon>>

-----------------------------------------------------------------------------
(* The steps RunFunction takes by itself: none waits for the function.     *)
RunStep(c) ==
  \/ ImageInspect(c) \/ ImagePull(c) \/ DiscardPullStream(c)
  \/ StoreKnownImage(c)
  \/ ContainerCreate(c) \/ ContainerStart(c) \/ ContainerWait(c)
  \/ ContainerLogs(c)

EngineStep(c) ==
  RunStep(c) \/ WaitResult(c) \/ WaitError(c) \/ ContainerRemove(c)

WorldStep(c) ==
  \/ ClientCancels(c) \/ DeadlinePasses(c)
  \/ ContainerExits(c) \/ ContainerAutoRemoved(c)

CMNext ==
  \/ \E c \in Calls, i \in Images : RunFunction(c, i)
  \/ \E c \in Calls : EngineStep(c) \/ WorldStep(c)
  \/ \E i \in Images : ImagePruned(i)
  \/ CMCrash
  \/ CMRestart

CMSpec == CMInit /\ [][CMNext]_cmVars

(* Every client call is answered or fails, the deadline's timer fires, and *)
(* the removal goroutine runs.  A function need not exit, so a wait is     *)
(* sure to fail only once execCtx has ended.                               *)
CMFairness ==
  \A c \in Calls :
    /\ WF_cmVars(RunStep(c))
    /\ WF_cmVars(WaitResult(c))
    /\ WF_cmVars(ExecCtxDone(c) /\ WaitError(c))
    /\ WF_cmVars(DeadlinePasses(c))
    /\ WF_cmVars(ContainerRemove(c))

CMFairSpec == CMSpec /\ CMFairness

-----------------------------------------------------------------------------
(* Safety. *)

(* A result without an error is the exit code of the call's own container, *)
(* which has exited: no interleaving of the wait, the deadline, the        *)
(* daemon's automatic removal and the forced one reports a run that did    *)
(* not end, or another's (manager.go:130-164).                             *)
ResultIsExitCode ==
  \A c \in Calls :
    (call[c].pc = "returned" /\ call[c].result.Error = "nil")
      => /\ box[c].code # NoCode
         /\ call[c].result.StatusCode = box[c].code

(* No container is forgotten: one that still exists has its call or its    *)
(* remover at work on it, or has exited and awaits the daemon's automatic  *)
(* removal.  The exceptions are the ways the code can lose one: the forced *)
(* removal failed, the engine died, or the create's answer was lost, and   *)
(* then the container never runs (manager.go:98-118).                      *)
ContainersAccountedFor ==
  \A c \in Calls : box[c].state \in Live =>
    \/ call[c].pc \in Owning
    \/ call[c].remover = "pending"
    \/ box[c].state = "exited"
    \/ call[c].remover = "failed"
    \/ call[c].pc = "lost"
    \/ call[c].result.Error = "create" /\ box[c].state = "created"

(* A running function is never killed under its call: the forced removal,  *)
(* the only step that ends a running container, waits for the call to      *)
(* return (manager.go:112-118).                                            *)
KilledOnlyAfterReturn ==
  [][\A c \in Calls : box[c].state = "running" /\ box'[c].state = "removed"
                        => call[c].pc = "returned"]_cmVars

(* An image that calls skip the inspection of is in the daemon's store, or *)
(* was removed from it since, or a pull of it was cut short: nothing else, *)
(* in any interleaving of pulls and crashes, makes the engine remember an  *)
(* image that is not there (manager.go:47-61).                             *)
KnownImagesPresent ==
  \A i \in knownImages :
    i \in present \cup pruned \/ \E c \in Calls : call[c].image = i /\ call[c].cut

(* When the daemon does not fail of its own and no deadline or disconnect  *)
(* intervenes, a container that exited is reported with its exit code and  *)
(* its logs (cmd/cli/main.go:257, "display execution results and logs").   *)
OutcomeIsReported ==
  \A c \in Calls :
    (call[c].pc = "returned" /\ box[c].code # NoCode /\ ~ExecCtxDone(c))
      => call[c].result.Error = "nil" /\ call[c].result.Logs = "output"

-----------------------------------------------------------------------------
(* RunFunction keeps the promises of FunctionRun: at most one launch and   *)
(* one answer per call, no exit code but its own process's, no kill before *)
(* the answer, in any interleaving of calls, removers, daemon and crashes  *)
(* (manager.go:44-165).                                                    *)
PhaseOf(c) ==
  CASE call[c].pc = "idle"      -> "idle"
    [] call[c].pc \in InFlight  -> "open"
    [] call[c].pc = "returned"  -> "answered"
    [] OTHER                    -> "lost"

AnswerOf(c) ==
  IF call[c].pc # "returned" THEN -2
  ELSE IF call[c].result.Error = "nil" THEN call[c].result.StatusCode
  ELSE IF call[c].result.Error = "timeout" THEN -4 ELSE -3

ProcessOf(c) ==
  IF box[c].code # NoCode THEN "exited"
  ELSE CASE box[c].state = "running" -> "running"
         [] box[c].state = "removed" -> "gone"
         [] OTHER                    -> "none"

Promised == INSTANCE FunctionRun WITH
  phase    <- [c \in Calls |-> PhaseOf(c)],
  answer   <- [c \in Calls |-> AnswerOf(c)],
  process  <- [c \in Calls |-> ProcessOf(c)],
  exitCode <- [c \in Calls |-> box[c].code]

ImplementsFunctionRun == Promised!FRSpec

-----------------------------------------------------------------------------
(* Liveness. *)

(* Every call returns, even when its function never exits, unless the      *)
(* engine dies under it (manager.go:120-121 and 130-150).                  *)
CallReturns ==
  \A c \in Calls :
    call[c].pc \in InFlight ~> call[c].pc \in {"returned", "lost"}

(* A container left running by a call that has returned is removed, unless *)
(* its one removal fails (manager.go:112-118).                             *)
LeftoverRemoved ==
  \A c \in Calls :
    (call[c].pc = "returned" /\ box[c].state = "running")
      ~> (box[c].state = "removed" \/ call[c].remover = "failed")
=============================================================================
