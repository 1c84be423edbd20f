---------------------------- MODULE MicroFaaSProofs ----------------------------
(***************************************************************************)
(* Proofs about MicroFaaS.  Each system step is a step of ContainerManager,*)
(* whose invariant therefore holds, and under that invariant also a step   *)
(* of CommandLine: what is proved of CMSpec, and of CLSpec with nothing    *)
(* but the promises of FunctionRun, holds of the whole.                    *)
(***************************************************************************)
EXTENDS MicroFaaS, FunctionRunRefinement

-----------------------------------------------------------------------------
(* More about calls.  No goroutine outlives the process; and what the      *)
(* status of a result is, if it comes with an error.                       *)

Asleep(c) == call[c].pc \notin InFlight /\ call[c].remover # "pending"

FailureCode(c) ==
  LET res == call[c].result IN
  /\ res.Error = "timeout" => res.StatusCode = GatewayTimeout
  /\ res.Error \notin {"nil", "timeout"} => res.StatusCode = InternalServerError

RunsInv ==
  /\ CMInv
  /\ ~up => \A c \in Calls : Asleep(c)
  /\ \A c \in Calls : FailureCode(c)

(* A step in the life of one call needs a process, and leaves the call     *)
(* with the result it has, or with one that is made in that step.          *)
NewResult(c) ==
  \/ call'[c].result = call[c].result
  \/ call[c].result.Error = "nil" /\ call'[c].result.Error = "nil"
  \/ \E e \in {"pull", "create", "start", "wait"} : call'[c].result = Failed(e)
  \/ call'[c].result = TimedOut

LEMMA EngineStepResult ==
  ASSUME CMInv, NEW c \in Calls, EngineStep(c)
  PROVE  /\ call[c].pc \in InFlight \/ call[c].remover = "pending"
         /\ up' = up
         /\ NewResult(c)
         /\ \A d \in Calls : d # c => call'[d] = call[d]
<1> USE DEF engine
<1>1. /\ CMTypeOK /\ call \in [Calls -> Call] /\ call[c] \in Call
      /\ PlaceInv(c)
  BY DEF CMInv, CMTypeOK, CallInv
<1>2. CASE ImageInspect(c) \/ StoreKnownImage(c) \/ ContainerWait(c)
  <2>1. PICK s \in InFlight : Goto(c, s)
    BY <1>2 DEF ImageInspect, StoreKnownImage, ContainerWait, InFlight, ImagePhase, Owning
  <2>2. /\ call'[c].result = call[c].result
        /\ \A d \in Calls : d # c => call'[d] = call[d]
    BY <1>1, <2>1, GotoEffect DEF Places
  <2>3. QED
    BY <1>2, <2>2
    DEF ImageInspect, StoreKnownImage, ContainerWait, InFlight, ImagePhase, Owning, NewResult
<1>3. CASE DiscardPullStream(c)
  BY <1>1, <1>3, DiscardEffect DEF DiscardPullStream, InFlight, ImagePhase, NewResult
<1>4. CASE ImagePull(c)
  <2>1. CASE Goto(c, "pulling")
    BY <1>1, <1>4, <2>1, GotoEffect DEF ImagePull, Places, InFlight, ImagePhase, NewResult
  <2>2. CASE Return(c, Failed("pull"))
    BY <1>1, <1>4, <2>2, ReturnEffect, ResultTypes
    DEF ImagePull, InFlight, ImagePhase, NewResult
  <2>3. QED  BY <1>4, <2>1, <2>2 DEF ImagePull
<1>5. CASE ContainerCreate(c)
  <2>1. CASE Goto(c, "start")
    BY <1>1, <1>5, <2>1, GotoEffect
    DEF ContainerCreate, Places, InFlight, ImagePhase, Owning, NewResult
  <2>2. CASE Return(c, Failed("create"))
    BY <1>1, <1>5, <2>2, ReturnEffect, ResultTypes
    DEF ContainerCreate, InFlight, ImagePhase, NewResult
  <2>3. QED  BY <1>5, <2>1, <2>2 DEF ContainerCreate
<1>6. CASE ContainerStart(c)
  <2>1. CASE Goto(c, "wait")
    BY <1>1, <1>6, <2>1, GotoEffect DEF ContainerStart, Places, InFlight, Owning, NewResult
  <2>2. CASE ReturnAndRemove(c, Failed("start"))
    BY <1>1, <1>6, <2>2, ReturnAndRemoveEffect, ResultTypes
    DEF ContainerStart, InFlight, Owning, NewResult
  <2>3. QED  BY <1>6, <2>1, <2>2 DEF ContainerStart
<1>7. CASE ContainerLogs(c)
  <2>1. PICK res \in {[call[c].result EXCEPT !.Logs = "output"], call[c].result} :
          ReturnAndRemove(c, res)
    BY <1>7 DEF ContainerLogs
  <2>2. /\ res \in ExecutionResult /\ res.Error = call[c].result.Error
        /\ call[c].result.Error = "nil" /\ call[c].pc \in InFlight
    BY <1>1, <1>7, <2>1 DEF ContainerLogs, PlaceInv, InFlight, Owning, Call, ExecutionResult
  <2>3. QED
    BY <1>1, <1>7, <2>1, <2>2, ReturnAndRemoveEffect DEF ContainerLogs, NewResult
<1>8. CASE WaitResult(c)
  <2>1. /\ call[c].pc \in InFlight /\ call[c].result.Error = "nil"
    BY <1>1, <1>8 DEF WaitResult, PlaceInv, InFlight, Owning
  <2>2. call' = [call EXCEPT ![c].pc = "logs", ![c].result.StatusCode = box[c].code]
    BY <1>8 DEF WaitResult
  <2>3. /\ call'[c].result.Error = call[c].result.Error
        /\ \A d \in Calls : d # c => call'[d] = call[d]
    BY <1>1, <2>2 DEF Call, ExecutionResult
  <2>4. QED  BY <1>8, <2>1, <2>3 DEF WaitResult, NewResult
<1>9. CASE WaitError(c)
  <2>1. PICK res \in {TimedOut, Failed("wait")} : ReturnAndRemove(c, res)
    BY <1>9 DEF WaitError
  <2>2. res \in ExecutionResult  BY <2>1, ResultTypes
  <2>3. QED
    BY <1>1, <1>9, <2>1, <2>2, ReturnAndRemoveEffect
    DEF WaitError, InFlight, Owning, NewResult
<1>10. CASE ContainerRemove(c)
  <2>1. PICK r \in {"done", "failed"} : call' = [call EXCEPT ![c].remover = r]
    BY <1>10 DEF ContainerRemove
  <2>2. /\ call'[c].result = call[c].result
        /\ \A d \in Calls : d # c => call'[d] = call[d]
    BY <1>1, <2>1 DEF Call
  <2>3. QED  BY <1>10, <2>2 DEF ContainerRemove, NewResult
<1>11. QED
  BY <1>2, <1>3, <1>4, <1>5, <1>6, <1>7, <1>8, <1>9, <1>10 DEF EngineStep, RunStep

LEMMA NewResultCode ==
  ASSUME NEW c \in Calls, FailureCode(c), NewResult(c)
  PROVE  FailureCode(c)'
<1>1. \A e : Failed(e).Error = e /\ Failed(e).StatusCode = InternalServerError
  BY DEF Failed
<1>2. TimedOut.Error = "timeout" /\ TimedOut.StatusCode = GatewayTimeout
  BY DEF TimedOut
<1>3. QED  BY <1>1, <1>2 DEF FailureCode, NewResult

LEMMA RunsInit == CMInit => RunsInv
<1> SUFFICES ASSUME CMInit PROVE RunsInv  OBVIOUS
<1>1. CMInv /\ up  BY InitInv DEF CMInit
<1>2. \A c \in Calls : call[c].result.Error = "nil"
  BY DEF CMInit, NewCall, ZeroResult
<1>3. QED  BY <1>1, <1>2 DEF RunsInv, FailureCode

LEMMA RunsStep == RunsInv /\ [CMNext]_cmVars => RunsInv'
<1> SUFFICES ASSUME RunsInv, [CMNext]_cmVars PROVE RunsInv'  OBVIOUS
<1> DEFINE Goal == /\ ~up' => \A c \in Calls : Asleep(c)'
                   /\ \A c \in Calls : FailureCode(c)'
<1>1. CMInv /\ CMInv' /\ call \in [Calls -> Call] /\ up \in BOOLEAN
  BY NextInv DEF RunsInv, CMInv, CMTypeOK
<1>2. /\ ~up => \A c \in Calls : Asleep(c)
      /\ \A c \in Calls : FailureCode(c)
  BY DEF RunsInv
<1> SUFFICES Goal  BY <1>1 DEF RunsInv
<1>3. ASSUME NEW c \in Calls, NEW i \in Images, RunFunction(c, i) PROVE Goal
  <2>1. up' /\ \A d \in Calls : call'[d].result = call[d].result
    BY <1>1, <1>3 DEF RunFunction, engine, Call
  <2>2. QED  BY <1>2, <2>1 DEF FailureCode
<1>4. ASSUME NEW c \in Calls, EngineStep(c) PROVE Goal
  <2>1. up  BY <1>1, <1>2, <1>4, EngineStepResult DEF Asleep
  <2>1a. up'  BY <1>1, <1>4, <2>1, EngineStepResult
  <2>2. ASSUME NEW d \in Calls PROVE FailureCode(d)'
    <3>1. FailureCode(d) /\ NewResult(d)
      BY <1>1, <1>2, <1>4, EngineStepResult DEF NewResult
    <3>2. QED  BY <3>1, NewResultCode
  <2>3. QED  BY <2>1a, <2>2
<1>5. ASSUME NEW c \in Calls, WorldStep(c) PROVE Goal
  <2>1. /\ up' = up
        /\ \A d \in Calls : /\ call'[d].pc = call[d].pc
                            /\ call'[d].remover = call[d].remover
                            /\ call'[d].result = call[d].result
    BY <1>1, <1>5 DEF WorldStep, ClientCancels, DeadlinePasses, ContainerExits,
                      ContainerAutoRemoved, engine, Call
  <2>2. QED  BY <1>2, <2>1 DEF Asleep, FailureCode
<1>6. CASE CMCrash
  <2>1. ASSUME NEW c \in Calls
        PROVE  /\ call'[c].pc \notin InFlight /\ call'[c].remover # "pending"
               /\ call'[c].result = call[c].result
    <3>1. call'[c] = [call[c] EXCEPT
            !.pc = IF @ \in InFlight THEN "lost" ELSE @,
            !.remover = IF @ = "pending" THEN "failed" ELSE @]
      BY <1>6 DEF CMCrash
    <3>2. QED  BY <1>1, <3>1 DEF Call, InFlight, ImagePhase, Owning
  <2>2. QED  BY <1>2, <2>1 DEF Asleep, FailureCode
<1>7. CASE UNCHANGED call /\ (up' = up \/ up')
  BY <1>2, <1>7 DEF Asleep, FailureCode
<1>8. QED
  BY <1>3, <1>4, <1>5, <1>6, <1>7
  DEF CMNext, ImagePruned, CMRestart, cmVars, engine

-----------------------------------------------------------------------------
(* The runs of the system are those of ContainerManager.                   *)

LEMMA StepOfRuns == [SYNext]_syVars => [CMNext]_cmVars
BY DEF SYNext, CommandStep, CreateStep, HandlerStep, RecordStep, CallRunFunction,
       ManagerStep, PruneStep, Crash, Restart, CMNext, syVars

(* The system runs containers as ContainerManager does, whose properties   *)
(* hold here although the calls now come from the handlers, with the image *)
(* that the table or a cache gave them (handler_invoke.go:54-61).          *)
THEOREM SystemRunsContainers == SYSpec => CMSpec
<1>1. SYInit => CMInit  BY DEF SYInit
<1>2. QED  BY <1>1, StepOfRuns, PTL DEF SYSpec, CMSpec

LEMMA RunsInvariant == SYSpec => []RunsInv
<1>1. CMSpec => []RunsInv  BY RunsInit, RunsStep, PTL DEF CMSpec
<1>2. QED  BY <1>1, SystemRunsContainers, PTL

-----------------------------------------------------------------------------
(* The system as the commands see it.                                      *)

LEMMA KeptRuns ==
  ASSUME UNCHANGED <<call, box>>
  PROVE  UNCHANGED Front!runVars
<1>1. \A c \in Calls : /\ PhaseOf(c)' = PhaseOf(c) /\ AnswerOf(c)' = AnswerOf(c)
                      /\ ProcessOf(c)' = ProcessOf(c)
  BY DEF PhaseOf, AnswerOf, ProcessOf
<1>2. QED  BY <1>1 DEF Front!runVars

(* What the gateway sees of a run is what ContainerManager promises of it. *)
LEMMA SameRun ==
  ASSUME NEW c \in Calls
  PROVE  /\ Promised!Ask(c) <=> Front!Ask(c)
         /\ Promised!Launch(c) <=> Front!Launch(c)
         /\ Promised!Exit(c) <=> Front!Exit(c)
         /\ Promised!Reply(c) <=> Front!Reply(c)
         /\ Promised!Fail(c) <=> Front!Fail(c)
         /\ Promised!TimeOut(c) <=> Front!TimeOut(c)
         /\ Promised!Discard(c) <=> Front!Discard(c)
<1>1. Promised!Ask(c) <=> Front!Ask(c)
  BY DEF Promised!Ask, Front!Ask
<1>2. Promised!Launch(c) <=> Front!Launch(c)
  BY DEF Promised!Launch, Front!Launch
<1>3. Promised!Exit(c) <=> Front!Exit(c)
  BY DEF Promised!Exit, Front!Exit
<1>4. Promised!Reply(c) <=> Front!Reply(c)
  BY DEF Promised!Reply, Front!Reply
<1>5. Promised!Fail(c) <=> Front!Fail(c)
  BY DEF Promised!Fail, Front!Fail, Promised!Failure, Front!Failure
<1>6. Promised!TimeOut(c) <=> Front!TimeOut(c)
  BY DEF Promised!TimeOut, Front!TimeOut, Promised!Timeout, Front!Timeout
<1>7. Promised!Discard(c) <=> Front!Discard(c)
  BY DEF Promised!Discard, Front!Discard
<1>8. QED  BY <1>1, <1>2, <1>3, <1>4, <1>5, <1>6, <1>7

LEMMA SameStutter == Stutter => UNCHANGED Front!runVars
BY DEF Stutter, Phase, Answer, Process, ExitCode, Front!runVars

(* A step of a run is one of the gateway's, or is not seen there.          *)
LEMMA ManagerRefines ==
  ASSUME RunsInv, NEW c \in Calls, ManagerStep(c)
  PROVE  \/ Front!RunStep(c) /\ UNCHANGED command
         \/ UNCHANGED Front!clVars
<1> USE DEF engine
<1>1. /\ CMInv /\ PlaceInv(c) /\ call[c] \in Call
      /\ ~up => Asleep(c)
      /\ UNCHANGED frontVars
  BY DEF RunsInv, CMInv, CMTypeOK, CallInv, ManagerStep
<1>2. UNCHANGED <<Front!Serving, command>> \/ up' # up
  BY <1>1 DEF frontVars, Front!Serving, Front!caches, Front!records, Front!fsVars
<1>3. CASE EngineStep(c)
  <2>1. /\ call[c].pc \in InFlight \/ call[c].remover = "pending"
        /\ up' = up
    BY <1>1, <1>3, EngineStepResult
  <2>2. up /\ call[c].pc # "idle"
    BY <1>1, <2>1 DEF Asleep, PlaceInv, InFlight, ImagePhase, Owning
  <2>3. StepOf(c)
    BY <1>1, <1>3, RunStepRefines, RemoveRefines DEF EngineStep
  <2>4. PhaseOf(c) # "idle"  BY <2>2 DEF PhaseOf
  <2>5. ~Promised!Ask(c)  BY <2>4 DEF Promised!Ask
  <2>6. \/ /\ \/ Front!Launch(c) \/ Front!Exit(c) \/ Front!Reply(c)
              \/ Front!Fail(c) \/ Front!TimeOut(c) \/ Front!Discard(c)
        \/ UNCHANGED Front!runVars
    BY <2>3, <2>5, SameRun, SameStutter DEF StepOf
  <2>7. CASE UNCHANGED Front!runVars
    BY <1>2, <2>1, <2>7
    DEF Front!clVars, Front!gwVars, Front!runVars, Front!Serving, Front!caches,
        Front!records, Front!fsVars
  <2>8. QED  BY <1>2, <2>1, <2>2, <2>6, <2>7 DEF Front!RunStep
<1>4. CASE WorldStep(c)
  <2>1. up' = up
    BY <1>4 DEF WorldStep, ClientCancels, DeadlinePasses, ContainerExits, ContainerAutoRemoved
  <2>2. Front!Exit(c) \/ UNCHANGED Front!runVars
    BY <1>1, <1>4, WorldStepRefines, SameRun, SameStutter
  <2>3. CASE UNCHANGED Front!runVars
    BY <1>2, <2>1, <2>3
    DEF Front!clVars, Front!gwVars, Front!runVars, Front!Serving, Front!caches,
        Front!records, Front!fsVars
  <2>4. QED  BY <1>2, <2>1, <2>2, <2>3 DEF Front!RunStep
<1>5. QED  BY <1>3, <1>4 DEF ManagerStep

(* What leaves the calls and the containers alone, and the rest as well.   *)
LEMMA QuietRefines ==
  ASSUME UNCHANGED <<call, box, frontVars>>
  PROVE  /\ CMRestart => Front!GWRestart /\ UNCHANGED command
         /\ up' = up => UNCHANGED Front!clVars
<1>1. UNCHANGED Front!runVars  BY KeptRuns
<1>2. QED
  BY <1>1
  DEF CMRestart, frontVars, Front!GWRestart, Front!clVars, Front!gwVars, Front!runVars,
      Front!caches, Front!records, Front!fsVars

LEMMA SystemStepRefines ==
  ASSUME RunsInv, [SYNext]_syVars
  PROVE  [Front!CLNext]_(Front!clVars)
<1>1. CASE CommandStep
  BY <1>1 DEF CommandStep, Front!CLNext
<1>2. ASSUME NEW q \in Creates, CreateStep(q) PROVE Front!CLNext
  BY <1>2 DEF CreateStep, Front!CLNext, Front!EngineStep
<1>3. ASSUME NEW r \in Calls, HandlerStep(r) \/ RecordStep(r) PROVE Front!CLNext
  BY <1>3 DEF HandlerStep, RecordStep, Front!CLNext, Front!EngineStep, Front!HandlerStep
<1>4. ASSUME NEW r \in Calls, NEW i \in Images, CallRunFunction(r, i) PROVE Front!CLNext
  BY <1>4 DEF CallRunFunction, Front!CLNext, Front!EngineStep, Front!HandlerStep
<1>5. ASSUME NEW c \in Calls, ManagerStep(c) PROVE [Front!CLNext]_(Front!clVars)
  BY <1>5, ManagerRefines DEF Front!CLNext, Front!EngineStep
<1>6. CASE Crash
  BY <1>6 DEF Crash, Front!CLNext
<1>7. CASE Restart
  <2>1. UNCHANGED <<call, box, frontVars>>
    BY <1>7 DEF Restart, CMRestart, daemon
  <2>2. QED  BY <1>7, <2>1, QuietRefines DEF Restart, Front!CLNext, Front!EngineStep
<1>8. ASSUME (\E i \in Images : PruneStep(i)) \/ UNCHANGED syVars
      PROVE  UNCHANGED Front!clVars
  <2>1. UNCHANGED <<call, box, frontVars>> /\ up' = up
    BY <1>8 DEF PruneStep, ImagePruned, engine, syVars, cmVars
  <2>2. QED  BY <2>1, QuietRefines
<1>9. QED
  BY <1>1, <1>2, <1>3, <1>4, <1>5, <1>6, <1>7, <1>8 DEF SYNext

(* The whole implements CommandLine, whose commands, handlers, caches and  *)
(* records know of a run only what FunctionRun promises: every theorem     *)
(* about CLSpec is one about the engine with its daemon                    *)
(* (main.go:259-297, handler_invoke.go:54-97, manager.go:44-165).          *)
THEOREM SystemImplementsCommandLine == SYSpec => ImplementsCommandLine
<1>1. SYInit => Front!CLInit  BY DEF SYInit
<1>2. RunsInv /\ [SYNext]_syVars => [Front!CLNext]_(Front!clVars)
  BY SystemStepRefines
<1>3. QED
  BY <1>1, <1>2, RunsInvariant, PTL DEF SYSpec, ImplementsCommandLine, Front!CLSpec
-----------------------------------------------------------------------------
(* What is proved of the parts, for the whole.                             *)

LEMMA SystemCommands == SYSpec => []Front!CLInv
<1>1. Front!CLSpec => []Front!CLInv
  BY SYAssumption, CMAssumption, Front!CommandLineInvariant DEF Front!CommandLineInvariant
<1>2. QED  BY <1>1, SystemImplementsCommandLine DEF ImplementsCommandLine

(* What was proved of the gateway over any engine that keeps FunctionRun's *)
(* promises holds over RunFunction itself (handler_invoke.go:23-97).       *)
THEOREM SystemIsAGateway == SYSpec => Front!GWSpec
<1>1. Front!CLSpec => Front!GWSpec
  BY SYAssumption, CMAssumption, Front!CommandsUseTheGateway DEF Front!CommandsUseTheGateway
<1>2. QED  BY <1>1, SystemImplementsCommandLine DEF ImplementsCommandLine

(* Clients invoke functions as if there were neither caches nor containers *)
(* (handler_invoke.go:23-97, manager.go:44-165).                           *)
THEOREM SystemImplementsInvokeService == SYSpec => Front!ImplementsInvokeService
<1>1. Front!GWSpec => Front!ImplementsInvokeService
  BY SYAssumption, CMAssumption, Front!GatewayImplementsInvokeService
  DEF Front!GatewayImplementsInvokeService
<1>2. QED  BY <1>1, SystemIsAGateway

(* Commands tell the truth, scripts may rely on what they were told, and   *)
(* caches, responses and records agree with the table and the runs, with   *)
(* real containers underneath.                                             *)
THEOREM SystemKeepsItsPromises ==
  SYSpec => /\ []Front!AnnouncementsAreTrue /\ []Front!ScriptsWork
            /\ []Front!CacheCoherent /\ []Front!RunsNamedFunction
            /\ []Front!ResponsesAreTrue /\ []Front!RecordsAreTrue
<1> USE SYAssumption, CMAssumption
<1>1. Front!CLSpec => []Front!AnnouncementsAreTrue
  BY Front!CommandsTellTheTruth DEF Front!CommandsTellTheTruth
<1>2. Front!CLSpec => []Front!ScriptsWork
  BY Front!ScriptsMayRely DEF Front!ScriptsMayRely
<1>3. Front!GWSpec => []Front!CacheCoherent
  BY Front!CachesAreCoherent DEF Front!CachesAreCoherent
<1>4. Front!GWSpec => []Front!RunsNamedFunction
  BY Front!InvocationsRunTheirFunction DEF Front!InvocationsRunTheirFunction
<1>5. Front!GWSpec => []Front!ResponsesAreTrue
  BY Front!ResponsesTellTheTruth DEF Front!ResponsesTellTheTruth
<1>6. Front!GWSpec => []Front!RecordsAreTrue
  BY Front!RecordsTellTheTruth DEF Front!RecordsTellTheTruth
<1>7. QED
  BY <1>1, <1>2, <1>3, <1>4, <1>5, <1>6, SystemImplementsCommandLine, SystemIsAGateway
  DEF ImplementsCommandLine

-----------------------------------------------------------------------------
(* From the command to the container.                                      *)

(* The call of an invocation is for the image of the function it found.    *)
ImageInv ==
  \A r \in Front!Invocations :
    call[r].pc # "idle" => call[r].image = request[r].fn.ImageTag

LEMMA ImageStep ==
  ASSUME RunsInv, Front!GWInv, ImageInv, [SYNext]_syVars
  PROVE  ImageInv'
<1> SUFFICES ASSUME NEW r \in Front!Invocations, call'[r].pc # "idle"
             PROVE  call'[r].image = request'[r].fn.ImageTag
  BY DEF ImageInv, Front!Invocations
<1>1. /\ r \in Calls /\ r \notin Background /\ CMTypeOK
      /\ call \in [Calls -> Call] /\ request \in [Calls -> Front!Request]
  BY DEF Front!Invocations, RunsInv, CMInv, CMTypeOK, Front!GWInv, Front!GWTypeOK
<1>2. CASE call[r].pc # "idle"
  <2>1. PhaseOf(r) # "idle"  BY <1>2 DEF PhaseOf
  <2>2. Front!GWInv /\ [Front!GWNext]_(Front!gwVars) =>
          \A d \in Calls : PhaseOf(d) # "idle" => request'[d].fn = request[d].fn
    BY SYAssumption, CMAssumption, Front!FunctionKept DEF Front!FunctionKept
  <2>3. [Front!GWNext]_(Front!gwVars)
    <3>1. [Front!CLNext]_(Front!clVars)  BY SystemStepRefines
    <3>2. QED
      BY <3>1, SYAssumption, CMAssumption, Front!CommandStepIsGateway
      DEF Front!CommandStepIsGateway
  <2>4. request'[r].fn = request[r].fn  BY <1>1, <2>1, <2>2, <2>3
  <2>5. call'[r].image = call[r].image  BY <1>1, <1>2, StepOfRuns, CallStep
  <2>6. QED  BY <1>2, <2>4, <2>5 DEF ImageInv
<1>3. CASE call[r].pc = "idle"
  <2>1. call[r].remover = "none"
    BY <1>1, <1>3 DEF RunsInv, CMInv, CallInv, PlaceInv
  <2>2. ASSUME NEW c \in Calls, ManagerStep(c) PROVE FALSE
    <3>1. CASE EngineStep(c)
      <4>1. c = r  BY <1>1, <1>3, <3>1, EngineStepResult DEF RunsInv
      <4>2. QED
        BY <1>3, <2>1, <3>1, <4>1, EngineStepResult
        DEF RunsInv, InFlight, ImagePhase, Owning
    <3>2. CASE WorldStep(c)
      BY <1>1, <1>3, <3>2
      DEF WorldStep, ClientCancels, DeadlinePasses, ContainerExits, ContainerAutoRemoved, Call
    <3>3. QED  BY <2>2, <3>1, <3>2 DEF ManagerStep
  <2>3. ASSUME Crash PROVE FALSE
    <3>1. call'[r].pc = call[r].pc
      BY <1>1, <1>3, <2>3 DEF Crash, CMCrash, Call, InFlight, ImagePhase, Owning
    <3>2. QED  BY <1>3, <3>1
  <2>4. ASSUME NEW d \in Calls, NEW i \in Images, CallRunFunction(d, i)
        PROVE  call'[r].image = request'[r].fn.ImageTag
    <3>1. d = r
      BY <1>1, <1>3, <2>4 DEF CallRunFunction, RunFunction
    <3>2. i = request[r].fn.ImageTag
      BY <1>1, <2>4, <3>1 DEF CallRunFunction, ImageOf, Front!RunFunction, Front!TestRun
    <3>3. call'[r].image = i
      BY <1>1, <2>4, <3>1 DEF CallRunFunction, RunFunction, Call
    <3>4. request'[r].fn = request[r].fn
      BY <1>1, <2>4, <3>1 DEF CallRunFunction, Front!RunFunction, Front!Request
    <3>5. QED  BY <3>2, <3>3, <3>4
  <2>5. call' # call  BY <1>3
  <2>6. QED
    BY <2>2, <2>3, <2>4, <2>5
    DEF SYNext, CommandStep, CreateStep, HandlerStep, RecordStep, PruneStep, ImagePruned,
        Restart, CMRestart, cmVars, syVars
<1>4. QED  BY <1>2, <1>3

LEMMA ImageInvariant == SYSpec => []ImageInv
<1>1. SYInit => ImageInv
  BY DEF SYInit, CMInit, NewCall, ImageInv, Front!Invocations
<1>2. RunsInv /\ Front!CLInv /\ ImageInv /\ [SYNext]_syVars => ImageInv'
  BY ImageStep DEF Front!CLInv
<1>3. QED  BY <1>1, <1>2, RunsInvariant, SystemCommands, PTL DEF SYSpec

(* The state of one invocation, put together from the parts.               *)
LEMMA InvocationState ==
  ASSUME RunsInv, Front!CLInv, NEW r \in Front!Invocations
  PROVE  /\ r \in Calls
         /\ CallInv(r) /\ FailureCode(r)
         /\ call[r] \in Call /\ box[r] \in Box
         /\ Front!RequestInv(r) /\ Front!RecordInv(r) /\ Front!RunInv(r)
         /\ Front!CommandInv(r)
BY DEF RunsInv, CMInv, CMTypeOK, Front!CLInv, Front!GWInv, Front!FRInv,
       Front!Invocations, Front!Commands

(* The container of an invocation is of the image that the row holds of    *)
(* the name its path asks for, and a command that says success has had it run to its exit, with *)
(* the code the response carries (main.go:259-297, handler_invoke.go:28-61 *)
(* and 91, manager.go:91-98 and 160-164).                                  *)
THEOREM ContainersAreOfNamedFunction == SYSpec => []ContainersOfNamedFunction
<1>1. ASSUME RunsInv, Front!CLInv, ImageInv, NEW r \in Front!Invocations,
             box[r].state # "none"
      PROVE  /\ PathName[command[r].name] \in Names
             /\ functions[PathName[command[r].name]] # NoRow
             /\ call[r].image = functions[PathName[command[r].name]].ImageTag
  <2>1. call[r].pc # "idle"
    BY <1>1, InvocationState DEF CallInv, PlaceInv
  <2>2. Front!NamedFunction(r)
    BY <1>1, <2>1, InvocationState DEF Front!RequestInv, Front!Ran, PhaseOf
  <2>3. request[r].pc # "new"
    BY <1>1, <2>1, InvocationState DEF Front!RequestInv, PhaseOf
  <2>4. Front!AskedFor(r)
    BY <1>1, <2>3, InvocationState DEF Front!CommandInv, Front!SentInv
  <2>5. QED
    BY <1>1, <2>1, <2>2, <2>4 DEF ImageInv, Front!NamedFunction, Front!AskedFor
<1>2. ASSUME RunsInv, Front!CLInv, NEW r \in Front!Invocations,
             command[r].said = "success"
      PROVE  box[r].code # NoCode /\ box[r].code = request[r].response.StatusCode
  <2>1. request[r].response.Code = 200
    BY <1>2, InvocationState
    DEF Front!CommandInv, Front!SuccessInv, Front!InvokeSaidSo
  <2>2. AnswerOf(r) \in ExitCodes /\ request[r].response.StatusCode = AnswerOf(r)
    BY <1>2, <2>1, InvocationState DEF Front!RequestInv
  <2>3. ProcessOf(r) = "exited" /\ box[r].code = AnswerOf(r)
    BY <1>2, <2>2, InvocationState DEF Front!RunInv
  <2>4. QED  BY <2>2, <2>3, CMAssumption DEF CMAssumption, NoCode
<1>3. RunsInv /\ Front!CLInv /\ ImageInv => ContainersOfNamedFunction
  BY <1>1, <1>2 DEF ContainersOfNamedFunction
<1>4. QED  BY <1>3, RunsInvariant, SystemCommands, ImageInvariant, PTL

(* The record of an invocation says what RunFunction returned, whenever it *)
(* is written (handler_invoke.go:63-79, manager.go:104-164).               *)
THEOREM RecordsAreOfRuns == SYSpec => []RecordsOfRuns
<1>1. ASSUME RunsInv, Front!CLInv, NEW r \in Front!Invocations,
             executions[r] # Front!NoRecord
      PROVE  /\ call[r].pc = "returned"
             /\ executions[r].StatusCode = call[r].result.StatusCode
             /\ executions[r].Status = "success" => box[r].code = 0
  <2>1. /\ r \in Calls /\ PhaseOf(r) = "answered"
        /\ executions[r].Status = Front!StatusOf(r)
        /\ executions[r].StatusCode = Front!StatusCodeOf(r)
    BY <1>1, InvocationState DEF Front!RecordInv
  <2>2. call[r].pc = "returned"
    BY <1>1, <2>1, InvocationState DEF PhaseOf, Call
  <2>3. CASE call[r].result.Error = "nil"
    <3>1. box[r].code \in ExitCodes /\ call[r].result.StatusCode = box[r].code
      BY <1>1, <2>2, <2>3, InvocationState DEF CallInv, ResultOf, Box
    <3>2. AnswerOf(r) = box[r].code  BY <2>2, <2>3, <3>1 DEF AnswerOf
    <3>3. QED
      BY <2>1, <2>2, <3>1, <3>2
      DEF Front!StatusOf, Front!StatusCodeOf, Front!HasExitCode
  <2>4. CASE call[r].result.Error # "nil"
    <3>1. /\ AnswerOf(r) = IF call[r].result.Error = "timeout" THEN -4 ELSE -3
          /\ AnswerOf(r) \notin ExitCodes /\ AnswerOf(r) # 0
      BY <2>2, <2>4, CMAssumption DEF AnswerOf, CMAssumption
    <3>2. call[r].result.StatusCode =
            IF call[r].result.Error = "timeout" THEN 504 ELSE 500
      BY <1>1, <2>4, InvocationState DEF FailureCode, GatewayTimeout, InternalServerError
    <3>3. QED
      BY <2>1, <2>2, <3>1, <3>2
      DEF Front!StatusOf, Front!StatusCodeOf, Front!HasExitCode, Front!Timeout
  <2>5. QED  BY <2>3, <2>4
<1>2. RunsInv /\ Front!CLInv => RecordsOfRuns  BY <1>1 DEF RecordsOfRuns
<1>3. QED  BY <1>2, RunsInvariant, SystemCommands, PTL

-----------------------------------------------------------------------------
(* A handler's call of RunFunction is a step of both parts, and neither    *)
(* part holds it back: whenever a handler has come to the call, or a test  *)
(* run comes in, all that the manager and FunctionRun ask for is there -   *)
(* the process is up, this call has not been made, and the image is one    *)
(* that can be run.  What was shown of the composition is therefore not    *)
(* shown because handlers are stuck (handler_invoke.go:54-61,              *)
(* test_run.go:17-26, manager.go:44-50).                                   *)
HandlersCanCall ==
  \A r \in Calls : request[r].pc = "run" \/ Front!TestRun(r) =>
    up /\ call[r].pc = "idle" /\ PhaseOf(r) = "idle" /\ ImageOf(r) \in Images

(* No call is held back by the other part of its step.                     *)
THEOREM HandlersAreNotHeldBack == SYSpec => []HandlersCanCall
<1>1. ASSUME RunsInv, Front!CLInv, Front!DownInv, NEW r \in Calls,
             request[r].pc = "run" \/ Front!TestRun(r)
      PROVE  up /\ call[r].pc = "idle" /\ PhaseOf(r) = "idle" /\ ImageOf(r) \in Images
  <2>1. /\ Front!RequestInv(r) /\ Front!GWTypeOK /\ call[r] \in Call
        /\ functions \in [Names -> Front!Rows \cup {NoRow}]
    BY <1>1 DEF RunsInv, CMInv, CMTypeOK, Front!CLInv, Front!GWInv, Front!FSInv, Front!FSTypeOK
  <2>2. PhaseOf(r) = "idle"  BY <1>1, <2>1 DEF Front!RequestInv, Front!TestRun
  <2>3. call[r].pc = "idle"  BY <2>2 DEF PhaseOf
  <2>4. up  BY <1>1 DEF Front!TestRun, Front!DownInv
  <2>5. CASE request[r].pc = "run"
    <3>1. request[r].fn \in Front!Rows
      BY <2>1, <2>5 DEF Front!RequestInv, Front!NamedFunction
    <3>2. QED  BY <2>2, <2>3, <2>4, <2>5, <3>1 DEF ImageOf, Front!Rows
  <2>6. CASE request[r].pc # "run"
    BY <2>2, <2>3, <2>4, <2>6, SYAssumption DEF ImageOf
  <2>7. QED  BY <2>5, <2>6
<1>2. Front!GWSpec => []Front!DownInv
  BY SYAssumption, CMAssumption, Front!DownInvariant DEF Front!DownInvariant
<1>3. RunsInv /\ Front!CLInv /\ Front!DownInv => HandlersCanCall
  BY <1>1 DEF HandlersCanCall
<1>4. QED  BY <1>2, <1>3, RunsInvariant, SystemCommands, SystemIsAGateway, PTL
=============================================================================
