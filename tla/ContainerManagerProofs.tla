------------------------ MODULE ContainerManagerProofs ------------------------
(***************************************************************************)
(* Proofs about ContainerManager, for any number of calls, images and exit *)
(* codes, any choice of background calls and prunable images, and a daemon *)
(* that may or may not fail.                                               *)
(***************************************************************************)
EXTENDS ContainerManager, TLAPS

(* What the place of a call says of its container, its result and the      *)
(* goroutine that removes the container.                                   *)
PlaceInv(c) ==
  /\ call[c].pc \in {"idle"} \cup InFlight =>
       call[c].remover = "none" /\ call[c].result.Error = "nil"
  /\ call[c].pc \in {"idle"} \cup ImagePhase => box[c].state = "none"
  /\ call[c].pc = "start" => box[c].state = "created"
  /\ call[c].pc \in {"wait", "waiting", "logs"} =>
       box[c].state \in {"running", "exited", "removed"}
  /\ call[c].pc = "logs" =>
       box[c].code # NoCode /\ call[c].result.StatusCode = box[c].code
  /\ call[c].pc = "lost" => call[c].remover = "none"
  /\ call[c].pc # "idle" => call[c].image \in Images

(* A container has a code exactly from the time its process exited. *)
CodeInv(c) ==
  /\ box[c].state \in {"none", "created", "running"} => box[c].code = NoCode
  /\ box[c].state = "exited" => box[c].code # NoCode
  /\ box[c].state = "removed" /\ call[c].pc # "returned" => box[c].code # NoCode
  /\ call[c].remover \in {"pending", "failed"} => box[c].state # "none"
  /\ call[c].remover = "done" => box[c].state = "removed"

ResultOf(c) ==
  (call[c].pc = "returned" /\ call[c].result.Error = "nil")
    => box[c].code # NoCode /\ call[c].result.StatusCode = box[c].code

AccountedFor(c) == box[c].state \in Live =>
  \/ call[c].pc \in Owning
  \/ call[c].remover = "pending"
  \/ box[c].state = "exited"
  \/ call[c].remover = "failed"
  \/ call[c].pc = "lost"
  \/ call[c].result.Error = "create" /\ box[c].state = "created"

CallInv(c) == PlaceInv(c) /\ CodeInv(c) /\ ResultOf(c) /\ AccountedFor(c)

CMInv == CMTypeOK /\ \A c \in Calls : CallInv(c)

-----------------------------------------------------------------------------
(* Type correctness. *)

LEMMA ResultTypes ==
  /\ ZeroResult \in ExecutionResult
  /\ TimedOut \in ExecutionResult
  /\ \A e \in {"pull", "create", "start", "wait"} : Failed(e) \in ExecutionResult
BY DEF ZeroResult, TimedOut, Failed, ExecutionResult, InternalServerError,
       GatewayTimeout

LEMMA InitType == CMInit => CMTypeOK
BY ResultTypes DEF CMInit, CMTypeOK, NewCall, Call, Box, NoCode

Places == InFlight \cup {"idle", "returned", "lost"}

(* What the three ways of updating a call or a container do to the call,   *)
(* its container and the others.                                           *)
LEMMA GotoEffect ==
  ASSUME CMTypeOK, NEW c \in Calls, NEW s \in Places, Goto(c, s)
  PROVE  /\ call' \in [Calls -> Call]
         /\ call'[c].pc = s
         /\ call'[c].image = call[c].image
         /\ call'[c].result = call[c].result
         /\ call'[c].remover = call[c].remover
         /\ \A d \in Calls : d # c => call'[d] = call[d]
BY DEF CMTypeOK, Goto, Places, Call

LEMMA ReturnEffect ==
  ASSUME CMTypeOK, NEW c \in Calls, NEW res \in ExecutionResult,
         Return(c, res)
  PROVE  /\ call' \in [Calls -> Call]
         /\ call'[c].pc = "returned"
         /\ call'[c].image = call[c].image
         /\ call'[c].result = res
         /\ call'[c].remover = call[c].remover
         /\ \A d \in Calls : d # c => call'[d] = call[d]
BY DEF CMTypeOK, Return, Call

LEMMA ReturnAndRemoveEffect ==
  ASSUME CMTypeOK, NEW c \in Calls, NEW res \in ExecutionResult,
         ReturnAndRemove(c, res)
  PROVE  /\ call' \in [Calls -> Call]
         /\ call'[c].pc = "returned"
         /\ call'[c].image = call[c].image
         /\ call'[c].result = res
         /\ call'[c].remover = "pending"
         /\ \A d \in Calls : d # c => call'[d] = call[d]
BY DEF CMTypeOK, ReturnAndRemove, Call

LEMMA DiscardEffect ==
  ASSUME CMTypeOK, NEW c \in Calls, DiscardPullStream(c)
  PROVE  /\ call' \in [Calls -> Call]
         /\ call'[c].pc = "store"
         /\ call'[c].image = call[c].image
         /\ call'[c].result = call[c].result
         /\ call'[c].remover = call[c].remover
         /\ call'[c].cut \/ (call'[c].cut = call[c].cut /\ call[c].image \in present')
         /\ \A d \in Calls : d # c => call'[d] = call[d]
BY DEF CMTypeOK, DiscardPullStream, Goto, Call, InFlight, ImagePhase

LEMMA SetBoxEffect ==
  ASSUME CMTypeOK, NEW c \in Calls,
         NEW s \in Live \cup {"none", "removed"}, SetBox(c, s)
  PROVE  /\ box' \in [Calls -> Box]
         /\ present' = present /\ pruned' = pruned
         /\ box'[c].state = s
         /\ box'[c].code = box[c].code
         /\ \A d \in Calls : d # c => box'[d] = box[d]
BY DEF CMTypeOK, SetBox, Box

-----------------------------------------------------------------------------
(* The inductive invariant. *)

LEMMA InitInv == CMInit => CMInv
<1> SUFFICES ASSUME CMInit PROVE \A c \in Calls : CallInv(c)
  BY InitType DEF CMInv
<1> QED
  BY DEF CMInit, NewCall, ZeroResult, NoCode, CallInv, PlaceInv, CodeInv,
         ResultOf, AccountedFor, InFlight, ImagePhase, Owning, Live

(* A step that touches one call and its container has only that call's     *)
(* part of the invariant to re-establish.                                  *)
LEMMA OneCall ==
  ASSUME CMInv, NEW c \in Calls,
         up' \in BOOLEAN, knownImages' \subseteq Images, present' \subseteq Images,
         pruned' \subseteq Images,
         call' \in [Calls -> Call], box' \in [Calls -> Box],
         \A d \in Calls : d # c => call'[d] = call[d] /\ box'[d] = box[d],
         CallInv(c)'
  PROVE  CMInv'
<1> SUFFICES ASSUME NEW d \in Calls, d # c PROVE CallInv(d)'
  BY DEF CMInv, CMTypeOK
<1> call'[d] = call[d] /\ box'[d] = box[d] /\ CallInv(d)
  BY DEF CMInv
<1> QED
  BY DEF CallInv, PlaceInv, CodeInv, ResultOf, AccountedFor

(* The steps of RunFunction and of its removal goroutine. *)
LEMMA EngineStepInv ==
  ASSUME CMInv, NEW c \in Calls, EngineStep(c)
  PROVE  CMInv'
<1> DEFINE Others == \A d \in Calls : d # c => call'[d] = call[d] /\ box'[d] = box[d]
           Types  == call' \in [Calls -> Call] /\ box' \in [Calls -> Box]
           Known  == /\ knownImages' \subseteq Images /\ present' \subseteq Images
                     /\ pruned' \subseteq Images
           Good   == Others /\ Types /\ Known /\ up' = up /\ CallInv(c)'
<1> SUFFICES Good
  BY OneCall DEF CMInv, CMTypeOK
<1> USE DEF engine, daemon, CallInv, PlaceInv, CodeInv, ResultOf, AccountedFor,
            InFlight, ImagePhase, Owning, Live, Places, HasImage
<1>0. /\ CMTypeOK /\ CallInv(c)
      /\ knownImages \subseteq Images /\ present \subseteq Images /\ pruned \subseteq Images
      /\ call \in [Calls -> Call] /\ box \in [Calls -> Box]
      /\ call[c] \in Call /\ box[c] \in Box
  BY DEF CMInv, CMTypeOK
<1>a. CASE ImageInspect(c)
  BY <1>0, <1>a, GotoEffect DEF ImageInspect
<1>b. CASE ImagePull(c)
  <2>1. CASE Return(c, Failed("pull"))
    BY <1>0, <1>b, <2>1, ResultTypes, ReturnEffect DEF ImagePull, Failed
  <2>2. CASE Goto(c, "pulling")
    BY <1>0, <1>b, <2>2, GotoEffect DEF ImagePull
  <2> QED
    BY <1>b, <2>1, <2>2 DEF ImagePull
<1>c. CASE DiscardPullStream(c)
  <2>1. present' \subseteq Images /\ pruned' \subseteq Images
    BY <1>0, <1>c DEF DiscardPullStream
  <2> QED
    BY <1>0, <1>c, <2>1, DiscardEffect DEF DiscardPullStream
<1>d. CASE StoreKnownImage(c)
  BY <1>0, <1>d, GotoEffect DEF StoreKnownImage
<1>e. CASE ContainerCreate(c)
  <2>1. CASE SetBox(c, "created") /\ Goto(c, "start")
    BY <1>0, <1>e, <2>1, GotoEffect, SetBoxEffect DEF ContainerCreate
  <2>2. CASE UNCHANGED daemon /\ Return(c, Failed("create"))
    BY <1>0, <1>e, <2>2, ResultTypes, ReturnEffect DEF ContainerCreate, Failed
  <2>3. CASE SetBox(c, "created") /\ Return(c, Failed("create"))
    BY <1>0, <1>e, <2>3, ResultTypes, ReturnEffect, SetBoxEffect
    DEF ContainerCreate, Failed
  <2> QED
    BY <1>e, <2>1, <2>2, <2>3 DEF ContainerCreate
<1>f. CASE ContainerStart(c)
  <2>1. CASE SetBox(c, "running") /\ Goto(c, "wait")
    BY <1>0, <1>f, <2>1, GotoEffect, SetBoxEffect DEF ContainerStart
  <2>2. CASE SetBox(c, "running") /\ ReturnAndRemove(c, Failed("start"))
    BY <1>0, <1>f, <2>2, ResultTypes, ReturnAndRemoveEffect, SetBoxEffect
    DEF ContainerStart, Failed
  <2>3. CASE UNCHANGED daemon /\ ReturnAndRemove(c, Failed("start"))
    BY <1>0, <1>f, <2>3, ResultTypes, ReturnAndRemoveEffect
    DEF ContainerStart, Failed
  <2> QED
    BY <1>f, <2>1, <2>2, <2>3 DEF ContainerStart
<1>g. CASE ContainerWait(c)
  BY <1>0, <1>g, GotoEffect DEF ContainerWait
<1>h. CASE WaitResult(c)
  <2>1. box[c].code # NoCode /\ box[c].code \in ExitCodes
    BY <1>0, <1>h DEF WaitResult, Box
  <2>2. /\ call' \in [Calls -> Call]
        /\ call'[c].result.StatusCode = box[c].code
        /\ call'[c].result.Error = call[c].result.Error
        /\ call'[c].pc = "logs"
        /\ call'[c].remover = call[c].remover
        /\ call'[c].image = call[c].image
        /\ \A d \in Calls : d # c => call'[d] = call[d]
    BY <1>0, <1>h, <2>1 DEF WaitResult, Call, ExecutionResult
  <2> QED
    BY <1>0, <1>h, <2>1, <2>2 DEF WaitResult
<1>i. CASE WaitError(c)
  <2>1. PICK res \in {TimedOut, Failed("wait")} : ReturnAndRemove(c, res)
    BY <1>i DEF WaitError
  <2>2. res \in ExecutionResult
    BY <2>1, ResultTypes
  <2>3. res.Error # "nil"
    <3>1. TimedOut.Error = "timeout" /\ Failed("wait").Error = "wait"
      BY DEF TimedOut, Failed
    <3> QED
      BY <2>1, <3>1
  <2> QED
    BY <1>0, <1>i, <2>1, <2>2, <2>3, ReturnAndRemoveEffect DEF WaitError
<1>j. CASE ContainerLogs(c)
  <2>1. PICK res \in {[call[c].result EXCEPT !.Logs = "output"], call[c].result} :
          ReturnAndRemove(c, res)
    BY <1>j DEF ContainerLogs
  <2>2. /\ res \in ExecutionResult
        /\ res.StatusCode = call[c].result.StatusCode
    BY <1>0, <2>1 DEF Call, ExecutionResult
  <2> QED
    BY <1>0, <1>j, <2>1, <2>2, ReturnAndRemoveEffect DEF ContainerLogs
<1>k. CASE ContainerRemove(c)
  <2>1. PICK r \in {"done", "failed"} : call' = [call EXCEPT ![c].remover = r]
    BY <1>k DEF ContainerRemove
  <2>2. /\ call' \in [Calls -> Call]
        /\ call'[c].remover = r
        /\ call'[c].pc = call[c].pc
        /\ call'[c].result = call[c].result
        /\ call'[c].image = call[c].image
        /\ \A d \in Calls : d # c => call'[d] = call[d]
    BY <1>0, <2>1 DEF Call
  <2>0. call[c].pc = "returned"
    BY <1>0, <1>k DEF ContainerRemove, Call
  <2>3. CASE r = "done" /\ SetBox(c, "removed")
    <3>1. /\ box' \in [Calls -> Box] /\ present' = present /\ pruned' = pruned
          /\ box'[c].state = "removed" /\ box'[c].code = box[c].code
          /\ \A d \in Calls : d # c => box'[d] = box[d]
      BY <1>0, <2>3, SetBoxEffect
    <3> QED
      BY <1>0, <1>k, <2>0, <2>2, <2>3, <3>1 DEF ContainerRemove
  <2>4. CASE r = "failed" /\ UNCHANGED daemon
    BY <1>0, <1>k, <2>0, <2>2, <2>4 DEF ContainerRemove
  <2> QED
    BY <1>0, <1>k, <2>1, <2>2, <2>3, <2>4 DEF ContainerRemove, Call
<1> QED
  BY <1>a, <1>b, <1>c, <1>d, <1>e, <1>f, <1>g, <1>h, <1>i, <1>j, <1>k
  DEF EngineStep, RunStep

(* The client, the deadline, the function's process and the daemon. *)
LEMMA WorldStepInv ==
  ASSUME CMInv, NEW c \in Calls, WorldStep(c)
  PROVE  CMInv'
<1> DEFINE Others == \A d \in Calls : d # c => call'[d] = call[d] /\ box'[d] = box[d]
           Types  == call' \in [Calls -> Call] /\ box' \in [Calls -> Box]
           Good   == Others /\ Types /\ CallInv(c)'
                     /\ UNCHANGED <<up, knownImages, present, pruned>>
<1> SUFFICES Good
  BY OneCall DEF CMInv, CMTypeOK
<1> USE DEF engine, daemon, CallInv, PlaceInv, CodeInv, ResultOf, AccountedFor,
            InFlight, ImagePhase, Owning, Live
<1>0. /\ CMTypeOK /\ CallInv(c)
      /\ call \in [Calls -> Call] /\ box \in [Calls -> Box]
      /\ call[c] \in Call /\ box[c] \in Box
  BY DEF CMInv, CMTypeOK
<1>1. CASE ClientCancels(c)
  <2>1. /\ call' \in [Calls -> Call]
        /\ call'[c].pc = call[c].pc
        /\ call'[c].image = call[c].image
        /\ call'[c].result = call[c].result
        /\ call'[c].remover = call[c].remover
        /\ \A d \in Calls : d # c => call'[d] = call[d]
    BY <1>0, <1>1 DEF ClientCancels, Call
  <2> QED
    BY <1>0, <1>1, <2>1 DEF ClientCancels
<1>2. CASE DeadlinePasses(c)
  <2>1. /\ call' \in [Calls -> Call]
        /\ call'[c].pc = call[c].pc
        /\ call'[c].image = call[c].image
        /\ call'[c].result = call[c].result
        /\ call'[c].remover = call[c].remover
        /\ \A d \in Calls : d # c => call'[d] = call[d]
    BY <1>0, <1>2 DEF DeadlinePasses, Call
  <2> QED
    BY <1>0, <1>2, <2>1 DEF DeadlinePasses
<1>3. CASE ContainerExits(c)
  <2>1. PICK k \in ExitCodes :
          box' = [box EXCEPT ![c].state = "exited", ![c].code = k]
    BY <1>3 DEF ContainerExits
  <2>2. k # NoCode
    BY CMAssumption DEF CMAssumption, NoCode
  <2>3. /\ box' \in [Calls -> Box]
        /\ box'[c].state = "exited"
        /\ box'[c].code = k
        /\ \A d \in Calls : d # c => box'[d] = box[d]
    BY <1>0, <2>1 DEF Box
  <2> QED
    BY <1>0, <1>3, <2>2, <2>3 DEF ContainerExits
<1>4. CASE ContainerAutoRemoved(c)
  BY <1>0, <1>4, SetBoxEffect DEF ContainerAutoRemoved
<1> QED
  BY <1>1, <1>2, <1>3, <1>4 DEF WorldStep

LEMMA RunFunctionInv ==
  ASSUME CMInv, NEW c \in Calls, NEW i \in Images, RunFunction(c, i)
  PROVE  CMInv'
<1> USE DEF engine, daemon
<1>1. /\ CMTypeOK /\ CallInv(c)
      /\ call \in [Calls -> Call] /\ call[c] \in Call
  BY DEF CMInv, CMTypeOK
<1>2. PICK s \in {"create", "inspect"} :
        call' = [call EXCEPT ![c].image = i, ![c].pc = s]
  BY DEF RunFunction
<1>3. /\ call' \in [Calls -> Call]
      /\ call'[c].pc = s
      /\ call'[c].image = i
      /\ call'[c].result = call[c].result
      /\ call'[c].remover = call[c].remover
      /\ \A d \in Calls : d # c => call'[d] = call[d]
  BY <1>1, <1>2 DEF Call, InFlight, ImagePhase
<1>4. CallInv(c)'
  BY <1>1, <1>3 DEF RunFunction, CallInv, PlaceInv, CodeInv, ResultOf,
                    AccountedFor, InFlight, ImagePhase, Owning, Live
<1> QED
  BY <1>3, <1>4, OneCall DEF RunFunction, CMInv, CMTypeOK

LEMMA CrashInv == ASSUME CMInv, CMCrash PROVE CMInv'
<1> USE DEF daemon
<1>1. CMTypeOK /\ call \in [Calls -> Call]
  BY DEF CMInv, CMTypeOK
<1>2. ASSUME NEW c \in Calls
      PROVE  /\ call'[c] \in Call
             /\ call'[c].pc = IF call[c].pc \in InFlight THEN "lost" ELSE call[c].pc
             /\ call'[c].image = call[c].image
             /\ call'[c].result = call[c].result
             /\ call'[c].remover =
                  IF call[c].remover = "pending" THEN "failed" ELSE call[c].remover
  BY <1>1 DEF CMCrash, Call
<1>3. CMTypeOK'
  BY <1>1, <1>2 DEF CMTypeOK, CMCrash
<1>4. ASSUME NEW c \in Calls PROVE CallInv(c)'
  <2>1. CallInv(c) /\ box'[c] = box[c] /\ call[c] \in Call
    BY <1>1 DEF CMInv, CMCrash
  <2> QED
    BY <1>2, <2>1 DEF CallInv, PlaceInv, CodeInv, ResultOf, AccountedFor,
                      InFlight, ImagePhase, Owning, Live, Call
<1> QED
  BY <1>3, <1>4 DEF CMInv

(* Nothing in the invariant depends on up, or on the sets of images. *)
LEMMA FrameInv ==
  ASSUME CMInv, UNCHANGED <<call, box>>,
         up' \in BOOLEAN, knownImages' \subseteq Images, present' \subseteq Images,
         pruned' \subseteq Images
  PROVE  CMInv'
BY DEF CMInv, CMTypeOK, CallInv, PlaceInv, CodeInv, ResultOf, AccountedFor

LEMMA NextInv == CMInv /\ [CMNext]_cmVars => CMInv'
<1> SUFFICES ASSUME CMInv, [CMNext]_cmVars PROVE CMInv'
  OBVIOUS
<1>1. ASSUME NEW c \in Calls, NEW i \in Images, RunFunction(c, i) PROVE CMInv'
  BY <1>1, RunFunctionInv
<1>2. ASSUME NEW c \in Calls, EngineStep(c) PROVE CMInv'
  BY <1>2, EngineStepInv
<1>3. ASSUME NEW c \in Calls, WorldStep(c) PROVE CMInv'
  BY <1>3, WorldStepInv
<1>4. ASSUME NEW i \in Images, ImagePruned(i) PROVE CMInv'
  BY <1>4, FrameInv DEF ImagePruned, engine, CMInv, CMTypeOK
<1>5. CASE CMCrash
  BY <1>5, CrashInv
<1>6. CASE CMRestart
  BY <1>6, FrameInv DEF CMRestart, daemon, CMInv, CMTypeOK
<1>7. CASE UNCHANGED cmVars
  BY <1>7, FrameInv DEF cmVars, CMInv, CMTypeOK
<1> QED
  BY <1>1, <1>2, <1>3, <1>4, <1>5, <1>6, <1>7 DEF CMNext

(* RunFunction, its remover and the daemon keep the inductive invariant    *)
(* (manager.go:44-165).                                                    *)
THEOREM InvariantHolds == CMSpec => []CMInv
BY InitInv, NextInv, PTL DEF CMSpec

-----------------------------------------------------------------------------
(* The properties the runs check. *)

(* Every call, container and image keeps its type: the states RunFunction, *)
(* its remover and the daemon go through are those the model names.        *)
THEOREM TypeCorrect == CMSpec => []CMTypeOK
<1>1. CMInv => CMTypeOK
  BY DEF CMInv
<1> QED
  BY <1>1, InvariantHolds, PTL

(* An answer without an error is the exit code of the call's own container.*)
THEOREM ResultsAreExitCodes == CMSpec => []ResultIsExitCode
<1>1. CMInv => ResultIsExitCode
  BY DEF CMInv, CallInv, ResultOf, ResultIsExitCode
<1> QED
  BY <1>1, InvariantHolds, PTL

(* Every container that still exists is accounted for. *)
THEOREM NoForgottenContainer == CMSpec => []ContainersAccountedFor
<1>1. CMInv => ContainersAccountedFor
  BY DEF CMInv, CallInv, AccountedFor, ContainersAccountedFor
<1> QED
  BY <1>1, InvariantHolds, PTL

(* No step kills a running function before its call has returned.          *)
THEOREM KillsOnlyAfterReturn == CMSpec => KilledOnlyAfterReturn
<1> DEFINE Kept == \A c \in Calls :
             box[c].state = "running" /\ box'[c].state = "removed"
               => call[c].pc = "returned"
<1>1. ASSUME CMInv, CMNext PROVE Kept
  <2> SUFFICES ASSUME NEW c \in Calls, box[c].state = "running",
                      box'[c].state = "removed"
               PROVE  call[c].pc = "returned"
    OBVIOUS
  <2> USE DEF engine, daemon
  <2>0. box \in [Calls -> Box] /\ call[c] \in Call /\ CallInv(c) /\ CMTypeOK
    BY <1>1 DEF CMInv, CMTypeOK
  <2>1. ASSUME NEW d \in Calls, NEW i \in Images, RunFunction(d, i) PROVE FALSE
    BY <2>1 DEF RunFunction
  <2>2. ASSUME NEW d \in Calls, RunStep(d) PROVE FALSE
    BY <2>0, <2>2
    DEF RunStep, ImageInspect, ImagePull, DiscardPullStream, StoreKnownImage,
        ContainerCreate, ContainerStart, ContainerWait, ContainerLogs, SetBox, Box
  <2>3. ASSUME NEW d \in Calls, WaitResult(d) \/ WaitError(d) PROVE FALSE
    BY <2>3 DEF WaitResult, WaitError
  <2>4. ASSUME NEW d \in Calls, ContainerRemove(d) PROVE call[c].pc = "returned"
    <3>1. d = c
      BY <2>0, <2>4 DEF ContainerRemove, SetBox
    <3> QED
      BY <2>0, <2>4, <3>1
      DEF ContainerRemove, CallInv, PlaceInv, Call, InFlight
  <2>5. ASSUME NEW d \in Calls, WorldStep(d) PROVE FALSE
    BY <2>0, <2>5 DEF WorldStep, ClientCancels, DeadlinePasses, ContainerExits,
                      ContainerAutoRemoved, SetBox, Box
  <2>6. ASSUME \/ \E i \in Images : ImagePruned(i)
               \/ CMCrash \/ CMRestart
        PROVE  FALSE
    BY <2>6 DEF ImagePruned, CMCrash, CMRestart
  <2> QED
    BY <1>1, <2>1, <2>2, <2>3, <2>4, <2>5, <2>6 DEF CMNext, EngineStep
<1>2. CMInv /\ [CMNext]_cmVars => [Kept]_cmVars
  BY <1>1
<1> QED
  BY <1>2, InvariantHolds, PTL DEF CMSpec, KilledOnlyAfterReturn

-----------------------------------------------------------------------------
(* What the engine remembers of images.                                    *)

Pulled(i) ==
  i \in present \cup pruned \/ \E c \in Calls : call[c].image = i /\ call[c].cut

ImagesInv ==
  /\ KnownImagesPresent
  /\ \A c \in Calls :
       /\ call[c].pc = "store" => Pulled(call[c].image)
       /\ call[c].pc = "idle" => call[c].image = NoImage

(* What a step does to a call's image and its history, and the two ways to *)
(* the place where the image is remembered.                                *)
LEMMA CallStep ==
  ASSUME CMTypeOK, [CMNext]_cmVars, NEW c \in Calls
  PROVE  /\ call[c].pc # "idle" =>
              /\ call'[c].pc # "idle"
              /\ call'[c].image = call[c].image
              /\ call[c].cut => call'[c].cut
         /\ call'[c].pc = "idle" => call'[c].image = call[c].image
         /\ call'[c].pc = "store" =>
              \/ call[c].pc = "store"
              \/ ImageInspect(c) /\ HasImage(c)
              \/ DiscardPullStream(c)
<1> DEFINE Goal ==
      /\ call[c].pc # "idle" =>
           /\ call'[c].pc # "idle"
           /\ call'[c].image = call[c].image
           /\ call[c].cut => call'[c].cut
      /\ call'[c].pc = "idle" => call'[c].image = call[c].image
      /\ call'[c].pc = "store" =>
           \/ call[c].pc = "store"
           \/ ImageInspect(c) /\ HasImage(c)
           \/ DiscardPullStream(c)
<1> SUFFICES Goal
  OBVIOUS
<1> USE DEF engine, daemon
<1>0. call \in [Calls -> Call] /\ call[c] \in Call
  BY DEF CMTypeOK
<1>1. ASSUME NEW d \in Calls, NEW i \in Images, RunFunction(d, i) PROVE Goal
  BY <1>0, <1>1 DEF RunFunction, Call
<1>2. ASSUME NEW d \in Calls, RunStep(d) PROVE Goal
  <2>1. CASE d # c
    BY <1>0, <1>2, <2>1
    DEF RunStep, ImageInspect, ImagePull, DiscardPullStream, StoreKnownImage,
        ContainerCreate, ContainerStart, ContainerWait, ContainerLogs, Goto,
        Return, ReturnAndRemove, Call
  <2>2. CASE d = c
    BY <1>0, <1>2, <2>2
    DEF RunStep, ImageInspect, ImagePull, DiscardPullStream, StoreKnownImage,
        ContainerCreate, ContainerStart, ContainerWait, ContainerLogs, Goto,
        Return, ReturnAndRemove, Call
  <2> QED
    BY <2>1, <2>2
<1>3. ASSUME NEW d \in Calls, WaitResult(d) \/ WaitError(d) \/ ContainerRemove(d)
      PROVE  Goal
  BY <1>0, <1>3 DEF WaitResult, WaitError, ContainerRemove, ReturnAndRemove, Call
<1>4. ASSUME NEW d \in Calls, WorldStep(d) PROVE Goal
  BY <1>0, <1>4 DEF WorldStep, ClientCancels, DeadlinePasses, ContainerExits,
                    ContainerAutoRemoved, Call
<1>5. CASE CMCrash
  <2>1. call'[c] = [call[c] EXCEPT
          !.pc = IF @ \in InFlight THEN "lost" ELSE @,
          !.remover = IF @ = "pending" THEN "failed" ELSE @]
    BY <1>5 DEF CMCrash
  <2> QED
    BY <1>0, <2>1 DEF Call
<1>6. CASE UNCHANGED call
  BY <1>6
<1> QED
  BY <1>1, <1>2, <1>3, <1>4, <1>5, <1>6
  DEF CMNext, EngineStep, ImagePruned, CMRestart, cmVars

(* Images leave the store by being pruned, and only StoreKnownImage adds to the *)
(* images the engine knows.                                                *)
LEMMA ImageSets ==
  ASSUME [CMNext]_cmVars
  PROVE  /\ present \cup pruned \subseteq present' \cup pruned'
         /\ \/ knownImages' \subseteq knownImages
            \/ \E c \in Calls : StoreKnownImage(c)
<1> DEFINE Goal == /\ present \cup pruned \subseteq present' \cup pruned'
                   /\ \/ knownImages' \subseteq knownImages
                      \/ \E c \in Calls : StoreKnownImage(c)
<1> SUFFICES Goal
  OBVIOUS
<1> USE DEF engine, daemon
<1>1. ASSUME NEW c \in Calls, EngineStep(c) PROVE Goal
  BY <1>1
  DEF EngineStep, RunStep, ImageInspect, ImagePull, DiscardPullStream,
      StoreKnownImage, ContainerCreate, ContainerStart, ContainerWait,
      ContainerLogs, WaitResult, WaitError, ContainerRemove, SetBox
<1>2. ASSUME NEW c \in Calls, WorldStep(c) PROVE Goal
  BY <1>2
  DEF WorldStep, ClientCancels, DeadlinePasses, ContainerExits,
      ContainerAutoRemoved, SetBox
<1> QED
  BY <1>1, <1>2 DEF CMNext, RunFunction, ImagePruned, CMCrash, CMRestart, cmVars

LEMMA ImagesStep ==
  ASSUME CMInv, ImagesInv, [CMNext]_cmVars
  PROVE  ImagesInv'
<1>0. /\ CMTypeOK /\ knownImages \subseteq Images
      /\ call \in [Calls -> Call] /\ \A c \in Calls : call[c] \in Call
      /\ \A c \in Calls : call[c].pc = "idle" => call[c].image = NoImage
      /\ \A c \in Calls : call[c].pc # "idle" => call[c].image \in Images
  BY DEF CMInv, CMTypeOK, ImagesInv, CallInv, PlaceInv
<1>1. ASSUME NEW i \in Images, Pulled(i) PROVE Pulled(i)'
  <2>1. ASSUME NEW c \in Calls, call[c].image = i, call[c].cut
        PROVE  call'[c].image = i /\ call'[c].cut
    BY <1>0, <2>1, CallStep, CMAssumption DEF CMAssumption
  <2> QED
    BY <1>1, <2>1, ImageSets DEF Pulled
<1>2. \A i \in knownImages' : Pulled(i)'
  <2>1. ASSUME NEW c \in Calls, StoreKnownImage(c)
        PROVE  \A i \in knownImages' : i \in Images /\ Pulled(i)
    BY <1>0, <2>1 DEF StoreKnownImage, ImagesInv, KnownImagesPresent, Pulled
  <2> QED
    BY <1>0, <1>1, <2>1, ImageSets DEF ImagesInv, KnownImagesPresent, Pulled
<1>3. ASSUME NEW c \in Calls, call'[c].pc = "store"
      PROVE  Pulled(call[c].image)'
  <2>1. CASE call[c].pc = "store"
    BY <1>0, <1>1, <2>1, CallStep DEF ImagesInv
  <2>2. CASE (ImageInspect(c) /\ HasImage(c)) \/ DiscardPullStream(c)
    <3>1. /\ call'[c].image = call[c].image
          /\ \/ HasImage(c) /\ present' = present
             \/ call[c].image \in present'
             \/ call'[c].cut
      BY <1>0, <2>2 DEF ImageInspect, DiscardPullStream, Goto, Call, daemon
    <3> QED
      BY <3>1 DEF HasImage, Pulled
  <2> QED
    BY <1>0, <1>3, <2>1, <2>2, CallStep
<1>4. ASSUME NEW c \in Calls, call'[c].pc = "idle"
      PROVE  call'[c].image = NoImage
  BY <1>0, <1>4, CallStep
<1> QED
  BY <1>2, <1>3, <1>4 DEF ImagesInv, KnownImagesPresent, Pulled

(* Only an operator who removes it, or a pull that was cut short, makes    *)
(* the engine remember an image that is not there (manager.go:47-61).      *)
THEOREM KnownImagesArePresent == CMSpec => []KnownImagesPresent
<1>1. CMInit => ImagesInv
  BY DEF CMInit, ImagesInv, KnownImagesPresent, NewCall
<1>2. CMInv /\ ImagesInv /\ [CMNext]_cmVars => ImagesInv'
  BY ImagesStep
<1>3. ImagesInv => KnownImagesPresent
  BY DEF ImagesInv
<1> QED
  BY <1>1, <1>2, <1>3, InvariantHolds, PTL DEF CMSpec
=============================================================================
