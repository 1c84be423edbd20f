------------------------ MODULE FunctionRunRefinement ------------------------
(***************************************************************************)
(* ContainerManager implements FunctionRun, for every value of the         *)
(* constants.  A step of a call maps to one step of the same call of       *)
(* FunctionRun or to a stutter; the crash maps to Lose.                    *)
(***************************************************************************)
EXTENDS ContainerManagerProofs

Phase    == [c \in Calls |-> PhaseOf(c)]
Answer   == [c \in Calls |-> AnswerOf(c)]
Process  == [c \in Calls |-> ProcessOf(c)]
ExitCode == [c \in Calls |-> box[c].code]

OthersKept(c) ==
  \A d \in Calls : d # c => call'[d] = call[d] /\ box'[d] = box[d]

(* A step that touches one call and its container changes only that call's *)
(* part of the mapped state.                                               *)
LEMMA OneRun ==
  ASSUME NEW c \in Calls, OthersKept(c)
  PROVE  /\ Phase' = [Phase EXCEPT ![c] = PhaseOf(c)']
         /\ Answer' = [Answer EXCEPT ![c] = AnswerOf(c)']
         /\ Process' = [Process EXCEPT ![c] = ProcessOf(c)']
         /\ ExitCode' = [ExitCode EXCEPT ![c] = box'[c].code]
<1>1. ASSUME NEW d \in Calls, d # c
      PROVE  /\ PhaseOf(d)' = PhaseOf(d) /\ AnswerOf(d)' = AnswerOf(d)
             /\ ProcessOf(d)' = ProcessOf(d) /\ box'[d].code = box[d].code
  BY <1>1 DEF PhaseOf, AnswerOf, ProcessOf, OthersKept
<1> QED
  BY <1>1 DEF Phase, Answer, Process, ExitCode

LEMMA KeptRun ==
  ASSUME NEW c \in Calls, OthersKept(c)
  PROVE  /\ PhaseOf(c)' = PhaseOf(c) => Phase' = Phase
         /\ AnswerOf(c)' = AnswerOf(c) => Answer' = Answer
         /\ ProcessOf(c)' = ProcessOf(c) => Process' = Process
         /\ box'[c].code = box[c].code => ExitCode' = ExitCode
BY OneRun DEF Phase, Answer, Process, ExitCode

LEMMA InitRefines == CMInit => Promised!FRInit
<1> SUFFICES ASSUME CMInit PROVE Promised!FRInit
  OBVIOUS
<1> \A c \in Calls : /\ PhaseOf(c) = "idle" /\ AnswerOf(c) = -2
                     /\ ProcessOf(c) = "none" /\ box[c].code = -1
  BY DEF CMInit, NewCall, PhaseOf, AnswerOf, ProcessOf, NoCode, InFlight,
         ImagePhase, Owning
<1> QED
  BY DEF Promised!FRInit, Promised!NoReply, Promised!NoExit

(* A return maps to Reply, Fail or TimeOut. *)
LEMMA ReturnRefines ==
  ASSUME NEW c \in Calls, OthersKept(c), CodeInv(c),
         call[c].pc \in InFlight, call'[c].pc = "returned",
         box'[c].code = box[c].code,
         \/ /\ call'[c].result.Error = "nil"
            /\ box'[c] = box[c]
            /\ box[c].code # NoCode
            /\ call'[c].result.StatusCode = box[c].code
         \/ /\ call'[c].result.Error = "timeout"
            /\ box'[c] = box[c]
            /\ box[c].state \in {"running", "exited", "removed"}
         \/ /\ call'[c].result.Error \notin {"nil", "timeout"}
            /\ \/ box'[c].state = box[c].state
               \/ /\ box[c].state \in {"none", "created"}
                  /\ box'[c].state \in {"created", "running"}
  PROVE  Promised!Reply(c) \/ Promised!Fail(c) \/ Promised!TimeOut(c)
<1>1. PhaseOf(c) = "open" /\ PhaseOf(c)' = "answered"
  BY DEF PhaseOf, InFlight, ImagePhase, Owning
<1>2. Phase' = [Phase EXCEPT ![c] = "answered"]
  BY <1>1, OneRun
<1>3. ExitCode' = ExitCode
  BY KeptRun
<1>4. CASE call'[c].result.Error = "nil"
  <2>1. ProcessOf(c)' = ProcessOf(c) /\ ProcessOf(c) = "exited"
        /\ AnswerOf(c)' = box[c].code
    BY <1>4 DEF AnswerOf, ProcessOf
  <2>2. Process' = Process /\ Answer' = [Answer EXCEPT ![c] = box[c].code]
    BY <2>1, KeptRun, OneRun
  <2> QED
    BY <1>1, <1>2, <1>3, <2>1, <2>2
    DEF Promised!Reply, Phase, Answer, Process, ExitCode
<1>5. CASE call'[c].result.Error = "timeout"
  <2>1. Answer' = [Answer EXCEPT ![c] = -4]
    BY <1>5, OneRun DEF AnswerOf
  <2>2. ProcessOf(c)' = ProcessOf(c)
    BY <1>5 DEF ProcessOf
  <2>3. ProcessOf(c) # "none"
    BY <1>5 DEF ProcessOf, CodeInv
  <2> QED
    BY <1>1, <1>2, <1>3, <2>1, <2>2, <2>3, KeptRun
    DEF Promised!TimeOut, Promised!Timeout, Phase, Answer, Process, ExitCode
<1>6. CASE call'[c].result.Error \notin {"nil", "timeout"}
  <2>1. Answer' = [Answer EXCEPT ![c] = -3]
    BY <1>6, OneRun DEF AnswerOf
  <2>2. CASE ProcessOf(c)' = ProcessOf(c)
    BY <1>1, <1>2, <1>3, <2>1, <2>2, KeptRun
    DEF Promised!Fail, Promised!Failure, Phase, Answer, Process, ExitCode
  <2>3. CASE ProcessOf(c) = "none" /\ ProcessOf(c)' = "running"
    BY <1>1, <1>2, <1>3, <2>1, <2>3, OneRun
    DEF Promised!Fail, Promised!Failure, Phase, Answer, Process, ExitCode
  <2> QED
    BY <1>6, <2>2, <2>3 DEF ProcessOf, CodeInv
<1> QED
  BY <1>4, <1>5, <1>6

Stutter == UNCHANGED <<Phase, Answer, Process, ExitCode>>

StepOf(c) ==
  \/ Stutter
  \/ Promised!Ask(c) \/ Promised!Launch(c) \/ Promised!Exit(c)
  \/ Promised!Reply(c) \/ Promised!Fail(c) \/ Promised!TimeOut(c)
  \/ Promised!Discard(c)

(* Progress within a call, with no effect that FunctionRun sees. *)
LEMMA StutterRefines ==
  ASSUME NEW c \in Calls, OthersKept(c),
         call[c].pc \in InFlight, call'[c].pc \in InFlight,
         box'[c].code = box[c].code,
         \/ box'[c].state = box[c].state
         \/ box[c].state = "none" /\ box'[c].state = "created"
  PROVE  Stutter
<1>1. PhaseOf(c)' = PhaseOf(c) /\ AnswerOf(c)' = AnswerOf(c)
  BY DEF PhaseOf, AnswerOf, InFlight, ImagePhase, Owning
<1>2. ProcessOf(c)' = ProcessOf(c)
  BY DEF ProcessOf
<1> QED
  BY <1>1, <1>2, KeptRun DEF Stutter

LEMMA RunStepRefines ==
  ASSUME CMInv, NEW c \in Calls, RunStep(c) \/ WaitResult(c) \/ WaitError(c)
  PROVE  StepOf(c)
<1> USE DEF engine, daemon
<1>0. /\ CMTypeOK /\ CallInv(c) /\ PlaceInv(c) /\ CodeInv(c)
      /\ call \in [Calls -> Call] /\ call[c] \in Call
      /\ box \in [Calls -> Box] /\ box[c] \in Box
  BY DEF CMInv, CMTypeOK, CallInv
<1>0a. CASE DiscardPullStream(c)
  <2>1. call[c].pc \in InFlight /\ "store" \in InFlight /\ UNCHANGED box
    BY <1>0a DEF DiscardPullStream, InFlight, ImagePhase
  <2> QED
    BY <1>0, <1>0a, <2>1, DiscardEffect, StutterRefines DEF StepOf, OthersKept
<1>1. CASE ImageInspect(c) \/ StoreKnownImage(c) \/ ContainerWait(c)
  <2>1. PICK s \in InFlight : Goto(c, s) /\ UNCHANGED box
    BY <1>1 DEF ImageInspect, StoreKnownImage, ContainerWait, InFlight, ImagePhase, Owning
  <2>2. /\ call'[c].pc = s
        /\ \A d \in Calls : d # c => call'[d] = call[d]
    BY <1>0, <2>1, GotoEffect DEF Places
  <2>3. call[c].pc \in InFlight
    BY <1>1 DEF ImageInspect, StoreKnownImage, ContainerWait, InFlight, ImagePhase, Owning
  <2> QED
    BY <2>1, <2>2, <2>3, StutterRefines DEF StepOf, OthersKept
<1>2. CASE ImagePull(c)
  <2>0. call[c].pc \in InFlight /\ UNCHANGED box
    BY <1>2 DEF ImagePull, InFlight, ImagePhase
  <2>1. CASE Goto(c, "pulling")
    <3>1. /\ call'[c].pc \in InFlight
          /\ \A d \in Calls : d # c => call'[d] = call[d]
      BY <1>0, <2>1, GotoEffect DEF Places, InFlight, ImagePhase
    <3> QED
      BY <2>0, <3>1, StutterRefines DEF StepOf, OthersKept
  <2>2. CASE Return(c, Failed("pull"))
    <3>1. /\ call'[c].pc = "returned" /\ call'[c].result = Failed("pull")
          /\ \A d \in Calls : d # c => call'[d] = call[d]
      BY <1>0, <2>2, ResultTypes, ReturnEffect
    <3> QED
      BY <1>0, <2>0, <3>1, ReturnRefines DEF StepOf, OthersKept, Failed
  <2> QED
    BY <1>2, <2>1, <2>2 DEF ImagePull
<1>3. CASE ContainerCreate(c)
  <2>0. call[c].pc \in InFlight /\ box[c].state = "none"
    BY <1>0, <1>3 DEF ContainerCreate, InFlight, ImagePhase, PlaceInv
  <2>1. CASE SetBox(c, "created") /\ Goto(c, "start")
    <3>1. /\ call'[c].pc \in InFlight
          /\ \A d \in Calls : d # c => call'[d] = call[d]
      BY <1>0, <2>1, GotoEffect DEF Places, InFlight, Owning
    <3>2. /\ box'[c].state = "created" /\ box'[c].code = box[c].code
          /\ \A d \in Calls : d # c => box'[d] = box[d]
      BY <1>0, <2>1, SetBoxEffect DEF Live
    <3> QED
      BY <2>0, <3>1, <3>2, StutterRefines DEF StepOf, OthersKept
  <2>2. CASE Return(c, Failed("create"))
    <3>1. /\ call'[c].pc = "returned" /\ call'[c].result = Failed("create")
          /\ \A d \in Calls : d # c => call'[d] = call[d]
      BY <1>0, <2>2, ResultTypes, ReturnEffect
    <3>2. CASE SetBox(c, "created")
      <4>1. /\ box'[c].state = "created" /\ box'[c].code = box[c].code
            /\ \A d \in Calls : d # c => box'[d] = box[d]
        BY <1>0, <3>2, SetBoxEffect DEF Live
      <4> QED
        BY <1>0, <2>0, <3>1, <4>1, ReturnRefines DEF StepOf, OthersKept, Failed
    <3>3. CASE UNCHANGED daemon
      BY <1>0, <2>0, <3>1, <3>3, ReturnRefines DEF StepOf, OthersKept, Failed
    <3> QED
      BY <1>3, <3>1, <3>2, <3>3 DEF ContainerCreate
  <2> QED
    BY <1>3, <2>1, <2>2 DEF ContainerCreate
<1>4. CASE ContainerStart(c)
  <2>0. call[c].pc \in InFlight /\ box[c].state = "created" /\ box[c].code = NoCode
    BY <1>0, <1>4 DEF ContainerStart, InFlight, Owning, PlaceInv, CodeInv
  <2>1. CASE SetBox(c, "running") /\ Goto(c, "wait")
    <3>1. /\ call'[c].pc \in InFlight
          /\ \A d \in Calls : d # c => call'[d] = call[d]
      BY <1>0, <2>1, GotoEffect DEF Places, InFlight, Owning
    <3>2. /\ box'[c].state = "running" /\ box'[c].code = box[c].code
          /\ \A d \in Calls : d # c => box'[d] = box[d]
      BY <1>0, <2>1, SetBoxEffect DEF Live
    <3>3. /\ PhaseOf(c) = "open" /\ PhaseOf(c)' = "open"
          /\ AnswerOf(c)' = AnswerOf(c)
          /\ ProcessOf(c) = "none" /\ ProcessOf(c)' = "running"
      BY <2>0, <3>1, <3>2
      DEF PhaseOf, AnswerOf, ProcessOf, InFlight, ImagePhase, Owning
    <3>4. OthersKept(c)
      BY <3>1, <3>2 DEF OthersKept
    <3> QED
      BY <3>2, <3>3, <3>4, OneRun, KeptRun
      DEF StepOf, Promised!Launch, Phase, Answer, Process, ExitCode
  <2>2. CASE ReturnAndRemove(c, Failed("start"))
    <3>1. /\ call'[c].pc = "returned" /\ call'[c].result = Failed("start")
          /\ \A d \in Calls : d # c => call'[d] = call[d]
      BY <1>0, <2>2, ResultTypes, ReturnAndRemoveEffect
    <3>2. CASE SetBox(c, "running")
      <4>1. /\ box'[c].state = "running" /\ box'[c].code = box[c].code
            /\ \A d \in Calls : d # c => box'[d] = box[d]
        BY <1>0, <3>2, SetBoxEffect DEF Live
      <4> QED
        BY <1>0, <2>0, <3>1, <4>1, ReturnRefines DEF StepOf, OthersKept, Failed
    <3>3. CASE UNCHANGED daemon
      BY <1>0, <2>0, <3>1, <3>3, ReturnRefines DEF StepOf, OthersKept, Failed
    <3> QED
      BY <1>4, <3>1, <3>2, <3>3 DEF ContainerStart
  <2> QED
    BY <1>4, <2>1, <2>2 DEF ContainerStart
<1>5. CASE WaitResult(c)
  <2>1. /\ call[c].pc \in InFlight /\ call'[c].pc \in InFlight
        /\ \A d \in Calls : d # c => call'[d] = call[d]
    BY <1>0, <1>5 DEF WaitResult, Call, InFlight, Owning
  <2> QED
    BY <1>5, <2>1, StutterRefines DEF WaitResult, StepOf, OthersKept
<1>6. CASE WaitError(c)
  <2>1. PICK res \in {TimedOut, Failed("wait")} : ReturnAndRemove(c, res)
    BY <1>6 DEF WaitError
  <2>2. TimedOut.Error = "timeout" /\ Failed("wait").Error = "wait"
    BY DEF TimedOut, Failed
  <2>3. res.Error \in {"timeout", "wait"} /\ res \in ExecutionResult
    BY <2>1, <2>2, ResultTypes
  <2>4. /\ call'[c].pc = "returned" /\ call'[c].result = res
        /\ \A d \in Calls : d # c => call'[d] = call[d]
    BY <1>0, <2>1, <2>3, ReturnAndRemoveEffect
  <2>5. /\ call[c].pc \in InFlight /\ UNCHANGED box
        /\ box[c].state \in {"running", "exited", "removed"}
    BY <1>0, <1>6 DEF WaitError, InFlight, Owning, PlaceInv
  <2> QED
    BY <1>0, <2>3, <2>4, <2>5, ReturnRefines DEF StepOf, OthersKept
<1>7. CASE ContainerLogs(c)
  <2>1. PICK res \in {[call[c].result EXCEPT !.Logs = "output"], call[c].result} :
          ReturnAndRemove(c, res)
    BY <1>7 DEF ContainerLogs
  <2>2. /\ res \in ExecutionResult
        /\ res.StatusCode = call[c].result.StatusCode
        /\ res.Error = call[c].result.Error
    BY <1>0, <2>1 DEF Call, ExecutionResult
  <2>3. /\ call'[c].pc = "returned" /\ call'[c].result = res
        /\ \A d \in Calls : d # c => call'[d] = call[d]
    BY <1>0, <2>1, <2>2, ReturnAndRemoveEffect
  <2>4. /\ call[c].pc \in InFlight /\ UNCHANGED box
        /\ call[c].result.Error = "nil" /\ box[c].code # NoCode
        /\ call[c].result.StatusCode = box[c].code
    BY <1>0, <1>7 DEF ContainerLogs, InFlight, Owning, PlaceInv
  <2> QED
    BY <1>0, <2>2, <2>3, <2>4, ReturnRefines DEF StepOf, OthersKept
<1> QED
  BY <1>0a, <1>1, <1>2, <1>3, <1>4, <1>5, <1>6, <1>7 DEF RunStep

LEMMA RemoveRefines ==
  ASSUME CMInv, NEW c \in Calls, ContainerRemove(c)
  PROVE  StepOf(c)
<1> USE DEF engine, daemon
<1>0. /\ CMTypeOK /\ CallInv(c) /\ CodeInv(c)
      /\ call \in [Calls -> Call] /\ call[c] \in Call
  BY DEF CMInv, CMTypeOK, CallInv
<1>1. call[c].pc = "returned" /\ box[c].state # "none"
  BY <1>0 DEF ContainerRemove, CallInv, PlaceInv, CodeInv, Call, InFlight
<1>2. /\ call'[c].pc = "returned" /\ call'[c].result = call[c].result
      /\ \A d \in Calls : d # c => call'[d] = call[d]
  <2>1. PICK r \in {"done", "failed"} : call' = [call EXCEPT ![c].remover = r]
    BY DEF ContainerRemove
  <2> QED
    BY <1>0, <1>1, <2>1 DEF Call
<1>3. PhaseOf(c) = "answered" /\ PhaseOf(c)' = PhaseOf(c)
      /\ AnswerOf(c)' = AnswerOf(c)
  BY <1>1, <1>2 DEF PhaseOf, AnswerOf, InFlight, ImagePhase, Owning
<1>4. CASE UNCHANGED daemon
  <2>1. OthersKept(c) /\ ProcessOf(c)' = ProcessOf(c) /\ box'[c].code = box[c].code
    BY <1>2, <1>4 DEF OthersKept, ProcessOf
  <2> QED
    BY <1>3, <2>1, KeptRun DEF StepOf, Stutter
<1>5. CASE SetBox(c, "removed")
  <2>1. /\ box'[c].state = "removed" /\ box'[c].code = box[c].code
        /\ \A d \in Calls : d # c => box'[d] = box[d]
    BY <1>0, <1>5, SetBoxEffect
  <2>2. OthersKept(c)
    BY <1>2, <2>1 DEF OthersKept
  <2>3. CASE box[c].code # NoCode \/ box[c].state = "removed"
    <3>1. ProcessOf(c)' = ProcessOf(c)
      BY <2>1, <2>3 DEF ProcessOf
    <3> QED
      BY <1>3, <2>1, <2>2, <3>1, KeptRun DEF StepOf, Stutter
  <2>4. CASE box[c].code = NoCode /\ box[c].state # "removed"
    <3>1. ProcessOf(c) \in {"none", "running"} /\ ProcessOf(c)' = "gone"
      BY <2>1, <2>4 DEF ProcessOf
    <3> QED
      BY <1>3, <2>1, <2>2, <3>1, OneRun, KeptRun
      DEF StepOf, Promised!Discard, Phase, Answer, Process, ExitCode
  <2> QED
    BY <2>3, <2>4
<1> QED
  BY <1>4, <1>5 DEF ContainerRemove

(* The world lets processes exit; nothing else that it does is seen.       *)
LEMMA WorldStepRefines ==
  ASSUME CMInv, NEW c \in Calls, WorldStep(c)
  PROVE  Stutter \/ Promised!Exit(c)
<1> USE DEF engine, daemon
<1>0. /\ CMTypeOK /\ CallInv(c) /\ CodeInv(c)
      /\ call \in [Calls -> Call] /\ call[c] \in Call
      /\ box \in [Calls -> Box] /\ box[c] \in Box
  BY DEF CMInv, CMTypeOK, CallInv
<1>1. CASE ClientCancels(c) \/ DeadlinePasses(c)
  <2>1. /\ call'[c].pc = call[c].pc /\ call'[c].result = call[c].result
        /\ UNCHANGED box
        /\ \A d \in Calls : d # c => call'[d] = call[d]
    BY <1>0, <1>1 DEF ClientCancels, DeadlinePasses, Call
  <2>2. /\ PhaseOf(c)' = PhaseOf(c) /\ AnswerOf(c)' = AnswerOf(c)
        /\ ProcessOf(c)' = ProcessOf(c) /\ OthersKept(c)
    BY <2>1 DEF PhaseOf, AnswerOf, ProcessOf, OthersKept
  <2> QED
    BY <2>1, <2>2, KeptRun DEF Stutter
<1>2. CASE ContainerExits(c)
  <2>1. PICK k \in ExitCodes :
          box' = [box EXCEPT ![c].state = "exited", ![c].code = k]
    BY <1>2 DEF ContainerExits
  <2>2. /\ box'[c].code = k /\ UNCHANGED call
        /\ \A d \in Calls : d # c => box'[d] = box[d]
    BY <1>0, <1>2, <2>1 DEF ContainerExits, Box
  <2>3. k # NoCode /\ box[c].code = NoCode /\ box[c].state = "running"
    BY <1>0, <1>2, CMAssumption DEF CMAssumption, NoCode, ContainerExits, CodeInv
  <2>4. /\ ProcessOf(c) = "running" /\ ProcessOf(c)' = "exited"
        /\ PhaseOf(c)' = PhaseOf(c) /\ AnswerOf(c)' = AnswerOf(c)
        /\ OthersKept(c)
    BY <2>2, <2>3 DEF ProcessOf, PhaseOf, AnswerOf, OthersKept
  <2> QED
    BY <2>2, <2>4, OneRun, KeptRun
    DEF Promised!Exit, Phase, Answer, Process, ExitCode
<1>3. CASE ContainerAutoRemoved(c)
  <2>1. /\ box'[c].code = box[c].code /\ UNCHANGED call
        /\ \A d \in Calls : d # c => box'[d] = box[d]
    BY <1>0, <1>3, SetBoxEffect DEF ContainerAutoRemoved
  <2>2. box[c].code # NoCode
    BY <1>0, <1>3 DEF ContainerAutoRemoved, CodeInv
  <2>3. /\ ProcessOf(c)' = ProcessOf(c) /\ PhaseOf(c)' = PhaseOf(c)
        /\ AnswerOf(c)' = AnswerOf(c) /\ OthersKept(c)
    BY <2>1, <2>2 DEF ProcessOf, PhaseOf, AnswerOf, OthersKept
  <2> QED
    BY <2>1, <2>3, KeptRun DEF Stutter
<1> QED
  BY <1>1, <1>2, <1>3 DEF WorldStep

LEMMA AskRefines ==
  ASSUME CMInv, NEW c \in Calls, NEW i \in Images, RunFunction(c, i)
  PROVE  Promised!Ask(c)
<1>1. call \in [Calls -> Call] /\ call[c] \in Call
  BY DEF CMInv, CMTypeOK
<1>2. /\ call'[c].pc \in {"create", "inspect"} /\ call[c].pc = "idle"
      /\ UNCHANGED box /\ \A d \in Calls : d # c => call'[d] = call[d]
  BY <1>1 DEF RunFunction, daemon, Call
<1>3. /\ PhaseOf(c) = "idle" /\ PhaseOf(c)' = "open" /\ OthersKept(c)
      /\ AnswerOf(c)' = AnswerOf(c) /\ ProcessOf(c)' = ProcessOf(c)
  BY <1>2 DEF PhaseOf, AnswerOf, ProcessOf, OthersKept, InFlight, ImagePhase,
         Owning
<1> QED
  BY <1>2, <1>3, OneRun, KeptRun
  DEF Promised!Ask, Phase, Answer, Process, ExitCode

LEMMA CrashRefines == ASSUME CMInv, CMCrash PROVE Promised!Lose
<1>1. call \in [Calls -> Call] /\ UNCHANGED box
  BY DEF CMInv, CMTypeOK, CMCrash, daemon
<1>2. ASSUME NEW c \in Calls
      PROVE  /\ PhaseOf(c)' = IF PhaseOf(c) = "open" THEN "lost" ELSE PhaseOf(c)
             /\ AnswerOf(c)' = AnswerOf(c) /\ ProcessOf(c)' = ProcessOf(c)
  <2>1. /\ call[c] \in Call
        /\ call'[c].pc = IF call[c].pc \in InFlight THEN "lost" ELSE call[c].pc
        /\ call'[c].result = call[c].result
    BY <1>1 DEF CMCrash, Call
  <2> QED
    BY <1>1, <2>1 DEF PhaseOf, AnswerOf, ProcessOf, InFlight, ImagePhase, Owning, Call
<1> QED
  BY <1>1, <1>2 DEF Promised!Lose

LEMMA NextRefines ==
  ASSUME CMInv, [CMNext]_cmVars PROVE Promised!FRNext \/ Stutter
<1>1. ASSUME NEW c \in Calls, StepOf(c) PROVE Promised!FRNext \/ Stutter
  BY <1>1 DEF StepOf, Promised!FRNext
<1>2. ASSUME UNCHANGED <<call, box>> PROVE Stutter
  <2> \A c \in Calls : /\ PhaseOf(c)' = PhaseOf(c) /\ AnswerOf(c)' = AnswerOf(c)
                       /\ ProcessOf(c)' = ProcessOf(c)
    BY <1>2 DEF PhaseOf, AnswerOf, ProcessOf
  <2> QED
    BY <1>2 DEF Stutter, Phase, Answer, Process, ExitCode
<1>3. ASSUME NEW c \in Calls, EngineStep(c) PROVE StepOf(c)
  BY <1>3, RunStepRefines, RemoveRefines DEF EngineStep
<1>4. ASSUME NEW c \in Calls, WorldStep(c) PROVE StepOf(c)
  BY <1>4, WorldStepRefines DEF StepOf
<1>5. ASSUME NEW c \in Calls, NEW i \in Images, RunFunction(c, i)
      PROVE  Promised!FRNext
  BY <1>5, AskRefines DEF Promised!FRNext
<1>6. ASSUME CMCrash PROVE Promised!FRNext
  BY <1>6, CrashRefines DEF Promised!FRNext
<1>7. ASSUME \/ \E i \in Images : ImagePruned(i)
             \/ CMRestart \/ UNCHANGED cmVars
      PROVE  UNCHANGED <<call, box>>
  BY <1>7 DEF ImagePruned, CMRestart, daemon, cmVars
<1> QED
  BY <1>1, <1>2, <1>3, <1>4, <1>5, <1>6, <1>7 DEF CMNext

(* RunFunction keeps the promises of FunctionRun. *)
THEOREM ContainerManagerImplementsFunctionRun == CMSpec => ImplementsFunctionRun
<1>1. CMInit => Promised!FRInit
  BY InitRefines
<1>2. CMInv /\ [CMNext]_cmVars => [Promised!FRNext]_(Promised!vars)
  BY NextRefines
  DEF Stutter, Phase, Answer, Process, ExitCode, Promised!vars
<1> QED
  BY <1>1, <1>2, InvariantHolds, PTL DEF CMSpec, ImplementsFunctionRun, Promised!FRSpec
=============================================================================
