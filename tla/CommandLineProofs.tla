-------------------------- MODULE CommandLineProofs --------------------------
(***************************************************************************)
(* The proofs about CommandLine.  Every step of the commands is a step of  *)
(* the gateway or leaves it alone, so that the gateway's invariant (GWInv) *)
(* and the permanence of rows carry over; CommandInv ties what a command   *)
(* said, saw and showed to the answers and to the table.                   *)
(***************************************************************************)
EXTENDS CommandLine, GatewayProofs

(* A create that is done, as its row shows in a list.                      *)
Entry(q) == [ID |-> q, Timeout |-> functions[create[q].req.Name].TimeoutSeconds]

CreateSaidSo(q) == create[q].pc = "done" /\ create[q].code = Created
InvokeSaidSo(r) == request[r].pc = "done" /\ request[r].response.Code = 200
ListSaidSo(l) ==
  /\ \A q \in command[l].seen \cap Creates : Entry(q) \in command[l].shown
  /\ \A m \in command[l].seen \cap Lists : command[m].shown \subseteq command[l].shown

SuccessInv(c) ==
  /\ c \in Creates => CreateSaidSo(c)
  /\ c \in Invocations => InvokeSaidSo(c)
  /\ c \in Lists => ListSaidSo(c)

(* A command that says it failed has an answer that says so, or none.      *)
FailedInv(c) ==
  /\ c \in Creates =>
       create[c].pc \in {"new", "lost"} \/ (create[c].pc = "done" /\ create[c].code # Created)
  /\ c \in Invocations =>
       \/ request[c].pc \in {"new", "lost"}
       \/ request[c].pc = "done" /\ request[c].response.Code \notin {0, 200}

NotUnknown(r) ==
  \A q \in command[r].seen \cap Creates :
    request[r].name = create[q].req.Name => request[r].response.Code # 404

(* Only a command that was sent has a request, of the name its path holds. *)
AskedFor(r) ==
  /\ command[r].name \in Names
  /\ PathName[command[r].name] \in Names
  /\ request[r].name = PathName[command[r].name]

SentInv(c) ==
  /\ c \in Creates /\ create[c].pc # "new" => command[c].pc # "new"
  /\ c \in Invocations /\ request[c].pc # "new" => command[c].pc # "new" /\ AskedFor(c)

CommandInv(c) ==
  /\ SentInv(c)
  /\ command[c].pc # "ended" => command[c].said = "nothing"
  /\ command[c].seen \subseteq Succeeded
  /\ command[c].shown \subseteq Listing
  /\ command[c].said = "success" => SuccessInv(c)
  /\ command[c].said = "failed" => FailedInv(c)
  /\ c \in Invocations => NotUnknown(c)

CLInv == GWInv /\ CLTypeOK /\ \A c \in Commands : CommandInv(c)

-----------------------------------------------------------------------------
(* What a step of the gateway does to requests that are done, and when a   *)
(* name comes out as unknown.                                              *)

DoneStays ==
  /\ \A q \in Creates : CreateSaidSo(q) =>
       CreateSaidSo(q)' /\ create'[q].req = create[q].req
  /\ \A r \in Calls : InvokeSaidSo(r) => InvokeSaidSo(r)'

UnknownIsFree ==
  \A r \in Calls : request'[r].response.Code = 404 =>
    /\ request'[r].name = request[r].name
    /\ \/ request[r].response.Code = 404
       \/ request[r].name \in Names /\ functions[request[r].name] = NoRow

LEMMA GatewayKeeps ==
  ASSUME GWInv, [GWNext]_gwVars
  PROVE  RowsKept /\ DoneStays /\ UnknownIsFree
<1>1. /\ FSTypeOK /\ request \in [Calls -> Request]
      /\ \A r \in Calls : RequestInv(r)
  BY DEF GWInv, FSInv, GWTypeOK
<1>2. CASE UNCHANGED gwVars
  BY <1>2 DEF gwVars, RowsKept, DoneStays, UnknownIsFree, CreateSaidSo, InvokeSaidSo
<1>3. CASE CreateStep
  <2>1. FSStep /\ UNCHANGED request  BY <1>3 DEF CreateStep
  <2>2. RowsKept  BY <1>1, <2>1, RowsStay DEF RowsKept, FSNext
  <2>3. \A q \in Creates : create[q].pc = "done" => create'[q] = create[q]
    BY <1>1, <2>1
    DEF FSStep, FSTypeOK, CreateFunctionHandler, InsertFunction, InsertEnds, SendCreateAnswer
  <2>4. QED
    BY <2>1, <2>2, <2>3 DEF DoneStays, UnknownIsFree, CreateSaidSo, InvokeSaidSo
<1>4. CASE GWCrash
  <2>1. ASSUME NEW q \in Creates, CreateSaidSo(q)
        PROVE  CreateSaidSo(q)' /\ create'[q].req = create[q].req
    BY <1>1, <1>4, <2>1 DEF GWCrash, FSCrash, CreateSaidSo, FSTypeOK, CreateState
  <2>2. ASSUME NEW r \in Calls
        PROVE  /\ request'[r].response = request[r].response
               /\ request'[r].name = request[r].name
               /\ request[r].pc = "done" => request'[r].pc = "done"
    BY <1>1, <1>4 DEF GWCrash, Request
  <2>3. RowsKept  BY <1>4 DEF GWCrash, FSCrash, RowsKept
  <2>4. QED  BY <2>1, <2>2, <2>3 DEF DoneStays, UnknownIsFree, InvokeSaidSo
<1>5. CASE UNCHANGED fsVars /\ UNCHANGED request
  BY <1>5 DEF fsVars, RowsKept, DoneStays, UnknownIsFree, CreateSaidSo, InvokeSaidSo
<1>6. ASSUME NEW r \in Calls, UNCHANGED fsVars, request[r].pc # "done",
             \A d \in Calls : d # r => request'[d] = request[d],
             request'[r].response.Code = 404 =>
               /\ request'[r].name = request[r].name
               /\ request[r].name \in Names /\ functions[request[r].name] = NoRow
      PROVE  RowsKept /\ DoneStays /\ UnknownIsFree
  BY <1>6 DEF fsVars, RowsKept, DoneStays, UnknownIsFree, CreateSaidSo, InvokeSaidSo
<1>7. ASSUME NEW r \in Calls, UNCHANGED fsVars, request[r].pc # "done",
             \A d \in Calls : d # r => request'[d] = request[d],
             request'[r].response = request[r].response
      PROVE  RowsKept /\ DoneStays /\ UnknownIsFree
  <2>1. request[r].response.Code = 0  BY <1>1, <1>7 DEF RequestInv
  <2>2. request'[r].response.Code # 404  BY <1>7, <2>1
  <2>3. QED  BY <1>6, <1>7, <2>2
<1>8. ASSUME NEW r \in Calls, NEW n \in Names, InvokeFunctionHandler(r, n)
      PROVE  RowsKept /\ DoneStays /\ UnknownIsFree
  <2>1. UNCHANGED fsVars /\ request[r].pc = "new"  BY <1>8 DEF InvokeFunctionHandler
  <2>2. /\ request'[r].response = request[r].response
        /\ \A d \in Calls : d # r => request'[d] = request[d]
    BY <1>1, <1>8 DEF InvokeFunctionHandler, Request
  <2>3. QED  BY <1>7, <2>1, <2>2
<1>9. ASSUME NEW r \in Calls, HandlerStep(r)
      PROVE  RowsKept /\ DoneStays /\ UnknownIsFree
  <2>1. UNCHANGED fsVars /\ request[r].pc # "done"
    BY <1>9 DEF HandlerStep, QueryFunction, StoreFunction, LoadEnv, StoreEnv, RunFunction,
       SpawnRecorder, Respond, TestRun
  <2>2. \A d \in Calls : d # r => request'[d] = request[d]
    BY <1>1, <1>9 DEF HandlerStep, QueryFunction, Refuse, StoreFunction, LoadEnv, StoreEnv,
       RunFunction, SpawnRecorder, Respond, TestRun
  <2>3. CASE StoreFunction(r) \/ LoadEnv(r) \/ StoreEnv(r) \/ RunFunction(r)
               \/ SpawnRecorder(r)
    <3>1. request'[r].response = request[r].response
      BY <1>1, <2>3 DEF StoreFunction, LoadEnv, StoreEnv, RunFunction, SpawnRecorder,
         Request
    <3>2. QED  BY <1>7, <2>1, <2>2, <3>1
  <2>4. CASE Respond(r)
    <3>1. request'[r].response.Code \in {200, 500}
      BY <1>1, <2>4 DEF Respond, ResponseOf, Refusal, Request
    <3>2. QED  BY <1>6, <2>1, <2>2, <3>1
  <2>5. CASE QueryFunction(r)
    <3>1. request[r].name \in Names  BY <1>1, <2>5 DEF QueryFunction, RequestInv
    <3>2. ASSUME NEW code, Refuse(r, code)
          PROVE  request'[r].name = request[r].name /\ request'[r].response.Code = code
      BY <1>1, <3>2 DEF Refuse, Refusal, Request
    <3>3. \/ functions[request[r].name] = NoRow /\ Refuse(r, 404)
          \/ Refuse(r, 500)
          \/ request' = [request EXCEPT ![r].fn = functions[request[r].name],
                                        ![r].pc = "store"]
      BY <2>5 DEF QueryFunction
    <3>4. CASE functions[request[r].name] = NoRow /\ Refuse(r, 404)
      BY <1>6, <2>1, <2>2, <3>1, <3>2, <3>4
    <3>5. CASE Refuse(r, 500)
      <4>1. request'[r].response.Code = 500  BY <3>2, <3>5
      <4>2. QED  BY <1>6, <2>1, <2>2, <4>1
    <3>6. CASE request' = [request EXCEPT ![r].fn = functions[request[r].name],
                                          ![r].pc = "store"]
      <4>1. request'[r].response = request[r].response  BY <1>1, <3>6 DEF Request
      <4>2. QED  BY <1>7, <2>1, <2>2, <4>1
    <3>7. QED  BY <3>3, <3>4, <3>5, <3>6
  <2>6. QED  BY <1>9, <2>3, <2>4, <2>5 DEF HandlerStep
<1>10. ASSUME NEW r \in Calls, WriteExecution(r) \/ RunStep(r)
      PROVE  RowsKept /\ DoneStays /\ UnknownIsFree
  BY <1>5, <1>10 DEF WriteExecution, RunStep, Serving
<1>11. CASE GWRestart  BY <1>5, <1>11 DEF GWRestart
<1>12. QED
  BY <1>2, <1>3, <1>4, <1>8, <1>9, <1>10, <1>11 DEF GWNext

(* The engine makes no request of its own, and changes none that has ended.*)
LEMMA EngineKeepsRequest ==
  ASSUME GWInv, EngineStep \/ GWCrash, NEW r \in Invocations
  PROVE  /\ request'[r].name = request[r].name
         /\ request[r].pc \in {"new", "done", "lost"} =>
              /\ request'[r].pc = request[r].pc
              /\ request'[r].response = request[r].response
<1> DEFINE Kept ==
      /\ request'[r].name = request[r].name
      /\ request[r].pc \in {"new", "done", "lost"} =>
           /\ request'[r].pc = request[r].pc
           /\ request'[r].response = request[r].response
<1> SUFFICES Kept  OBVIOUS
<1>1. request \in [Calls -> Request] /\ r \in Calls /\ r \notin TestRuns
  BY DEF GWInv, GWTypeOK, Invocations
<1>2. ASSUME NEW d \in Calls, HandlerStep(d), d # r PROVE Kept
  BY <1>1, <1>2 DEF HandlerStep, QueryFunction, Refuse, StoreFunction, LoadEnv, StoreEnv,
     RunFunction, SpawnRecorder, Respond, TestRun
<1>3. ASSUME HandlerStep(r) PROVE Kept
  <2>1. request[r].pc \notin {"new", "done", "lost"}
    BY <1>1, <1>3 DEF HandlerStep, QueryFunction, StoreFunction, LoadEnv, StoreEnv,
       RunFunction, SpawnRecorder, Respond, TestRun
  <2>2. CASE StoreFunction(r) \/ LoadEnv(r)
    BY <1>1, <2>1, <2>2 DEF StoreFunction, LoadEnv, Request
  <2>5. CASE QueryFunction(r)
    <3>1. request'[r].name = request[r].name
      <4>1. ASSUME NEW code, Refuse(r, code) PROVE request'[r].name = request[r].name
        BY <1>1, <4>1 DEF Refuse, Request
      <4>2. \/ request'[r].name = request[r].name
            \/ request' = [request EXCEPT ![r].fn = functions[request[r].name],
                                          ![r].pc = "store"]
        BY <2>5, <4>1 DEF QueryFunction
      <4>3. QED  BY <1>1, <4>2 DEF Request
    <3>2. QED  BY <2>1, <3>1
  <2>3. CASE StoreEnv(r) \/ RunFunction(r) \/ SpawnRecorder(r) \/ Respond(r)
    BY <1>1, <2>1, <2>3 DEF StoreEnv, RunFunction, SpawnRecorder, Respond, Request
  <2>4. QED  BY <1>3, <2>2, <2>3, <2>5 DEF HandlerStep
<1>4. CASE GWCrash
  <2>1. request'[r] = [request[r] EXCEPT
          !.pc = IF @ \in {"new", "done"} THEN @ ELSE "lost"]
    BY <1>1, <1>4 DEF GWCrash
  <2>2. QED  BY <1>1, <2>1 DEF Request
<1>5. CASE UNCHANGED request  BY <1>5
<1>6. QED
  BY <1>2, <1>3, <1>4, <1>5
  DEF EngineStep, InsertStep, WriteExecution, RunStep, Serving, GWRestart

LEMMA EngineKeepsCreate ==
  ASSUME GWInv, EngineStep \/ GWCrash, NEW q \in Creates,
         create[q].pc \in {"new", "done", "lost"}
  PROVE  create'[q].pc = create[q].pc /\ create'[q].code = create[q].code
<1>1. create \in [Creates -> CreateState]  BY DEF GWInv, FSInv, FSTypeOK
<1>2. ASSUME NEW d \in Creates, InsertStep(d)
      PROVE  create'[q] = create[q]
  BY <1>1, <1>2 DEF InsertStep, InsertFunction, InsertEnds, SendCreateAnswer
<1>3. CASE GWCrash
  <2>1. create'[q] = [create[q] EXCEPT
          !.pc = IF @ \in {"insert", "inserted"} THEN "lost" ELSE @]
    BY <1>1, <1>3 DEF GWCrash, FSCrash
  <2>2. QED  BY <1>1, <2>1 DEF CreateState
<1>4. CASE UNCHANGED create  BY <1>4
<1>5. QED
  BY <1>2, <1>3, <1>4
  DEF EngineStep, HandlerStep, QueryFunction, StoreFunction, LoadEnv, StoreEnv, RunFunction,
      SpawnRecorder, Respond, WriteExecution, RunStep, Serving, GWRestart, fsVars

-----------------------------------------------------------------------------
(* Every step is one of the gateway, or leaves it alone.                   *)
LEMMA CommandStepIsGateway == [CLNext]_clVars => [GWNext]_gwVars
<1> SUFFICES ASSUME [CLNext]_clVars PROVE [GWNext]_gwVars  OBVIOUS
<1>1. CASE CommandStarts
  BY <1>1 DEF CommandStarts, CreateCommand, InvokeCommand, ListCommand, GWNext, CreateStep,
     FSStep, Invocations
<1>2. CASE CommandEnds
  BY <1>2 DEF CommandEnds, CreateCommandEnds, InvokeCommandEnds, ListCommandEnds
<1>3. CASE EngineStep
  BY <1>3 DEF EngineStep, InsertStep, GWNext, CreateStep, FSStep
<1>4. CASE EngineDies  BY <1>4 DEF EngineDies, GWNext
<1>5. CASE UNCHANGED gwVars  BY <1>5
<1>6. QED
  BY <1>1, <1>2, <1>3, <1>4, <1>5 DEF CLNext, Unreachable, InvokeUnrouted, clVars

(* What a step does to one command: it starts, seeing what has succeeded,  *)
(* or ends, with a success only if it has one.                             *)
Starts(c) ==
  /\ command[c].pc = "new" /\ command'[c].pc = "sent"
  /\ command'[c].said = command[c].said
  /\ command'[c].shown = command[c].shown
  /\ command'[c].seen \subseteq Succeeded
  /\ c \in Lists => command'[c].seen = Succeeded
  /\ c \in Invocations => request'[c].response.Code # 404 /\ AskedFor(c)'

Ends(c) ==
  /\ command[c].pc # "ended" /\ command'[c].pc = "ended"
  /\ command'[c].name = command[c].name
  /\ command'[c].seen = command[c].seen
  /\ command'[c].shown \in {{}, command[c].shown, Listing}
  /\ command'[c].said = "success" =>
       /\ c \in Creates => CreateSaidSo(c)
       /\ c \in Invocations => InvokeSaidSo(c)
       /\ c \in Lists => command'[c].shown = Listing
       /\ UNCHANGED gwVars
  /\ command'[c].said = "failed" => FailedInv(c) /\ (c \notin Lists => UNCHANGED gwVars)

Moves(c) == command'[c] = command[c] \/ Starts(c) \/ Ends(c)

LEMMA SetCommand ==
  ASSUME CLTypeOK, NEW c \in Commands, NEW st \in Command,
         command' = [command EXCEPT ![c] = st]
  PROVE  /\ CLTypeOK'
         /\ command'[c] = st
         /\ \A d \in Commands : d # c => command'[d] = command[d]
BY DEF CLTypeOK

LEMMA LimitsHold ==
  ASSUME FSInv, NEW n \in Names, functions[n] # NoRow
  PROVE  functions[n].TimeoutSeconds \in Int /\ functions[n].TimeoutSeconds > 0
<1> DEFINE req == create[functions[n].ID].req
<1>1. /\ Bound(req)
      /\ functions[n].TimeoutSeconds = OrDefault(req.TimeoutSeconds, 30)
  BY DEF FSInv, RowInv, MadeOf
<1> HIDE DEF req
<1>2. QED  BY <1>1 DEF Bound, OrDefault

LEMMA ListingTyped == GWInv => Listing \subseteq Listed
<1> SUFFICES ASSUME GWInv, NEW n \in Names, functions[n] # NoRow
             PROVE  ListingOf(functions[n]) \in Listed
  BY DEF Listing, ListFunctions
<1> DEFINE row == functions[n]
<1>1. row \in Rows /\ row.TimeoutSeconds > 0
  BY LimitsHold DEF GWInv, FSInv, FSTypeOK
<1>2. row.ID \in Creates /\ row.TimeoutSeconds \in TimeoutInputs \cup {30}
  BY <1>1 DEF Rows
<1>3. ListingOf(row) = [ID |-> row.ID, Timeout |-> row.TimeoutSeconds]
  BY <1>1 DEF ListingOf, GetTimeout
<1> HIDE DEF row
<1>4. ListingOf(row) \in Listed  BY <1>2, <1>3 DEF Listed
<1>5. QED  BY <1>4 DEF row

LEMMA StartMoves ==
  ASSUME CLInv, NEW c \in Commands, NEW n \in Names \cup {BadName},
         NEW before \in SUBSET Succeeded, Send(c, n, before),
         c \in Lists => before = Succeeded,
         c \in Invocations =>
           /\ request'[c].response.Code # 404
           /\ n \in Names /\ PathName[n] \in Names /\ request'[c].name = PathName[n]
  PROVE  CLTypeOK' /\ \A d \in Commands : Moves(d)
<1> DEFINE st == [command[c] EXCEPT !.pc = "sent", !.name = n, !.seen = before]
<1>1. CLTypeOK /\ command[c] \in Command /\ Succeeded \subseteq Creates \cup Lists
  BY DEF CLInv, CLTypeOK, Succeeded
<1>2. /\ st \in Command /\ st.said = command[c].said /\ st.shown = command[c].shown
      /\ st.seen = before /\ st.pc = "sent" /\ st.name = n
  BY <1>1 DEF Command
<1>3. command' = [command EXCEPT ![c] = st]  BY DEF Send
<1> HIDE DEF st
<1>4. /\ CLTypeOK' /\ command'[c] = st
      /\ \A d \in Commands : d # c => command'[d] = command[d]
  BY <1>1, <1>2, <1>3 DEF CLTypeOK
<1>5. Starts(c)  BY <1>2, <1>4 DEF Starts, Send, AskedFor
<1>6. QED  BY <1>4, <1>5 DEF Moves

LEMMA EndMoves ==
  ASSUME CLInv, NEW c \in Commands, UNCHANGED gwVars, command[c].pc # "ended",
         NEW says \in {"success", "failed", "status"}, NEW table \in {{}, Listing},
         EndWith(c, says, table),
         says = "success" =>
           /\ c \in Creates => CreateSaidSo(c)
           /\ c \in Invocations => InvokeSaidSo(c)
           /\ c \in Lists => table = Listing,
         says = "failed" => FailedInv(c)
  PROVE  CLTypeOK' /\ \A d \in Commands : Moves(d)
<1> DEFINE st == [command[c] EXCEPT !.pc = "ended", !.said = says, !.shown = table]
<1>1. CLTypeOK /\ command[c] \in Command /\ table \subseteq Listed
  BY ListingTyped DEF CLInv, CLTypeOK
<1>2. /\ st \in Command /\ st.pc = "ended" /\ st.said = says /\ st.shown = table
      /\ st.seen = command[c].seen /\ st.name = command[c].name
  BY <1>1 DEF Command
<1>3. command' = [command EXCEPT ![c] = st]  BY DEF EndWith
<1> HIDE DEF st
<1>4. /\ CLTypeOK' /\ command'[c] = st
      /\ \A d \in Commands : d # c => command'[d] = command[d]
  BY <1>1, <1>2, <1>3, SetCommand
<1>5. Ends(c)  BY <1>2, <1>4 DEF Ends
<1>6. QED  BY <1>4, <1>5 DEF Moves

LEMMA CommandMoves ==
  ASSUME CLInv, [CLNext]_clVars
  PROVE  CLTypeOK' /\ \A c \in Commands : Moves(c)
<1>1. Creates \subseteq Commands /\ Invocations \subseteq Commands /\ Lists \subseteq Commands
  BY DEF Commands
<1>2. /\ Creates \cap Invocations = {} /\ Lists \cap (Creates \cup Invocations) = {}
      /\ Invocations \subseteq Calls
  BY CLAssumption DEF Invocations
<1>3. CASE UNCHANGED command
  BY <1>3 DEF CLInv, CLTypeOK, Moves
<1>4. ASSUME NEW q \in Creates, NEW req \in CreateFunctionRequest, CreateCommand(q, req)
      PROVE  CLTypeOK' /\ \A c \in Commands : Moves(c)
  BY <1>1, <1>2, <1>4, StartMoves DEF CreateCommand, Succeeded
<1>5. ASSUME NEW r \in Invocations, NEW n \in Names, InvokeCommand(r, n)
      PROVE  CLTypeOK' /\ \A c \in Commands : Moves(c)
  <2>1. /\ request'[r].response = request[r].response
        /\ PathName[n] \in Names /\ request'[r].name = PathName[n]
    BY <1>2, <1>5 DEF InvokeCommand, InvokeFunctionHandler, CLInv, GWInv, GWTypeOK, Request
  <2>2. request[r].response.Code = 0
    BY <1>2, <1>5 DEF InvokeCommand, InvokeFunctionHandler, CLInv, GWInv, RequestInv
  <2>3. request'[r].response.Code # 404  BY <2>1, <2>2
  <2>4. Succeeded \cap Creates \in SUBSET Succeeded /\ r \notin Lists
    BY <1>2
  <2>5. QED  BY <1>1, <1>5, <2>1, <2>3, <2>4, StartMoves DEF InvokeCommand
<1>6. ASSUME NEW l \in Lists, ListCommand(l)
      PROVE  CLTypeOK' /\ \A c \in Commands : Moves(c)
  BY <1>1, <1>2, <1>6, StartMoves DEF ListCommand
<1>7. ASSUME NEW q \in Creates, CreateCommandEnds(q)
      PROVE  CLTypeOK' /\ \A c \in Commands : Moves(c)
  <2>1. CreateSays(q) \in {"success", "failed", "status"}  BY DEF CreateSays
  <2>2. CreateSays(q) = "success" => CreateSaidSo(q)
    <3>1. CreateAnswer(q).statusCode = create[q].code
      BY DEF CreateAnswer, Status, WithError, NewResponser
    <3>2. create[q].code \in {0, Created, BadRequest, Conflict, ServerError}
      BY DEF CLInv, GWInv, FSInv, FSTypeOK, CreateState
    <3>3. QED
      BY <3>1, <3>2 DEF CreateSays, CreateSaidSo, Created, BadRequest, Conflict, ServerError
  <2>5. CreateSays(q) = "failed" => FailedInv(q)
    <3>1. create[q].pc \in {"done", "lost"}  BY <1>7 DEF CreateCommandEnds
    <3>2. create[q].code = Created => CreateAnswer(q).statusCode = 201
      BY DEF CreateAnswer, Status, NewResponser, Created
    <3>3. QED  BY <1>2, <3>1, <3>2 DEF CreateSays, FailedInv
  <2>3. UNCHANGED gwVars /\ command[q].pc # "ended" /\ EndWith(q, CreateSays(q), {})
    BY <1>7 DEF CreateCommandEnds
  <2>4. QED  BY <1>1, <1>2, <2>1, <2>2, <2>3, <2>5, EndMoves
<1>8. ASSUME NEW r \in Invocations, InvokeCommandEnds(r)
      PROVE  CLTypeOK' /\ \A c \in Commands : Moves(c)
  <2>1. InvokeSays(r) \in {"success", "failed", "status"}  BY DEF InvokeSays
  <2>2. InvokeSays(r) = "success" => InvokeSaidSo(r)
    <3> DEFINE code == request[r].response.Code
    <3>1. Status(NewResponser, code).statusCode = code  BY DEF Status, NewResponser
    <3>2. code # 200 => ~InvokeAnswer(r).Success
      BY <3>1 DEF InvokeAnswer, WithError, Status, NewResponser
    <3>3. QED  BY <3>2 DEF InvokeSays, InvokeSaidSo
  <2>5. InvokeSays(r) = "failed" => FailedInv(r)
    <3>1. request[r].pc \in {"done", "lost"}  BY <1>8 DEF InvokeCommandEnds
    <3>2. request[r].response.Code = 200 => InvokeAnswer(r).Success
      BY DEF InvokeAnswer, Status, NewResponser
    <3>3. request[r].pc = "done" => request[r].response.Code # 0
      BY <1>2 DEF CLInv, GWInv, RequestInv
    <3>4. QED  BY <1>2, <3>1, <3>2, <3>3 DEF InvokeSays, FailedInv
  <2>3. UNCHANGED gwVars /\ command[r].pc # "ended" /\ EndWith(r, InvokeSays(r), {})
    BY <1>8 DEF InvokeCommandEnds
  <2>4. QED  BY <1>1, <1>2, <2>1, <2>2, <2>3, <2>5, EndMoves
<1>9. ASSUME NEW l \in Lists, ListCommandEnds(l)
      PROVE  CLTypeOK' /\ \A c \in Commands : Moves(c)
  <2>1. /\ UNCHANGED gwVars /\ command[l].pc # "ended"
        /\ EndWith(l, "success", Listing) \/ EndWith(l, "failed", {})
    BY <1>9 DEF ListCommandEnds
  <2>2. FailedInv(l)  BY <1>2 DEF FailedInv
  <2>3. QED  BY <1>1, <1>2, <2>1, <2>2, EndMoves
<1>10. ASSUME NEW c \in Commands, Unreachable(c)
       PROVE  CLTypeOK' /\ \A d \in Commands : Moves(d)
  <2>1. UNCHANGED gwVars /\ command[c].pc # "ended" /\ EndWith(c, "failed", {})
    BY <1>10 DEF Unreachable
  <2>2. FailedInv(c)  BY <1>10 DEF Unreachable, CLInv, CommandInv, SentInv, FailedInv
  <2>3. QED  BY <2>1, <2>2, EndMoves
<1>11. ASSUME NEW r \in Invocations, NEW n \in Names, InvokeUnrouted(r, n)
       PROVE  CLTypeOK' /\ \A d \in Commands : Moves(d)
  <2>1. /\ UNCHANGED gwVars /\ command[r].pc = "new"
        /\ EndWith(r, "status", {}) \/ EndWith(r, "failed", {})
    BY <1>11 DEF InvokeUnrouted
  <2>2. FailedInv(r)
    BY <1>1, <1>2, <2>1 DEF CLInv, CommandInv, SentInv, FailedInv
  <2>3. QED  BY <1>1, <2>1, <2>2, EndMoves
<1>12. CASE EngineDies
  <2> DEFINE st(c) == [command[c] EXCEPT !.pc = "ended", !.said = "failed"]
  <2>1. ASSUME NEW c \in Commands
        PROVE  /\ st(c) \in Command /\ st(c).pc = "ended" /\ st(c).said = "failed"
               /\ st(c).shown = command[c].shown /\ st(c).seen = command[c].seen
               /\ st(c).name = command[c].name
    <3>1. command[c] \in Command  BY DEF CLInv, CLTypeOK
    <3>2. QED  BY <3>1 DEF Command
  <2>2. command' = [c \in Commands |->
          IF c \in Lists /\ command[c].pc = "sent" THEN st(c) ELSE command[c]]
    BY <1>12 DEF EngineDies
  <2> HIDE DEF st
  <2>3. CLTypeOK'  BY <2>1, <2>2 DEF CLInv, CLTypeOK
  <2>4. ASSUME NEW c \in Commands PROVE Moves(c)
    <3>1. CASE c \in Lists /\ command[c].pc = "sent"
      BY <1>2, <2>1, <2>2, <3>1 DEF Moves, Ends, FailedInv
    <3>2. CASE ~(c \in Lists /\ command[c].pc = "sent")
      BY <2>2, <3>2 DEF Moves
    <3>3. QED  BY <3>1, <3>2
  <2>5. QED  BY <2>3, <2>4
<1>13. QED
  BY <1>3, <1>4, <1>5, <1>6, <1>7, <1>8, <1>9, <1>10, <1>11, <1>12
  DEF CLNext, CommandStarts, CommandEnds, clVars

-----------------------------------------------------------------------------
(* The invariant. *)

LEMMA CLInitHolds == CLInit => CLInv
<1> SUFFICES ASSUME CLInit PROVE CLInv  OBVIOUS
<1>1. GWInv  BY GWInitHolds DEF CLInit
<1>2. NewCommand \in Command  BY DEF NewCommand, Command
<1>3. /\ NewCommand.pc = "new" /\ NewCommand.said = "nothing"
      /\ NewCommand.shown = {} /\ NewCommand.seen = {}
      /\ \A q \in Creates : create[q].pc = "new"
      /\ \A r \in Invocations : request[r].pc = "new"
  BY DEF NewCommand, CLInit, GWInit, FSInit, Invocations
<1>4. command = [c \in Commands |-> NewCommand]  BY DEF CLInit
<1> HIDE DEF NewCommand
<1>5. CLTypeOK  BY <1>2, <1>4 DEF CLTypeOK
<1>6. ASSUME NEW c \in Commands PROVE CommandInv(c)
  BY <1>3, <1>4 DEF CommandInv, SentInv, NotUnknown
<1>7. QED  BY <1>1, <1>5, <1>6 DEF CLInv

(* The table only grows, and what a command is known to have done stays.   *)
LEMMA ListingGrows == RowsKept => Listing \subseteq Listing'
BY DEF RowsKept, Listing, ListFunctions

LEMMA CreatedEntry ==
  ASSUME GWInv, NEW q \in Creates, CreateSaidSo(q)
  PROVE  /\ create[q].req.Name \in Names
         /\ functions[create[q].req.Name] # NoRow
         /\ functions[create[q].req.Name].ID = q
         /\ Entry(q) \in Listing
<1> DEFINE n == create[q].req.Name
<1>1. n \in Names /\ functions[n] # NoRow /\ functions[n].ID = q
  BY DEF CreateSaidSo, GWInv, FSInv, CreateInv, MadeOf
<1>2. functions[n].TimeoutSeconds \in Int /\ functions[n].TimeoutSeconds > 0
  BY <1>1, LimitsHold DEF GWInv
<1>3. ListingOf(functions[n]) = Entry(q)
  BY <1>1, <1>2 DEF ListingOf, GetTimeout, Entry
<1>4. functions[n] \in ListFunctions  BY <1>1 DEF ListFunctions
<1>5. QED  BY <1>1, <1>3, <1>4 DEF Listing

LEMMA SuccessStays ==
  ASSUME CLInv, [CLNext]_clVars, NEW c \in Commands, command[c].said = "success"
  PROVE  command'[c] = command[c] /\ SuccessInv(c)'
<1>1. Creates \subseteq Commands /\ Lists \subseteq Commands
      /\ Invocations \subseteq Calls
  BY DEF Commands, Invocations
<1>2. ASSUME NEW d \in Commands, command[d].said = "success"
      PROVE  command'[d] = command[d] /\ SuccessInv(d)
  BY <1>2, CommandMoves DEF CLInv, CommandInv, Moves, Starts, Ends
<1>3. command'[c] = command[c] /\ SuccessInv(c)  BY <1>2
<1>4. GWInv /\ RowsKept /\ DoneStays
  BY CommandStepIsGateway, GatewayKeeps DEF CLInv
<1>5. ASSUME NEW q \in Creates, CreateSaidSo(q)
      PROVE  CreateSaidSo(q)' /\ Entry(q)' = Entry(q)
  BY <1>4, <1>5, CreatedEntry DEF DoneStays, RowsKept, Entry
<1>6. c \in Creates => CreateSaidSo(c)'  BY <1>3, <1>5 DEF SuccessInv
<1>7. c \in Invocations => InvokeSaidSo(c)'
  BY <1>1, <1>3, <1>4 DEF SuccessInv, DoneStays
<1>8. ASSUME c \in Lists PROVE ListSaidSo(c)'
  <2>1. ListSaidSo(c) /\ command[c].seen \subseteq Succeeded
    BY <1>3, <1>8 DEF SuccessInv, CLInv, CommandInv
  <2>2. ASSUME NEW q \in command[c].seen \cap Creates PROVE Entry(q)' \in command[c].shown
    <3>1. command[q].said = "success"  BY <2>1 DEF Succeeded
    <3>2. CreateSaidSo(q)  BY <1>1, <1>2, <3>1 DEF SuccessInv
    <3>3. QED  BY <1>5, <2>1, <3>2 DEF ListSaidSo
  <2>3. ASSUME NEW m \in command[c].seen \cap Lists PROVE command'[m] = command[m]
    BY <1>1, <1>2, <2>1 DEF Succeeded
  <2>4. QED  BY <1>3, <2>1, <2>2, <2>3 DEF ListSaidSo
<1>9. QED  BY <1>3, <1>6, <1>7, <1>8 DEF SuccessInv

(* A request that has not come in, or that has ended, is changed by nothing*)
(* but its command's start; and every request keeps its name.              *)
LEMMA RequestStays ==
  ASSUME CLInv, [CLNext]_clVars, NEW c \in Commands, ~Starts(c)
  PROVE  /\ c \in Invocations =>
              /\ request'[c].name = request[c].name
              /\ request[c].pc \in {"new", "done", "lost"} =>
                   /\ request'[c].pc = request[c].pc
                   /\ request'[c].response = request[c].response
         /\ c \in Creates /\ create[c].pc \in {"new", "done", "lost"} =>
              create'[c].pc = create[c].pc /\ create'[c].code = create[c].code
<1>1. Moves(c) /\ CLTypeOK'  BY CommandMoves
<1>2. ~(command[c].pc = "new" /\ command'[c].pc = "sent")
  BY <1>1 DEF Moves, Ends
<1>3. /\ GWInv /\ CLTypeOK /\ Creates \subseteq Commands /\ Invocations \subseteq Commands
      /\ request \in [Calls -> Request] /\ create \in [Creates -> CreateState]
      /\ Invocations \subseteq Calls
  BY DEF CLInv, GWInv, GWTypeOK, FSInv, FSTypeOK, Commands, Invocations
<1>4. ASSUME NEW d \in Commands, NEW n, NEW before, Send(d, n, before)
      PROVE  d # c
  <2>1. command[d].pc = "new" /\ command'[d].pc = "sent"
    BY <1>3, <1>4 DEF Send, CLTypeOK, Command
  <2>2. QED  BY <1>2, <2>1
<1>5. ASSUME NEW q \in Creates, NEW req \in CreateFunctionRequest, CreateCommand(q, req)
      PROVE  UNCHANGED request /\ (c \in Creates => create'[c] = create[c])
  BY <1>3, <1>4, <1>5 DEF CreateCommand, CreateFunctionHandler
<1>6. ASSUME NEW r \in Invocations, NEW n \in Names, InvokeCommand(r, n)
      PROVE  UNCHANGED create /\ (c \in Invocations => request'[c] = request[c])
  BY <1>3, <1>4, <1>6 DEF InvokeCommand, InvokeFunctionHandler, fsVars
<1>7. CASE EngineStep \/ EngineDies
  BY <1>3, <1>7, EngineKeepsRequest, EngineKeepsCreate DEF EngineDies
<1>8. CASE UNCHANGED gwVars  BY <1>8 DEF gwVars
<1>9. QED
  BY <1>5, <1>6, <1>7, <1>8
  DEF CLNext, CommandStarts, CommandEnds, ListCommand, CreateCommandEnds, InvokeCommandEnds,
      ListCommandEnds, Unreachable, InvokeUnrouted, clVars

LEMMA CLStepHolds == CLInv /\ [CLNext]_clVars => CLInv'
<1> SUFFICES ASSUME CLInv, [CLNext]_clVars PROVE CLInv'  OBVIOUS
<1>1. GWInv /\ [GWNext]_gwVars  BY CommandStepIsGateway DEF CLInv
<1>2. GWInv' /\ RowsKept /\ DoneStays /\ UnknownIsFree
  BY <1>1, GWStepHolds, GatewayKeeps
<1>3. CLTypeOK' /\ \A c \in Commands : Moves(c)  BY CommandMoves
<1>4. Succeeded \subseteq Succeeded' /\ Listing \subseteq Listing'
  BY <1>2, SuccessStays, ListingGrows DEF Succeeded, Commands
<1>5. ASSUME NEW q \in Creates, q \in Succeeded PROVE CreateSaidSo(q)
  BY <1>5 DEF Succeeded, Commands, CLInv, CommandInv, SuccessInv
<1>6. ASSUME NEW c \in Commands PROVE CommandInv(c)'
  <2>1. CommandInv(c) /\ Moves(c)  BY <1>3 DEF CLInv
  <2>2. command'[c].pc # "ended" => command'[c].said = "nothing"
    BY <2>1 DEF CommandInv, Moves, Starts, Ends
  <2>3. command'[c].seen \subseteq Succeeded'
    BY <1>4, <2>1 DEF CommandInv, Moves, Starts, Ends
  <2>4. command'[c].shown \subseteq Listing'
    BY <1>4, <2>1 DEF CommandInv, Moves, Starts, Ends
  <2>5. ASSUME command'[c].said = "success" PROVE SuccessInv(c)'
    <3>1. CASE command[c].said = "success"  BY <3>1, SuccessStays
    <3>2. CASE command[c].said # "success"
      <4>1. Ends(c)  BY <2>1, <2>5, <3>2 DEF Moves, Starts
      <4>2. /\ command'[c].seen \subseteq Succeeded /\ UNCHANGED gwVars
            /\ c \in Lists => command'[c].shown = Listing
        BY <2>1, <2>5, <4>1 DEF Ends, CommandInv
      <4>3. /\ c \in Creates => CreateSaidSo(c)'
            /\ c \in Invocations => InvokeSaidSo(c)'
        BY <2>5, <4>1 DEF Ends, gwVars, CreateSaidSo, InvokeSaidSo
      <4>4. ASSUME c \in Lists, NEW q \in command'[c].seen \cap Creates
            PROVE  Entry(q)' \in command'[c].shown
        BY <1>1, <1>5, <4>2, <4>4, CreatedEntry DEF gwVars, Entry
      <4>5. ASSUME c \in Lists, NEW m \in command'[c].seen \cap Lists
            PROVE  command'[m].shown \subseteq command'[c].shown
        BY <4>2, <4>5, SuccessStays DEF Succeeded, Commands, CLInv, CommandInv
      <4>6. QED  BY <4>3, <4>4, <4>5 DEF SuccessInv, ListSaidSo
    <3>3. QED  BY <3>1, <3>2
  <2>6. ASSUME c \in Invocations PROVE NotUnknown(c)'
    <3> SUFFICES ASSUME NEW q \in command'[c].seen \cap Creates,
                        request'[c].name = create'[q].req.Name,
                        request'[c].response.Code = 404
                 PROVE  FALSE
      BY DEF NotUnknown
    <3>1. command'[c].seen = command[c].seen
      BY <2>1, <2>6 DEF Moves, Starts, Ends
    <3>2. CreateSaidSo(q)  BY <1>5, <2>1, <3>1 DEF CommandInv
    <3>3. /\ create'[q].req = create[q].req
          /\ functions[create[q].req.Name] # NoRow
      BY <1>1, <1>2, <3>2, CreatedEntry DEF DoneStays
    <3>4. /\ request[c].name = create[q].req.Name
          /\ request[c].response.Code = 404
      BY <1>2, <2>6, <3>3 DEF UnknownIsFree, Invocations
    <3>5. QED  BY <2>1, <2>6, <3>1, <3>4 DEF CommandInv, NotUnknown
  <2>7. SentInv(c)'
    <3>1. CASE Starts(c)  BY <3>1 DEF Starts, SentInv
    <3>2. CASE ~Starts(c)
      <4>1. /\ command[c].pc # "new" => command'[c].pc # "new"
            /\ command'[c].name = command[c].name
        BY <2>1, <3>2 DEF Moves, Ends
      <4>2. SentInv(c)  BY <2>1 DEF CommandInv
      <4>3. QED  BY <3>2, <4>1, <4>2, RequestStays DEF SentInv, AskedFor
    <3>3. QED  BY <3>1, <3>2
  <2>8. ASSUME command'[c].said = "failed" PROVE FailedInv(c)'
    <3>1. FailedInv(c)
      <4>1. CASE command[c].said = "failed"  BY <2>1, <4>1 DEF CommandInv
      <4>2. CASE command[c].said # "failed"
        BY <2>1, <2>8, <4>2 DEF Moves, Starts, Ends
      <4>3. QED  BY <4>1, <4>2
    <3>2. ~Starts(c)  BY <2>1, <2>8 DEF Starts, CommandInv
    <3>3. QED  BY <3>1, <3>2, RequestStays DEF FailedInv
  <2>9. QED  BY <2>2, <2>3, <2>4, <2>5, <2>6, <2>7, <2>8 DEF CommandInv
<1>7. QED  BY <1>2, <1>3, <1>6 DEF CLInv

(* The invariant of the commands holds in every reachable state, for any   *)
(* number of commands at the same time.                                    *)
THEOREM CommandLineInvariant == CLSpec => []CLInv
<1>1. QED  BY CLInitHolds, CLStepHolds, PTL DEF CLSpec

(* The processes of the commands are of their type: in particular a list   *)
(* only shows functions that were created, with limits that are stored.    *)
THEOREM CommandLineTypeCorrect == CLSpec => []CLTypeOK
<1>1. CLInv => CLTypeOK  BY DEF CLInv
<1>2. QED  BY <1>1, CommandLineInvariant, PTL

(* The engine as the commands drive it is the gateway, so that what is     *)
(* proved of GWSpec holds for it.                                          *)
THEOREM CommandsUseTheGateway == CLSpec => GWSpec
<1>1. CLInit => GWInit  BY DEF CLInit
<1>2. [CLNext]_clVars => [GWNext]_gwVars  BY CommandStepIsGateway
<1>3. QED  BY <1>1, <1>2, PTL DEF CLSpec, GWSpec

(* A command that says it succeeded did what it says, with the name that   *)
(* its path holds, and one that says it failed did not, unless the engine  *)
(* died or the database failed it (main.go:215-239 and 261-323,            *)
(* response.go:36-67).                                                     *)
THEOREM CommandsTellTheTruth == CLSpec => []AnnouncementsAreTrue
<1>1. ASSUME CLInv, NEW q \in Creates, command[q].said = "success"
      PROVE  functions[create[q].req.Name] = Row(q, create[q].req)
  <2> DEFINE row == functions[create[q].req.Name]
  <2>1. CreateSaidSo(q)
    BY <1>1 DEF CLInv, CommandInv, SuccessInv, Commands
  <2>2. row \in Rows /\ MadeOf(row, q)
    BY <1>1, <2>1 DEF CLInv, GWInv, FSInv, FSTypeOK, CreateInv, CreateSaidSo
  <2>3. row = [ID |-> row.ID, ImageTag |-> row.ImageTag, EnvVars |-> row.EnvVars,
               TimeoutSeconds |-> row.TimeoutSeconds, MemoryLimitMB |-> row.MemoryLimitMB]
    BY <2>2 DEF Rows
  <2> HIDE DEF row
  <2>4. row = Row(q, create[q].req)  BY <2>2, <2>3 DEF MadeOf, Row
  <2>5. QED  BY <2>4 DEF row
<1>2. ASSUME CLInv, NEW q \in Creates, command[q].said = "failed",
             NEW row \in ListFunctions, row.ID = q
      PROVE  create[q].pc = "lost" \/ create[q].code = ServerError
  <2>1. PICK n \in Names : functions[n] # NoRow /\ functions[n].ID = q
    BY <1>2 DEF ListFunctions
  <2>2. create[q].pc # "new" /\ create[q].code \in {Created, ServerError}
    BY <1>2, <2>1 DEF CLInv, GWInv, FSInv, RowInv
  <2>3. FailedInv(q)  BY <1>2 DEF CLInv, CommandInv, Commands
  <2>4. QED  BY <2>2, <2>3 DEF FailedInv
<1>3. ASSUME CLInv, NEW r \in Invocations, command[r].said = "success"
      PROVE  process[r] = "exited" /\ request[r].fn = functions[PathName[command[r].name]]
  <2>1. /\ InvokeSaidSo(r) /\ SentInv(r) /\ RequestInv(r) /\ RunInv(r)
    BY <1>3 DEF CLInv, CommandInv, SuccessInv, Commands, Invocations, GWInv, FRInv
  <2>2. answer[r] \in ExitCodes  BY <2>1 DEF InvokeSaidSo, RequestInv
  <2>3. process[r] = "exited" /\ phase[r] # "idle"
    BY <2>1, <2>2, Replies DEF RunInv
  <2>4. request[r].name = PathName[command[r].name]
    BY <2>1 DEF InvokeSaidSo, SentInv, AskedFor
  <2>5. QED  BY <1>3, <2>1, <2>3, <2>4 DEF RequestInv, Ran, NamedFunction
<1>4. ASSUME CLInv, NEW r \in Invocations, command[r].said = "failed", HasExitCode(r)
      PROVE  request[r].pc = "lost"
  <2>1. FailedInv(r) /\ RequestInv(r) /\ RunInv(r) /\ request[r] \in Request
    BY <1>4 DEF CLInv, CommandInv, Commands, Invocations, GWInv, GWTypeOK, FRInv
  <2>2. answer[r] # NoReply /\ phase[r] # "idle"
    BY <1>4, <2>1, Replies DEF HasExitCode, RunInv
  <2>3. request[r].response.Code \notin {404, 500} /\ request[r].pc # "new"
    BY <1>4, <2>1, <2>2 DEF HasExitCode, RequestInv
  <2>4. request[r].response.Code \in {0, 200, 404, 500}
    BY <2>1 DEF Request, Responses
  <2>5. QED  BY <1>4, <2>1, <2>3, <2>4 DEF FailedInv
<1>5. CLInv => AnnouncementsAreTrue
  BY <1>1, <1>2, <1>3, <1>4 DEF AnnouncementsAreTrue
<1>6. QED  BY <1>5, CommandLineInvariant, PTL

(* After a create that succeeded an invocation whose path asks for its name*)
(* never finds it unknown and runs its function, and lists show it and     *)
(* never shrink (main.go:140-178, 193-240 and 259-323).                    *)
THEOREM ScriptsMayRely == CLSpec => []ScriptsWork
<1>1. ASSUME CLInv, NEW r \in Invocations, NEW q \in command[r].seen \cap Creates,
             PathName[command[r].name] = create[q].req.Name
      PROVE  /\ request[r].response.Code # 404
             /\ phase[r] # "idle" => request[r].fn.ID = q
  <2>1. /\ CommandInv(r) /\ CommandInv(q) /\ RequestInv(r)
        /\ r \in Commands /\ q \in Commands
    BY <1>1 DEF CLInv, GWInv, Commands, Invocations
  <2>2. CASE request[r].pc = "new"
    BY <2>1, <2>2 DEF RequestInv
  <2>3. CASE request[r].pc # "new"
    <3>1. request[r].name = create[q].req.Name
      BY <1>1, <2>1, <2>3 DEF CommandInv, SentInv, AskedFor
    <3>2. CreateSaidSo(q)
      BY <1>1, <2>1 DEF CommandInv, Succeeded, SuccessInv
    <3>3. functions[request[r].name].ID = q
      BY <1>1, <3>1, <3>2, CreatedEntry DEF CLInv
    <3>4. QED
      BY <1>1, <2>1, <3>1, <3>3 DEF CommandInv, NotUnknown, RequestInv, Ran, NamedFunction
  <2>4. QED  BY <2>2, <2>3
<1>2. ASSUME CLInv, NEW l \in Lists, command[l].said = "success"
      PROVE  ListSaidSo(l)
  BY <1>2 DEF CLInv, CommandInv, SuccessInv, Commands
<1>3. CLInv => ScriptsWork  BY <1>1, <1>2 DEF ScriptsWork, ListSaidSo, Entry
<1>4. QED  BY <1>3, CommandLineInvariant, PTL
=============================================================================
