---------------------------- MODULE GatewayProofs ----------------------------
(***************************************************************************)
(* The proofs about Gateway.  They rest on the invariant of the functions  *)
(* table and on what FunctionRun promises of a run (FRInv); RequestInv     *)
(* says what each request holds at each place of its handler.              *)
(***************************************************************************)
EXTENDS Gateway, FunctionStoreProofs

-----------------------------------------------------------------------------
(* What a run promises. *)

RunInv(c) ==
  /\ phase[c] = "answered" <=> answer[c] # NoReply
  /\ phase[c] = "idle" => process[c] = "none"
  /\ process[c] = "exited" => exitCode[c] \in ExitCodes
  /\ answer[c] \in ExitCodes => process[c] = "exited" /\ exitCode[c] = answer[c]

FRInv == FRTypeOK /\ \A c \in Calls : RunInv(c)

LEMMA Replies ==
  ASSUME NEW k \in ExitCodes
  PROVE  k # NoReply /\ k # Failure /\ k # Timeout /\ k # NoExit
BY GWAssumption DEF NoReply, Failure, Timeout, NoExit

LEMMA NotCodes ==
  /\ NoReply \notin ExitCodes /\ Failure \notin ExitCodes /\ Timeout \notin ExitCodes
  /\ NoReply # Failure /\ NoReply # Timeout
BY GWAssumption DEF NoReply, Failure, Timeout

LEMMA FRInitHolds == FRInit => FRInv
BY NotCodes DEF FRInit, FRInv, FRTypeOK, RunInv

(* One call's run goes on; the others' are as they were.                   *)
FRStep(c) ==
  Ask(c) \/ Launch(c) \/ Exit(c) \/ Reply(c) \/ Fail(c) \/ TimeOut(c) \/ Discard(c)

LEMMA FRStepEffect ==
  ASSUME FRInv, NEW c \in Calls, FRStep(c)
  PROVE  /\ FRInv'
         /\ \A d \in Calls : d # c => phase'[d] = phase[d] /\ answer'[d] = answer[d]
         /\ phase[c] = "answered" => phase'[c] = "answered" /\ answer'[c] = answer[c]
         /\ Ask(c) => phase[c] = "idle" /\ phase'[c] = "open"
         /\ ~Ask(c) /\ phase[c] # "open" =>
              phase'[c] = phase[c] /\ answer'[c] = answer[c]
         /\ ~Ask(c) /\ phase[c] = "open" => phase'[c] \in {"open", "answered"}
<1> USE DEF FRInv
<1>1. CASE Ask(c)
  BY <1>1, NotCodes DEF Ask, FRTypeOK, RunInv
<1>2. CASE Launch(c)
  BY <1>2 DEF Launch, Ask, FRTypeOK, RunInv
<1>3. CASE Exit(c)
  BY <1>3 DEF Exit, Ask, FRTypeOK, RunInv
<1>4. CASE Reply(c)
  BY <1>4, NotCodes DEF Reply, Ask, FRTypeOK, RunInv
<1>5. CASE Fail(c)
  BY <1>5, NotCodes DEF Fail, Ask, FRTypeOK, RunInv
<1>6. CASE TimeOut(c)
  BY <1>6, NotCodes DEF TimeOut, Ask, FRTypeOK, RunInv
<1>7. CASE Discard(c)
  BY <1>7 DEF Discard, Ask, FRTypeOK, RunInv
<1>8. QED  BY <1>1, <1>2, <1>3, <1>4, <1>5, <1>6, <1>7 DEF FRStep

-----------------------------------------------------------------------------
(* What a request holds. *)

NamedFunction(r) ==
  /\ request[r].name \in Names
  /\ request[r].fn # NoRow
  /\ request[r].fn = functions[request[r].name]

Ran(r) == r \in Invocations /\ phase[r] # "idle"

RequestInv(r) ==
  LET pc == request[r].pc  response == request[r].response IN
  /\ pc \in {"query", "store", "env", "storeEnv", "run"} =>
       request[r].name \in Names /\ r \in Invocations
  /\ pc \in {"new", "query", "store", "env", "storeEnv", "run"} => phase[r] = "idle"
  /\ pc \in {"store", "env", "storeEnv", "run"} \/ Ran(r) => NamedFunction(r)
  /\ pc \in {"storeEnv", "run"} \/ Ran(r) => request[r].env = request[r].fn.EnvVars
  /\ pc = "respond" => phase[r] = "answered"
  /\ response.Code # 0 => pc = "done" /\ phase[r] # "open"
  /\ pc = "done" => response.Code # 0
  /\ response.Code = 200 => answer[r] \in ExitCodes /\ response.StatusCode = answer[r]
  /\ response.Code = 500 => answer[r] \notin ExitCodes
  /\ response.Code = 404 => phase[r] = "idle"

RecordInv(r) ==
  /\ recorder[r] = "pending" => r \in Invocations /\ phase[r] = "answered"
  /\ executions[r] # NoRecord =>
       /\ r \in Invocations /\ phase[r] = "answered"
       /\ executions[r].FunctionID = request[r].fn.ID
       /\ executions[r].Status = StatusOf(r)
       /\ executions[r].StatusCode = StatusCodeOf(r)

GWInv ==
  /\ FSInv /\ FRInv /\ GWTypeOK
  /\ CacheCoherent
  /\ \A r \in Calls : RequestInv(r) /\ RecordInv(r)

(* Rows stay: NamesKeepTheirFunction of FunctionStore, as a step.          *)
RowsKept == \A n \in Names : functions[n] # NoRow => functions'[n] = functions[n]

(* A request to which nothing happens keeps what it holds.                 *)
LEMMA RequestKeeps ==
  ASSUME GWInv, RowsKept, NEW d \in Calls,
         request'[d] = request[d], phase'[d] = phase[d], answer'[d] = answer[d]
  PROVE  RequestInv(d)'
<1>1. RequestInv(d)  BY DEF GWInv
<1>2. NamedFunction(d) => NamedFunction(d)'  BY DEF NamedFunction, RowsKept
<1>3. QED  BY <1>1, <1>2 DEF RequestInv, Ran

LEMMA RecordKeeps ==
  ASSUME GWInv, NEW d \in Calls,
         request'[d].fn = request[d].fn, recorder'[d] \in {recorder[d], "lost", "written"},
         executions'[d] = executions[d],
         phase[d] = "answered" => phase'[d] = "answered" /\ answer'[d] = answer[d]
  PROVE  RecordInv(d)'
BY DEF GWInv, RecordInv, StatusOf, StatusCodeOf, HasExitCode

LEMMA CachesKeep ==
  ASSUME GWInv, RowsKept, UNCHANGED caches
  PROVE  CacheCoherent'
BY DEF GWInv, RowsKept, CacheCoherent, caches

-----------------------------------------------------------------------------
(* The steps of the handlers. *)

LEMMA SetRequest ==
  ASSUME GWInv, NEW r \in Calls, NEW st \in Request,
         request' = [request EXCEPT ![r] = st]
  PROVE  /\ request' \in [Calls -> Request]
         /\ request'[r] = st
         /\ \A d \in Calls : d # r => request'[d] = request[d]
BY DEF GWInv, GWTypeOK

(* The rest of the state, in a step of one request that neither the table  *)
(* nor the runs take part in.                                              *)
LEMMA HandlerHolds ==
  ASSUME GWInv, NEW r \in Calls, UNCHANGED <<up, fsVars, runVars>>,
         request' \in [Calls -> Request],
         \A d \in Calls : d # r => request'[d] = request[d],
         functionCache' \in [Names -> Rows \cup {NoRow}],
         envCache' \in [Names -> Envs \cup {NoEnv}],
         recorder' \in [Calls -> {"none", "pending", "written", "lost"}],
         executions' \in [Calls -> Execution \cup {NoRecord}],
         \A d \in Calls : d # r =>
           recorder'[d] = recorder[d] /\ executions'[d] = executions[d],
         CacheCoherent', RequestInv(r)', RecordInv(r)'
  PROVE  GWInv'
<1>1. FSInv' /\ FRInv'
  BY DEF GWInv, FSInv, FSTypeOK, RowInv, CreateInv, MadeOf, FRInv, FRTypeOK, RunInv,
     fsVars, runVars
<1>2. RowsKept  BY DEF RowsKept, fsVars
<1>3. GWTypeOK'  BY DEF GWInv, GWTypeOK
<1>4. ASSUME NEW d \in Calls, d # r PROVE RequestInv(d)' /\ RecordInv(d)'
  BY <1>2, <1>4, RequestKeeps, RecordKeeps DEF runVars
<1>5. QED  BY <1>1, <1>3, <1>4 DEF GWInv

LEMMA ArriveStep ==
  ASSUME GWInv, NEW r \in Calls, NEW n \in Names, InvokeFunctionHandler(r, n)
  PROVE  GWInv'
<1> DEFINE q == request[r]
           pc == IF functionCache[n] # NoRow THEN "env" ELSE "query"
           st == [q EXCEPT !.name = n, !.fn = functionCache[n], !.pc = pc]
<1>1. /\ q \in Request /\ q.pc = "new" /\ r \in Invocations /\ phase[r] = "idle"
      /\ q.response.Code = 0
      /\ functionCache[n] \in Rows \cup {NoRow}
  BY DEF InvokeFunctionHandler, GWInv, GWTypeOK, RequestInv
<1>2. /\ pc \in {"env", "query"}
      /\ pc = "env" => functionCache[n] # NoRow
  OBVIOUS
<1>3. request' = [request EXCEPT ![r] = st]  BY DEF InvokeFunctionHandler
<1> HIDE DEF pc
<1>4. /\ st \in Request /\ st.name = n /\ st.fn = functionCache[n] /\ st.pc = pc
      /\ st.response = q.response /\ st.env = q.env
  BY <1>1, <1>2 DEF Request
<1> HIDE DEF st
<1>5. /\ request' \in [Calls -> Request]
      /\ request'[r] = st
      /\ \A d \in Calls : d # r => request'[d] = request[d]
  BY <1>3, <1>4, SetRequest
<1>6. UNCHANGED <<up, caches, records, fsVars, runVars>>  BY DEF InvokeFunctionHandler
<1>7. /\ CacheCoherent'
      /\ functionCache[n] # NoRow => functionCache[n] = functions[n]
  BY <1>6 DEF GWInv, CacheCoherent, caches, fsVars
<1>8. RequestInv(r)'
  BY <1>1, <1>2, <1>4, <1>5, <1>6, <1>7
  DEF GWInv, RequestInv, NamedFunction, Ran, runVars, fsVars
<1>9. RecordInv(r)'
  BY <1>1, <1>6 DEF GWInv, RecordInv, records, runVars
<1>10. QED
  BY <1>5, <1>6, <1>7, <1>8, <1>9, HandlerHolds DEF GWInv, GWTypeOK, caches, records

(* A request that is refused before it runs anything.                      *)
RefusalCodes == {404, 500}

LEMMA RefusalCode ==
  ASSUME NEW code \in RefusalCodes
  PROVE  Refusal(code) \in Responses /\ Refusal(code).Code = code
<1> DEFINE Codes == {0, 200, 404, 500}
<1>1. code \in Codes  BY DEF RefusalCodes
<1> HIDE DEF Codes
<1>2. [Code |-> code, StatusCode |-> 0] \in [Code : Codes, StatusCode : ExitCodes \cup {0}]
  BY <1>1
<1>3. QED  BY <1>2 DEF Refusal, Responses, Codes

LEMMA RefuseStep ==
  ASSUME GWInv, NEW r \in Calls, NEW code \in RefusalCodes,
         QueryFunction(r), Refuse(r, code)
  PROVE  GWInv'
<1> DEFINE q == request[r]
<1>0. UNCHANGED <<up, caches, records, fsVars, runVars>>  BY DEF QueryFunction
<1>1. q \in Request /\ r \in Invocations /\ phase[r] = "idle"
  BY DEF GWInv, GWTypeOK, RequestInv, QueryFunction
<1>2. PICK no \in Responses : no = Refusal(code) /\ no.Code = code
  BY RefusalCode
<1> DEFINE st == [q EXCEPT !.pc = "done", !.response = no]
<1>3. request' = [request EXCEPT ![r] = st]  BY <1>2 DEF Refuse
<1>4. st \in Request /\ st.pc = "done" /\ st.response = no
  BY <1>1, <1>2 DEF Request
<1> HIDE DEF st
<1>5. /\ request' \in [Calls -> Request]
      /\ request'[r] = st
      /\ \A d \in Calls : d # r => request'[d] = request[d]
  BY <1>3, <1>4, SetRequest
<1>6. CacheCoherent'  BY <1>0 DEF GWInv, CacheCoherent, caches, fsVars
<1>7. answer[r] \notin ExitCodes
  BY <1>1, NotCodes DEF GWInv, FRInv, RunInv
<1>8. RequestInv(r)'
  BY <1>0, <1>1, <1>2, <1>4, <1>5, <1>7
  DEF RequestInv, Ran, runVars, RefusalCodes
<1>9. RecordInv(r)'  BY <1>0, <1>1 DEF GWInv, RecordInv, records, runVars
<1>10. QED
  BY <1>0, <1>5, <1>6, <1>8, <1>9, HandlerHolds DEF GWInv, GWTypeOK, caches, records

LEMMA QueryStep ==
  ASSUME GWInv, NEW r \in Calls, QueryFunction(r)
  PROVE  GWInv'
<1> DEFINE q == request[r]
           row == functions[q.name]
           st == [q EXCEPT !.fn = row, !.pc = "store"]
<1>1. /\ q \in Request /\ q.pc = "query" /\ q.name \in Names /\ r \in Invocations
      /\ phase[r] = "idle" /\ q.response.Code = 0
  BY DEF QueryFunction, GWInv, GWTypeOK, RequestInv
<1>2. UNCHANGED <<up, caches, records, fsVars, runVars>>  BY DEF QueryFunction
<1>3. CASE Refuse(r, 404) \/ Refuse(r, 500)
  BY <1>3, RefuseStep DEF RefusalCodes
<1>4. CASE row # NoRow /\ request' = [request EXCEPT ![r] = st]
  <2>1. row \in Rows  BY <1>1, <1>4 DEF GWInv, FSInv, FSTypeOK
  <2>2. /\ st \in Request /\ st.pc = "store" /\ st.fn = row /\ st.name = q.name
        /\ st.response = q.response
    BY <1>1, <2>1 DEF Request
  <2> HIDE DEF st
  <2>3. /\ request' \in [Calls -> Request]
        /\ request'[r] = st
        /\ \A d \in Calls : d # r => request'[d] = request[d]
    BY <1>4, <2>2, SetRequest
  <2>4. CacheCoherent'  BY <1>2 DEF GWInv, CacheCoherent, caches, fsVars
  <2>5. RequestInv(r)'
    BY <1>1, <1>2, <1>4, <2>2, <2>3
    DEF RequestInv, Ran, NamedFunction, runVars, fsVars
  <2>6. RecordInv(r)'  BY <1>1, <1>2 DEF GWInv, RecordInv, records, runVars
  <2>7. QED
    BY <1>2, <2>3, <2>4, <2>5, <2>6, HandlerHolds DEF GWInv, GWTypeOK, caches, records
<1>5. QED  BY <1>3, <1>4 DEF QueryFunction

LEMMA StoreFunctionStep ==
  ASSUME GWInv, NEW r \in Calls, StoreFunction(r)
  PROVE  GWInv'
<1> DEFINE q == request[r]
           st == [q EXCEPT !.pc = "env"]
<1>1. /\ q \in Request /\ q.pc = "store" /\ q.name \in Names /\ r \in Invocations
      /\ phase[r] = "idle" /\ NamedFunction(r) /\ q.response.Code = 0
  BY DEF StoreFunction, GWInv, GWTypeOK, RequestInv
<1>2. UNCHANGED <<up, envCache, records, fsVars, runVars>>  BY DEF StoreFunction
<1>3. /\ st \in Request /\ st.pc = "env" /\ st.fn = q.fn /\ st.name = q.name
      /\ st.response = q.response
  BY <1>1 DEF Request
<1>4. request' = [request EXCEPT ![r] = st]  BY DEF StoreFunction
<1> HIDE DEF st
<1>5. /\ request' \in [Calls -> Request]
      /\ request'[r] = st
      /\ \A d \in Calls : d # r => request'[d] = request[d]
  BY <1>3, <1>4, SetRequest
<1>6. /\ functionCache' \in [Names -> Rows \cup {NoRow}]
      /\ functionCache'[q.name] = functions[q.name]
      /\ \A n \in Names : n # q.name => functionCache'[n] = functionCache[n]
  BY <1>1 DEF StoreFunction, NamedFunction, GWInv, GWTypeOK, Request
<1>7. CacheCoherent'  BY <1>2, <1>6 DEF GWInv, CacheCoherent, fsVars
<1>8. RequestInv(r)'
  BY <1>1, <1>2, <1>3, <1>5 DEF RequestInv, Ran, NamedFunction, runVars, fsVars
<1>9. RecordInv(r)'  BY <1>1, <1>2 DEF GWInv, RecordInv, records, runVars
<1>10. QED
  BY <1>2, <1>5, <1>6, <1>7, <1>8, <1>9, HandlerHolds DEF GWInv, GWTypeOK, records

LEMMA LoadEnvStep ==
  ASSUME GWInv, NEW r \in Calls, LoadEnv(r)
  PROVE  GWInv'
<1> DEFINE q == request[r]
           cached == envCache[q.name]
<1>1. /\ q \in Request /\ q.pc = "env" /\ q.name \in Names /\ r \in Invocations
      /\ phase[r] = "idle" /\ NamedFunction(r) /\ q.response.Code = 0
  BY DEF LoadEnv, GWInv, GWTypeOK, RequestInv
<1>2. UNCHANGED <<up, caches, records, fsVars, runVars>>  BY DEF LoadEnv
<1>3. /\ q.fn.EnvVars \in Envs
      /\ cached \in Envs \cup {NoEnv}
      /\ cached # NoEnv => cached = q.fn.EnvVars
  BY <1>1 DEF NamedFunction, GWInv, GWTypeOK, FSInv, FSTypeOK, Rows, CacheCoherent
<1>4. PICK env \in Envs, pc \in {"run", "storeEnv"} :
        /\ env = q.fn.EnvVars
        /\ request' = [request EXCEPT ![r].env = env, ![r].pc = pc]
  BY <1>3 DEF LoadEnv
<1> DEFINE st == [q EXCEPT !.env = env, !.pc = pc]
<1>5. request' = [request EXCEPT ![r] = st]  BY <1>4
<1>6. /\ st \in Request /\ st.pc = pc /\ st.fn = q.fn /\ st.name = q.name
      /\ st.env = env /\ st.response = q.response
  BY <1>1, <1>4 DEF Request
<1> HIDE DEF st
<1>7. /\ request' \in [Calls -> Request]
      /\ request'[r] = st
      /\ \A d \in Calls : d # r => request'[d] = request[d]
  BY <1>5, <1>6, SetRequest
<1>8. CacheCoherent'  BY <1>2 DEF GWInv, CacheCoherent, caches, fsVars
<1>9. RequestInv(r)'
  BY <1>1, <1>2, <1>4, <1>6, <1>7 DEF RequestInv, Ran, NamedFunction, runVars, fsVars
<1>10. RecordInv(r)'  BY <1>1, <1>2 DEF GWInv, RecordInv, records, runVars
<1>11. QED
  BY <1>2, <1>7, <1>8, <1>9, <1>10, HandlerHolds DEF GWInv, GWTypeOK, caches, records

LEMMA StoreEnvStep ==
  ASSUME GWInv, NEW r \in Calls, StoreEnv(r)
  PROVE  GWInv'
<1> DEFINE q == request[r]
           st == [q EXCEPT !.pc = "run"]
<1>1. /\ q \in Request /\ q.pc = "storeEnv" /\ q.name \in Names /\ r \in Invocations
      /\ phase[r] = "idle" /\ NamedFunction(r) /\ q.response.Code = 0
      /\ q.env = q.fn.EnvVars
  BY DEF StoreEnv, GWInv, GWTypeOK, RequestInv
<1>2. UNCHANGED <<up, functionCache, records, fsVars, runVars>>  BY DEF StoreEnv
<1>3. /\ st \in Request /\ st.pc = "run" /\ st.fn = q.fn /\ st.name = q.name
      /\ st.env = q.env /\ st.response = q.response
  BY <1>1 DEF Request
<1>4. request' = [request EXCEPT ![r] = st]  BY DEF StoreEnv
<1> HIDE DEF st
<1>5. /\ request' \in [Calls -> Request]
      /\ request'[r] = st
      /\ \A d \in Calls : d # r => request'[d] = request[d]
  BY <1>3, <1>4, SetRequest
<1>6. /\ envCache' \in [Names -> Envs \cup {NoEnv}]
      /\ envCache'[q.name] = functions[q.name].EnvVars
      /\ functions[q.name] # NoRow
      /\ \A n \in Names : n # q.name => envCache'[n] = envCache[n]
  BY <1>1 DEF StoreEnv, NamedFunction, GWInv, GWTypeOK, Request
<1>7. CacheCoherent'  BY <1>2, <1>6 DEF GWInv, CacheCoherent, fsVars
<1>8. RequestInv(r)'
  BY <1>1, <1>2, <1>3, <1>5 DEF RequestInv, Ran, NamedFunction, runVars, fsVars
<1>9. RecordInv(r)'  BY <1>1, <1>2 DEF GWInv, RecordInv, records, runVars
<1>10. QED
  BY <1>2, <1>5, <1>6, <1>7, <1>8, <1>9, HandlerHolds DEF GWInv, GWTypeOK, records

LEMMA SpawnStep ==
  ASSUME GWInv, NEW r \in Calls, SpawnRecorder(r)
  PROVE  GWInv'
<1> DEFINE q == request[r]
           st == [q EXCEPT !.pc = "respond"]
<1>1. /\ q \in Request /\ q.pc = "running" /\ r \in Invocations
      /\ phase[r] = "answered" /\ q.response.Code = 0
      /\ NamedFunction(r) /\ q.env = q.fn.EnvVars
  <2>1. phase[r] = "answered"
    BY DEF SpawnRecorder, Answered, GWInv, FRInv, RunInv
  <2>2. QED  BY <2>1 DEF SpawnRecorder, GWInv, GWTypeOK, RequestInv, Ran
<1>2. UNCHANGED <<up, caches, executions, fsVars, runVars>>  BY DEF SpawnRecorder
<1>3. /\ st \in Request /\ st.pc = "respond" /\ st.fn = q.fn /\ st.name = q.name
      /\ st.env = q.env /\ st.response = q.response
  BY <1>1 DEF Request
<1>4. request' = [request EXCEPT ![r] = st]  BY DEF SpawnRecorder
<1> HIDE DEF st
<1>5. /\ request' \in [Calls -> Request]
      /\ request'[r] = st
      /\ \A d \in Calls : d # r => request'[d] = request[d]
  BY <1>3, <1>4, SetRequest
<1>6. /\ recorder' \in [Calls -> {"none", "pending", "written", "lost"}]
      /\ recorder'[r] = "pending"
      /\ \A d \in Calls : d # r => recorder'[d] = recorder[d]
  BY DEF SpawnRecorder, GWInv, GWTypeOK
<1>7. CacheCoherent'  BY <1>2 DEF GWInv, CacheCoherent, caches, fsVars
<1>8. RequestInv(r)'
  BY <1>1, <1>2, <1>3, <1>5 DEF RequestInv, Ran, NamedFunction, runVars, fsVars
<1>9. RecordInv(r)'
  <2>1. RecordInv(r)  BY DEF GWInv
  <2>2. QED
    BY <1>1, <1>2, <1>3, <1>5, <1>6, <2>1
    DEF RecordInv, StatusOf, StatusCodeOf, HasExitCode, runVars
<1>10. QED
  BY <1>2, <1>5, <1>6, <1>7, <1>8, <1>9, HandlerHolds DEF GWInv, GWTypeOK, caches

LEMMA RespondStep ==
  ASSUME GWInv, NEW r \in Calls, Respond(r)
  PROVE  GWInv'
<1> DEFINE q == request[r]
<1>1. /\ q \in Request /\ phase[r] = "answered" /\ answer[r] # NoReply
      /\ Ran(r) => NamedFunction(r) /\ q.env = q.fn.EnvVars
  BY DEF Respond, Answered, GWInv, GWTypeOK, RequestInv, Ran, FRInv, RunInv
<1>2. UNCHANGED <<up, caches, records, fsVars, runVars>>  BY DEF Respond
<1>. request' =
       [request EXCEPT ![r] = [q EXCEPT !.pc = "done", !.response = ResponseOf(r)]]
  BY DEF Respond
<1>3. PICK response \in Responses :
        /\ response = ResponseOf(r)
        /\ \/ /\ answer[r] \in ExitCodes
              /\ response.Code = 200 /\ response.StatusCode = answer[r]
           \/ answer[r] \notin ExitCodes /\ response.Code = 500
  <2>1. CASE answer[r] \in ExitCodes
    <3> DEFINE response == [Code |-> 200, StatusCode |-> answer[r]]
    <3>1. response \in Responses  BY <2>1 DEF Responses
    <3>2. response = ResponseOf(r)  BY <2>1 DEF ResponseOf, HasExitCode
    <3>3. response.Code = 200 /\ response.StatusCode = answer[r]  OBVIOUS
    <3> HIDE DEF response
    <3>4. QED  BY <2>1, <3>1, <3>2, <3>3
  <2>2. CASE answer[r] \notin ExitCodes
    <3> DEFINE code == 500
    <3>1. code \in RefusalCodes  BY DEF RefusalCodes
    <3>2. ResponseOf(r) = Refusal(code)  BY <2>2 DEF ResponseOf, HasExitCode
    <3>3. code = 500  OBVIOUS
    <3> HIDE DEF code
    <3>4. Refusal(code) \in Responses /\ Refusal(code).Code = code
      BY <3>1, RefusalCode
    <3>5. QED  BY <2>2, <3>2, <3>3, <3>4
  <2>3. QED  BY <2>1, <2>2
<1> DEFINE st == [q EXCEPT !.pc = "done", !.response = response]
<1>4. request' = [request EXCEPT ![r] = st]  BY <1>3
<1>5. /\ st \in Request /\ st.pc = "done" /\ st.fn = q.fn /\ st.name = q.name
      /\ st.env = q.env /\ st.response = response
  BY <1>1 DEF Request
<1> HIDE DEF st
<1>6. /\ request' \in [Calls -> Request]
      /\ request'[r] = st
      /\ \A d \in Calls : d # r => request'[d] = request[d]
  BY <1>4, <1>5, SetRequest
<1>7. CacheCoherent'  BY <1>2 DEF GWInv, CacheCoherent, caches, fsVars
<1>8. RequestInv(r)'
  BY <1>1, <1>2, <1>3, <1>5, <1>6 DEF RequestInv, Ran, NamedFunction, runVars, fsVars
<1>9. RecordInv(r)'
  BY <1>2, <1>5, <1>6, RecordKeeps DEF records, runVars
<1>10. QED
  BY <1>2, <1>6, <1>7, <1>8, <1>9, HandlerHolds DEF GWInv, GWTypeOK, caches, records

LEMMA WriteStep ==
  ASSUME GWInv, NEW r \in Calls, WriteExecution(r)
  PROVE  GWInv'
<1> DEFINE record == [FunctionID |-> request[r].fn.ID, Status |-> StatusOf(r),
                      StatusCode |-> StatusCodeOf(r)]
<1>1. /\ recorder[r] = "pending" /\ r \in Invocations /\ phase[r] = "answered"
      /\ NamedFunction(r)
  BY DEF WriteExecution, GWInv, RecordInv, RequestInv, Ran
<1>2. UNCHANGED <<up, caches, request, fsVars, runVars>>  BY DEF WriteExecution
<1>3. /\ record \in Execution
      /\ record.FunctionID = request[r].fn.ID
      /\ record.Status = StatusOf(r) /\ record.StatusCode = StatusCodeOf(r)
  <2>1. request[r].fn.ID \in Creates
    BY <1>1 DEF NamedFunction, GWInv, FSInv, RowInv
  <2>2. StatusOf(r) \in {"success", "failed", "timed_out"}  BY DEF StatusOf
  <2>3. StatusCodeOf(r) \in ExitCodes \cup {500, 504}
    BY DEF StatusCodeOf, HasExitCode
  <2>4. QED  BY <2>1, <2>2, <2>3 DEF Execution
<1>4. /\ recorder' \in [Calls -> {"none", "pending", "written", "lost"}]
      /\ recorder'[r] \in {"written", "lost"}
      /\ \A d \in Calls : d # r => recorder'[d] = recorder[d]
  BY DEF WriteExecution, GWInv, GWTypeOK
<1>5. executions' = [executions EXCEPT ![r] = record] \/ UNCHANGED executions
  BY DEF WriteExecution
<1> HIDE DEF record
<1>6. /\ executions' \in [Calls -> Execution \cup {NoRecord}]
      /\ executions'[r] \in {record, executions[r]}
      /\ \A d \in Calls : d # r => executions'[d] = executions[d]
  BY <1>3, <1>5 DEF GWInv, GWTypeOK
<1>7. CacheCoherent'  BY <1>2 DEF GWInv, CacheCoherent, caches, fsVars
<1>8. RequestInv(r)'
  BY <1>2, RequestKeeps DEF RowsKept, runVars, fsVars
<1>9. RecordInv(r)'
  <2>1. StatusOf(r)' = StatusOf(r) /\ StatusCodeOf(r)' = StatusCodeOf(r)
    BY <1>2 DEF StatusOf, StatusCodeOf, HasExitCode, runVars
  <2>2. RecordInv(r)  BY DEF GWInv
  <2>3. QED  BY <1>1, <1>2, <1>3, <1>4, <1>6, <2>1, <2>2 DEF RecordInv, runVars
<1>10. QED
  BY <1>2, <1>4, <1>6, <1>7, <1>8, <1>9, HandlerHolds DEF GWInv, GWTypeOK, caches

-----------------------------------------------------------------------------
(* The steps of a run. *)

LEMMA RunHolds ==
  ASSUME GWInv, NEW r \in Calls, FRStep(r), UNCHANGED <<up, caches, records, fsVars>>,
         request' \in [Calls -> Request],
         request'[r].fn = request[r].fn,
         \A d \in Calls : d # r => request'[d] = request[d],
         RequestInv(r)'
  PROVE  GWInv'
<1>1. FSInv'  BY DEF GWInv, FSInv, FSTypeOK, RowInv, CreateInv, MadeOf, fsVars
<1>2. /\ FRInv'
      /\ \A d \in Calls : d # r => phase'[d] = phase[d] /\ answer'[d] = answer[d]
      /\ phase[r] = "answered" => phase'[r] = "answered" /\ answer'[r] = answer[r]
  BY FRStepEffect DEF GWInv
<1>3. RowsKept  BY DEF RowsKept, fsVars
<1>4. GWTypeOK'  BY DEF GWInv, GWTypeOK, caches, records
<1>5. CacheCoherent'  BY <1>3, CachesKeep DEF caches
<1>6. RecordInv(r)'  BY <1>2, RecordKeeps DEF records
<1>7. ASSUME NEW d \in Calls, d # r PROVE RequestInv(d)' /\ RecordInv(d)'
  BY <1>2, <1>3, <1>7, RequestKeeps, RecordKeeps DEF records
<1>8. QED  BY <1>1, <1>2, <1>4, <1>5, <1>6, <1>7 DEF GWInv

LEMMA AskStep ==
  ASSUME GWInv, NEW r \in Calls, RunFunction(r)
  PROVE  GWInv'
<1> DEFINE q == request[r]
           st == [q EXCEPT !.pc = "running"]
<1>1. /\ q \in Request /\ q.response.Code = 0
      /\ r \in Invocations => NamedFunction(r)
      /\ r \in Invocations => q.env = q.fn.EnvVars
  BY DEF RunFunction, TestRun, GWInv, GWTypeOK, RequestInv, Invocations
<1>2. Ask(r) /\ UNCHANGED <<up, caches, records, fsVars>>
  BY DEF RunFunction
<1>3. /\ st \in Request /\ st.pc = "running" /\ st.fn = q.fn /\ st.name = q.name
      /\ st.env = q.env /\ st.response = q.response
  BY <1>1 DEF Request
<1>4. request' = [request EXCEPT ![r] = st]  BY DEF RunFunction
<1> HIDE DEF st
<1>5. /\ request' \in [Calls -> Request]
      /\ request'[r] = st
      /\ \A d \in Calls : d # r => request'[d] = request[d]
  BY <1>3, <1>4, SetRequest
<1>6. RequestInv(r)'
  BY <1>1, <1>2, <1>3, <1>5 DEF RequestInv, Ran, NamedFunction, fsVars
<1>7. QED  BY <1>2, <1>3, <1>5, <1>6, RunHolds DEF FRStep

LEMMA RunSteps ==
  ASSUME GWInv, NEW r \in Calls, RunStep(r)
  PROVE  GWInv'
<1>1. FRStep(r) /\ UNCHANGED <<up, caches, request, records, fsVars>>
  BY DEF RunStep, FRStep, Serving
<1>2. ~Ask(r)
  BY DEF RunStep, Launch, Exit, Reply, Fail, TimeOut, Discard, Ask, GWInv, FRInv, FRTypeOK
<1>3. /\ phase[r] # "open" => phase'[r] = phase[r] /\ answer'[r] = answer[r]
      /\ phase[r] = "open" => phase'[r] \in {"open", "answered"}
  BY <1>1, <1>2, FRStepEffect DEF GWInv
<1>4. RequestInv(r)  BY DEF GWInv
<1>5. RequestInv(r)'
  BY <1>1, <1>3, <1>4 DEF RequestInv, Ran, NamedFunction, fsVars
<1>6. request' \in [Calls -> Request]  BY <1>1 DEF GWInv, GWTypeOK
<1>7. QED  BY <1>1, <1>5, <1>6, RunHolds

-----------------------------------------------------------------------------
(* The rest of the system. *)

LEMMA CreateSteps ==
  ASSUME GWInv, CreateStep
  PROVE  GWInv'
<1>1. UNCHANGED <<up, caches, request, records, runVars>> /\ FSStep  BY DEF CreateStep
<1>2. FSInv' /\ RowsKept
  BY <1>1, FSStepHolds, RowsStay DEF GWInv, FSInv, FSNext, RowsKept
<1>3. FRInv'  BY <1>1 DEF GWInv, FRInv, FRTypeOK, RunInv, runVars
<1>4. GWTypeOK'  BY <1>1 DEF GWInv, GWTypeOK, caches, records
<1>5. CacheCoherent'  BY <1>1, <1>2, CachesKeep
<1>6. ASSUME NEW d \in Calls PROVE RequestInv(d)' /\ RecordInv(d)'
  BY <1>1, <1>2, RequestKeeps, RecordKeeps DEF records, runVars
<1>7. QED  BY <1>2, <1>3, <1>4, <1>5, <1>6 DEF GWInv

LEMMA CrashStep ==
  ASSUME GWInv, GWCrash
  PROVE  GWInv'
<1>1. FSInv' /\ UNCHANGED functions
  BY FSStepHolds DEF GWInv, GWCrash, FSNext, FSCrash
<1>2. FRInv'  BY DEF GWCrash, Lose, GWInv, FRInv, FRTypeOK, RunInv
<1>3. ASSUME NEW d \in Calls
      PROVE  /\ request'[d] \in Request
             /\ request'[d].pc \in {request[d].pc, "lost"}
             /\ request[d].pc = "done" => request'[d].pc = "done"
             /\ request'[d].fn = request[d].fn /\ request'[d].name = request[d].name
             /\ request'[d].env = request[d].env
             /\ request'[d].response = request[d].response
  <2> DEFINE pc == IF request[d].pc \in {"new", "done"} THEN request[d].pc ELSE "lost"
             st == [request[d] EXCEPT !.pc = pc]
  <2>1. request[d] \in Request  BY DEF GWInv, GWTypeOK
  <2>2. pc \in {request[d].pc, "lost"} /\ (request[d].pc = "done" => pc = "done")
    OBVIOUS
  <2>3. request'[d] = st  BY DEF GWCrash
  <2> HIDE DEF pc
  <2>4. /\ st \in Request /\ st.pc = pc /\ st.fn = request[d].fn
        /\ st.name = request[d].name /\ st.env = request[d].env
        /\ st.response = request[d].response
    BY <2>1, <2>2 DEF Request
  <2> HIDE DEF st
  <2>5. QED  BY <2>2, <2>3, <2>4
<1>4. /\ recorder' \in [Calls -> {"none", "pending", "written", "lost"}]
      /\ \A d \in Calls : recorder'[d] \in {recorder[d], "lost"}
  BY DEF GWCrash, GWInv, GWTypeOK
<1>5. GWTypeOK'
  <2>1. request' \in [Calls -> Request]  BY <1>3 DEF GWCrash
  <2>2. QED  BY <1>4, <2>1 DEF GWCrash, GWInv, GWTypeOK
<1>6. CacheCoherent'  BY DEF GWCrash, CacheCoherent
<1>7. ASSUME NEW d \in Calls PROVE RequestInv(d)' /\ RecordInv(d)'
  <2>1. /\ answer'[d] = answer[d]
        /\ phase'[d] = phase[d] \/ (phase[d] = "open" /\ phase'[d] = "lost")
    BY DEF GWCrash, Lose, GWInv, FRInv, FRTypeOK
  <2>2. RequestInv(d)  BY DEF GWInv
  <2>3. RequestInv(d)'
    BY <1>1, <1>3, <2>1, <2>2 DEF RequestInv, Ran, NamedFunction
  <2>4. executions'[d] = executions[d]  BY DEF GWCrash
  <2>5. RecordInv(d)'  BY <1>3, <1>4, <2>1, <2>4, RecordKeeps
  <2>6. QED  BY <2>3, <2>5
<1>8. QED  BY <1>1, <1>2, <1>5, <1>6, <1>7 DEF GWInv

(* A restart, or a step of something else, changes nothing the invariant   *)
(* reads.                                                                  *)
LEMMA QuietStep ==
  ASSUME GWInv, up' \in BOOLEAN,
         UNCHANGED <<caches, request, records, fsVars, runVars>>
  PROVE  GWInv'
<1>1. FSInv' /\ FRInv'
  BY DEF GWInv, FSInv, FSTypeOK, RowInv, CreateInv, MadeOf, FRInv, FRTypeOK, RunInv,
     fsVars, runVars
<1>2. RowsKept  BY DEF RowsKept, fsVars
<1>3. GWTypeOK'  BY DEF GWInv, GWTypeOK, caches, records
<1>4. CacheCoherent'  BY <1>2, CachesKeep
<1>5. ASSUME NEW d \in Calls PROVE RequestInv(d)' /\ RecordInv(d)'
  BY <1>2, RequestKeeps, RecordKeeps DEF records, runVars
<1>6. QED  BY <1>1, <1>3, <1>4, <1>5 DEF GWInv

-----------------------------------------------------------------------------
LEMMA GWInitHolds == GWInit => GWInv
<1> SUFFICES ASSUME GWInit PROVE GWInv  OBVIOUS
<1> DEFINE st == [pc |-> "new", name |-> BadName, fn |-> NoRow, env |-> NoEnv,
                  response |-> NoResponse]
<1>1. FSInv /\ FRInv  BY FSInitHolds, FRInitHolds DEF GWInit
<1>2. NoResponse \in Responses /\ NoResponse.Code = 0  BY DEF NoResponse, Responses
<1>3. st \in Request /\ st.pc = "new" /\ st.response.Code = 0  BY <1>2 DEF Request
<1>4. request = [r \in Calls |-> st]  BY DEF GWInit
<1> HIDE DEF st
<1>5. GWTypeOK  BY <1>3, <1>4 DEF GWInit, GWTypeOK
<1>6. CacheCoherent  BY DEF GWInit, CacheCoherent
<1>7. ASSUME NEW r \in Calls PROVE RequestInv(r) /\ RecordInv(r)
  <2>1. phase[r] = "idle" /\ recorder[r] = "none" /\ executions[r] = NoRecord
    BY DEF GWInit, FRInit
  <2>2. QED  BY <1>3, <1>4, <2>1 DEF RequestInv, RecordInv, Ran
<1>8. QED  BY <1>1, <1>5, <1>6, <1>7 DEF GWInv

LEMMA GWStepHolds == GWInv /\ [GWNext]_gwVars => GWInv'
<1> SUFFICES ASSUME GWInv, [GWNext]_gwVars PROVE GWInv'  OBVIOUS
<1>1. CASE \E r \in Calls, n \in Names : InvokeFunctionHandler(r, n)
  BY <1>1, ArriveStep
<1>2. ASSUME NEW r \in Calls, HandlerStep(r) PROVE GWInv'
  BY <1>2, QueryStep, StoreFunctionStep, LoadEnvStep, StoreEnvStep, AskStep, SpawnStep,
     RespondStep DEF HandlerStep
<1>3. ASSUME NEW r \in Calls, WriteExecution(r) \/ RunStep(r)
      PROVE  GWInv'
  BY <1>3, WriteStep, RunSteps
<1>4. CASE CreateStep  BY <1>4, CreateSteps
<1>5. CASE GWCrash  BY <1>5, CrashStep
<1>6. CASE GWRestart  BY <1>6, QuietStep DEF GWRestart
<1>7. CASE UNCHANGED gwVars
  <2>1. up' \in BOOLEAN /\ UNCHANGED <<caches, request, records, fsVars, runVars>>
    BY <1>7 DEF gwVars, caches, records, fsVars, runVars, GWInv, GWTypeOK
  <2>2. QED  BY <2>1, QuietStep
<1>8. QED  BY <1>1, <1>2, <1>3, <1>4, <1>5, <1>6, <1>7 DEF GWNext

(* The invariant of the gateway holds in every reachable state, whatever   *)
(* the number of concurrent requests, names and functions.                 *)
THEOREM GatewayInvariant == GWSpec => []GWInv
<1>1. QED  BY GWInitHolds, GWStepHolds, PTL DEF GWSpec

-----------------------------------------------------------------------------
(* The state of the gateway is of its type; FSTypeOK and FRTypeOK are those *)
(* of the modules it is built on.                                           *)
THEOREM GatewayTypeCorrect == GWSpec => [](GWTypeOK /\ FSTypeOK /\ FRTypeOK)
<1>1. GWInv => GWTypeOK /\ FSTypeOK /\ FRTypeOK  BY DEF GWInv, FSInv, FRInv
<1>2. QED  BY <1>1, GatewayInvariant, PTL

(* An engine that is down serves no request.                               *)
DownInv == ~up => \A r \in Calls : request[r].pc \in {"new", "done", "lost"}

LEMMA DownStep == GWInv /\ DownInv /\ [GWNext]_gwVars => DownInv'
<1> SUFFICES ASSUME GWInv, DownInv, [GWNext]_gwVars PROVE DownInv'  OBVIOUS
<1>1. ASSUME NEW r \in Calls, HandlerStep(r) PROVE up /\ up' = up
  BY <1>1 DEF DownInv, HandlerStep, QueryFunction, StoreFunction, LoadEnv, StoreEnv,
     RunFunction, SpawnRecorder, Respond, TestRun
<1>2. CASE GWCrash
  <2>1. ASSUME NEW r \in Calls PROVE request'[r].pc \in {"new", "done", "lost"}
    BY <1>2 DEF GWCrash, GWInv, GWTypeOK, Request
  <2>2. QED  BY <2>1 DEF DownInv
<1>3. CASE up /\ up' = up  BY <1>3 DEF DownInv
<1>4. CASE GWRestart  BY <1>4 DEF GWRestart, DownInv
<1>5. CASE UNCHANGED <<up, request>>  BY <1>5 DEF DownInv
<1>6. QED
  BY <1>1, <1>2, <1>3, <1>4, <1>5
  DEF GWNext, InvokeFunctionHandler, WriteExecution, RunStep, Serving, CreateStep, gwVars

LEMMA DownInvariant == GWSpec => []DownInv
<1>1. GWInit => DownInv  BY DEF GWInit, DownInv
<1>2. QED  BY <1>1, DownStep, GatewayInvariant, PTL DEF GWSpec

(* Once it has asked for its run, a request keeps its name, its function   *)
(* and its environment.                                                    *)
LEMMA FunctionKept ==
  GWInv /\ [GWNext]_gwVars =>
    \A r \in Calls : phase[r] # "idle" =>
      /\ request'[r].name = request[r].name
      /\ request'[r].fn = request[r].fn
      /\ request'[r].env = request[r].env
<1> SUFFICES ASSUME GWInv, [GWNext]_gwVars, NEW r \in Calls, phase[r] # "idle"
             PROVE  /\ request'[r].name = request[r].name
                    /\ request'[r].fn = request[r].fn
                    /\ request'[r].env = request[r].env
  OBVIOUS
<1> DEFINE Kept == /\ request'[r].name = request[r].name
                   /\ request'[r].fn = request[r].fn
                   /\ request'[r].env = request[r].env
<1> SUFFICES Kept  OBVIOUS
<1>1. /\ request \in [Calls -> Request]
      /\ request[r].pc \notin {"new", "query", "store", "env", "storeEnv", "run"}
  BY DEF GWInv, GWTypeOK, RequestInv
<1>2. ASSUME NEW d \in Calls, NEW n \in Names, InvokeFunctionHandler(d, n) PROVE Kept
  BY <1>1, <1>2 DEF InvokeFunctionHandler
<1>3. ASSUME NEW d \in Calls, NEW pc \in {"running", "respond"},
             request' = [request EXCEPT ![d].pc = pc]
      PROVE  Kept
  BY <1>1, <1>3 DEF Request
<1>4. ASSUME NEW d \in Calls, HandlerStep(d) PROVE Kept
  <2>1. CASE QueryFunction(d) \/ StoreFunction(d) \/ LoadEnv(d) \/ StoreEnv(d)
    <3>1. d # r  BY <1>1, <2>1 DEF QueryFunction, StoreFunction, LoadEnv, StoreEnv
    <3>2. QED
      BY <1>1, <2>1, <3>1 DEF QueryFunction, Refuse, StoreFunction, LoadEnv, StoreEnv
  <2>2. CASE RunFunction(d) \/ SpawnRecorder(d)
    BY <1>3, <2>2 DEF RunFunction, SpawnRecorder
  <2>3. CASE Respond(d)
    BY <1>1, <2>3 DEF Respond, Request
  <2>4. QED  BY <1>4, <2>1, <2>2, <2>3 DEF HandlerStep
<1>5. CASE GWCrash
  <2>1. request'[r] = [request[r] EXCEPT
          !.pc = IF @ \in {"new", "done"} THEN @ ELSE "lost"]
    BY <1>5 DEF GWCrash
  <2>2. QED  BY <1>1, <2>1 DEF Request
<1>6. CASE UNCHANGED request  BY <1>6
<1>7. QED
  BY <1>2, <1>4, <1>5, <1>6
  DEF GWNext, WriteExecution, RunStep, Serving, CreateStep, GWRestart, gwVars

(* The two parts of the gateway keep to their modules: its table is that   *)
(* of FunctionStore, whatever the invocations do, so that all that is      *)
(* proved of FSSpec holds here (handler_function.go:27-93).                *)
THEOREM GatewayIsAFunctionStore == GWSpec => FSSpec
<1>1. GWInit => FSInit  BY DEF GWInit
<1>2. [GWNext]_gwVars => [FSNext]_fsVars
  <2>1. ASSUME NEW r \in Calls, HandlerStep(r) \/ WriteExecution(r) \/ RunStep(r)
        PROVE  UNCHANGED fsVars
    BY <2>1 DEF HandlerStep, QueryFunction, StoreFunction, LoadEnv, StoreEnv, RunFunction,
                SpawnRecorder, Respond, WriteExecution, RunStep, Serving
  <2>2. CreateStep \/ GWCrash => FSNext  BY DEF CreateStep, GWCrash, FSNext
  <2>3. UNCHANGED gwVars => UNCHANGED fsVars  BY DEF gwVars, fsVars
  <2>4. QED  BY <2>1, <2>2, <2>3 DEF GWNext, InvokeFunctionHandler, GWRestart
<1>3. QED  BY <1>1, <1>2, PTL DEF GWSpec, FSSpec

(* In the engine, with invocations, their caches and crashes around them,  *)
(* creates and rows are as FunctionStore says: a create answered 201 is    *)
(* found, every row was asked for and can run, and names keep their        *)
(* function (handler_function.go:52-72 and 91).                            *)
THEOREM GatewayKeepsFunctions ==
  GWSpec => /\ []CreatedIsFound /\ []RowsWereRequested /\ []StoredLimitsInRange
            /\ NamesKeepTheirFunction
BY GatewayIsAFunctionStore, CreatesAreFound, RowsAreRequested, LimitsAreInRange,
   NamesKeepFunctions, PTL

(* The runs of the gateway are those of FunctionRun: no handler asks twice *)
(* for a run, or after a crash (handler_invoke.go:54-61, test_run.go:17-   *)
(* 25).                                                                    *)
THEOREM GatewayRunsFunctions == GWSpec => FRSpec
<1>1. GWInit => FRInit  BY DEF GWInit
<1>2. [GWNext]_gwVars => [FRNext]_vars
  <2> USE DEF runVars, vars
  <2>1. ASSUME NEW r \in Calls, HandlerStep(r) \/ WriteExecution(r)
        PROVE  Ask(r) \/ UNCHANGED runVars
    BY <2>1 DEF HandlerStep, QueryFunction, StoreFunction, LoadEnv, StoreEnv, RunFunction,
                SpawnRecorder, Respond, WriteExecution
  <2>2. ASSUME NEW r \in Calls, RunStep(r) PROVE FRNext
    BY <2>2 DEF RunStep, FRNext
  <2>3. GWCrash => Lose  BY DEF GWCrash
  <2>4. UNCHANGED gwVars => UNCHANGED runVars  BY DEF gwVars
  <2>5. QED
    BY <2>1, <2>2, <2>3, <2>4
    DEF GWNext, InvokeFunctionHandler, CreateStep, GWRestart, FRNext
<1>3. QED  BY <1>1, <1>2, PTL DEF GWSpec, FRSpec

(* The two caches hold what the table holds, in every interleaving of       *)
(* misses, queries, fills, creates and crashes (handler_invoke.go:28-52).   *)
THEOREM CachesAreCoherent == GWSpec => []CacheCoherent
<1>1. GWInv => CacheCoherent  BY DEF GWInv
<1>2. QED  BY <1>1, GatewayInvariant, PTL

(* An invocation runs the function of its name, with that function's       *)
(* environment (handler_invoke.go:28-61).                                  *)
THEOREM InvocationsRunTheirFunction == GWSpec => []RunsNamedFunction
<1>1. GWInv => RunsNamedFunction
  BY DEF GWInv, RequestInv, RunsNamedFunction, Ran, NamedFunction, Invocations
<1>2. QED  BY <1>1, GatewayInvariant, PTL

(* A response is true of the run (handler_invoke.go:32-38 and 81-96,       *)
(* test_run.go:26-38).                                                     *)
THEOREM ResponsesTellTheTruth == GWSpec => []ResponsesAreTrue
<1>1. ASSUME GWInv, NEW r \in Calls
      PROVE  /\ request[r].response.Code = 200 =>
                  process[r] = "exited" /\ request[r].response.StatusCode = exitCode[r]
             /\ request[r].response.Code = 404 => process[r] = "none"
  BY <1>1 DEF GWInv, RequestInv, FRInv, RunInv
<1>2. GWInv => ResponsesAreTrue  BY <1>1 DEF ResponsesAreTrue
<1>3. QED  BY <1>2, GatewayInvariant, PTL

(* A record is true of the run and agrees with the response, whichever of  *)
(* the two is written first (handler_invoke.go:64-96).                     *)
THEOREM RecordsTellTheTruth == GWSpec => []RecordsAreTrue
<1>1. ASSUME GWInv, NEW r \in Calls, executions[r] # NoRecord
      PROVE  /\ r \in Invocations
             /\ executions[r].FunctionID = functions[request[r].name].ID
             /\ executions[r].Status = "success" <=> answer[r] = 0
             /\ request[r].response.Code = 200 =>
                  executions[r].StatusCode = request[r].response.StatusCode
             /\ request[r].response.Code = 500 => executions[r].Status = "failed"
  <2>1. RequestInv(r) /\ RecordInv(r) /\ FRTypeOK  BY <1>1 DEF GWInv, FRInv
  <2>2. /\ r \in Invocations /\ phase[r] = "answered"
        /\ executions[r].FunctionID = request[r].fn.ID
        /\ executions[r].Status = StatusOf(r)
        /\ executions[r].StatusCode = StatusCodeOf(r)
    BY <1>1, <2>1 DEF RecordInv
  <2>3. executions[r].FunctionID = functions[request[r].name].ID
    BY <2>1, <2>2 DEF RequestInv, Ran, NamedFunction
  <2>4. executions[r].Status = "success" <=> answer[r] = 0  BY <2>2 DEF StatusOf
  <2>5. request[r].response.Code = 200 =>
          executions[r].StatusCode = request[r].response.StatusCode
    BY <2>1, <2>2 DEF RequestInv, StatusCodeOf, HasExitCode
  <2>6. request[r].response.Code = 500 => executions[r].Status = "failed"
    <3>1. request[r].response.Code = 500 => answer[r] \notin ExitCodes
      BY <2>1 DEF RequestInv
    <3>2. answer[r] \notin ExitCodes => answer[r] # 0
      BY <2>1 DEF FRTypeOK, NoReply, Failure, Timeout
    <3>3. QED  BY <2>2, <3>1, <3>2 DEF StatusOf
  <2>7. QED  BY <2>2, <2>3, <2>4, <2>5, <2>6
<1>2. GWInv => RecordsAreTrue  BY <1>1 DEF RecordsAreTrue
<1>3. QED  BY <1>2, GatewayInvariant, PTL

-----------------------------------------------------------------------------
(* Gateway implements InvokeService.  A step of one invocation maps to a   *)
(* step of the same call or to a stutter; the insert of a row maps to      *)
(* Publish, the crash to Die.                                              *)

Asked == [r \in Invocations |-> request[r].name]
Place == [r \in Invocations |-> PlaceOf(r)]
Run   == [r \in Invocations |-> RanOf(r)]
Code  == [r \in Invocations |-> request[r].response.Code]

Stutter == UNCHANGED <<functions, Asked, Place, Run, Code>>

Refined == Service!ISNext \/ Stutter

OthersKept(r) ==
  \A d \in Calls : d # r => request'[d] = request[d] /\ phase'[d] = phase[d]

-----------------------------------------------------------------------------
(* A step of one request changes only that request's part of the mapped    *)
(* state, and nothing of it when the request is a test run.                *)
LEMMA OneCall ==
  ASSUME NEW r \in Invocations, OthersKept(r)
  PROVE  /\ Asked' = [Asked EXCEPT ![r] = request'[r].name]
         /\ Place' = [Place EXCEPT ![r] = PlaceOf(r)']
         /\ Run' = [Run EXCEPT ![r] = RanOf(r)']
         /\ Code' = [Code EXCEPT ![r] = request'[r].response.Code]
<1>1. ASSUME NEW d \in Invocations, d # r
      PROVE  /\ PlaceOf(d)' = PlaceOf(d) /\ RanOf(d)' = RanOf(d)
             /\ request'[d] = request[d]
  BY <1>1 DEF OthersKept, PlaceOf, RanOf, Invocations
<1>2. QED  BY <1>1 DEF Asked, Place, Run, Code

LEMMA KeptCall ==
  ASSUME NEW r \in Calls, OthersKept(r)
  PROVE  /\ r \notin Invocations => UNCHANGED <<Asked, Place, Run, Code>>
         /\ request'[r].name = request[r].name => Asked' = Asked
         /\ PlaceOf(r)' = PlaceOf(r) => Place' = Place
         /\ RanOf(r)' = RanOf(r) => Run' = Run
         /\ request'[r].response.Code = request[r].response.Code => Code' = Code
<1>1. ASSUME NEW d \in Invocations, d # r
      PROVE  /\ PlaceOf(d)' = PlaceOf(d) /\ RanOf(d)' = RanOf(d)
             /\ request'[d] = request[d]
  BY <1>1 DEF OthersKept, PlaceOf, RanOf, Invocations
<1>2. QED  BY <1>1 DEF Asked, Place, Run, Code

(* A step by which the client of one call sees nothing.                    *)
Unseen(r) ==
  /\ request'[r].name = request[r].name
  /\ request'[r].response.Code = request[r].response.Code
  /\ PlaceOf(r)' = PlaceOf(r) /\ RanOf(r)' = RanOf(r)

LEMMA UnseenStutters ==
  ASSUME NEW r \in Calls, OthersKept(r), UNCHANGED functions, Unseen(r)
  PROVE  Stutter
BY KeptCall DEF Unseen, Stutter

(* What runs is the row of the name, with its own environment.             *)
LEMMA RunsRow ==
  ASSUME GWInv, NEW r \in Invocations, NamedFunction(r),
         request[r].env = request[r].fn.EnvVars
  PROVE  [request[r].fn EXCEPT !.EnvVars = request[r].env] = functions[request[r].name]
<1> DEFINE row == functions[request[r].name]
<1>1. request[r].fn = row /\ row \in Rows /\ request[r].env = row.EnvVars
  BY DEF NamedFunction, GWInv, FSInv, FSTypeOK
<1> HIDE DEF row
<1>2. row = [row EXCEPT !.EnvVars = row.EnvVars]  BY <1>1 DEF Rows
<1>3. QED  BY <1>1, <1>2 DEF row

LEMMA RanRow ==
  ASSUME GWInv, NEW r \in Invocations, phase[r] # "idle"
  PROVE  RanOf(r) # NoRow /\ RanOf(r) = functions[request[r].name]
<1>1. NamedFunction(r) /\ request[r].env = request[r].fn.EnvVars
  BY DEF GWInv, RequestInv, Ran, Invocations
<1>2. QED  BY <1>1, RunsRow DEF RanOf, NamedFunction

(* An invocation is answered: k is its code.                               *)
LEMMA AnswerRefines ==
  ASSUME NEW r \in Invocations, OthersKept(r), UNCHANGED functions,
         NEW k \in {200, 404, 500}, PlaceOf(r) = "open",
         PlaceOf(r)' = "ended", request'[r].response.Code = k,
         request'[r].name = request[r].name, RanOf(r)' = RanOf(r),
         k = 200 => RanOf(r) # NoRow,
         k = 404 => RanOf(r) = NoRow /\ functions[request[r].name] = NoRow
  PROVE  Refined
<1>1. /\ Place' = [Place EXCEPT ![r] = "ended"] /\ Code' = [Code EXCEPT ![r] = k]
      /\ Asked' = Asked /\ Run' = Run
  BY OneCall, KeptCall DEF Invocations
<1>2. /\ Place[r] = "open" /\ Run[r] = RanOf(r) /\ Asked[r] = request[r].name
      /\ k = 200 => Run[r] # NoRow
      /\ k = 404 => Run[r] = NoRow /\ functions[Asked[r]] = NoRow
  BY DEF Place, Run, Asked
<1>3. \E j \in {200, 404, 500} :
        /\ j = 200 => Run[r] # NoRow
        /\ j = 404 => Run[r] = NoRow /\ functions[Asked[r]] = NoRow
        /\ Code' = [Code EXCEPT ![r] = j]
  BY <1>1, <1>2
<1>4. Service!Answer(r)
  BY <1>1, <1>2, <1>3, Zenon DEF Service!Answer, Asked, Place, Run, Code
<1>5. QED  BY <1>4 DEF Refined, Service!ISNext

-----------------------------------------------------------------------------
LEMMA InitRefines == GWInit => Service!ISInit
BY DEF GWInit, FSInit, FRInit, Service!ISInit, PlaceOf, RanOf, NoResponse, Invocations

LEMMA ArriveRefines ==
  ASSUME GWInv, NEW r \in Calls, NEW n \in Names, InvokeFunctionHandler(r, n)
  PROVE  Refined
<1>1. /\ r \in Invocations /\ request[r].pc = "new" /\ UNCHANGED <<functions, phase>>
      /\ phase[r] = "idle"
  BY DEF InvokeFunctionHandler, GWInv, RequestInv, fsVars, runVars
<1>2. /\ request'[r].name = n /\ request'[r].pc \in {"env", "query"}
      /\ request'[r].response = request[r].response
      /\ OthersKept(r)
  BY <1>1 DEF InvokeFunctionHandler, GWInv, GWTypeOK, Request, OthersKept
<1>3. /\ PlaceOf(r) = "new" /\ PlaceOf(r)' = "open" /\ RanOf(r)' = RanOf(r)
  BY <1>1, <1>2 DEF PlaceOf, RanOf
<1>4. /\ Place' = [Place EXCEPT ![r] = "open"] /\ Asked' = [Asked EXCEPT ![r] = n]
      /\ Run' = Run /\ Code' = Code
  BY <1>1, <1>2, <1>3, OneCall, KeptCall
<1>5. Service!Arrive(r, n)
  BY <1>1, <1>3, <1>4 DEF Service!Arrive, Asked, Place, Run, Code
<1>6. QED  BY <1>1, <1>5 DEF Refined, Service!ISNext

LEMMA QueryRefines ==
  ASSUME GWInv, NEW r \in Calls, QueryFunction(r)
  PROVE  Refined
<1>1. /\ r \in Invocations /\ request \in [Calls -> Request] /\ phase[r] = "idle"
      /\ request[r].pc = "query" /\ UNCHANGED <<functions, phase>>
  BY DEF QueryFunction, GWInv, GWTypeOK, RequestInv, fsVars, runVars
<1>2. OthersKept(r)
  BY <1>1 DEF QueryFunction, Refuse, OthersKept
<1>3. PlaceOf(r) = "open" /\ RanOf(r) = NoRow /\ RanOf(r)' = NoRow
  BY <1>1 DEF PlaceOf, RanOf
<1>4. ASSUME NEW k \in RefusalCodes, Refuse(r, k),
             k = 404 => functions[request[r].name] = NoRow
      PROVE  Refined
  <2>1. /\ request'[r].pc = "done" /\ request'[r].response.Code = k
        /\ request'[r].name = request[r].name
    BY <1>1, <1>4 DEF Refuse, Refusal, Request
  <2>2. PlaceOf(r)' = "ended"  BY <2>1 DEF PlaceOf
  <2>3. k \in {200, 404, 500} /\ k # 200  BY DEF RefusalCodes
  <2>4. QED  BY <1>1, <1>2, <1>3, <1>4, <2>1, <2>2, <2>3, AnswerRefines
<1>5. CASE request' = [request EXCEPT ![r].fn = functions[request[r].name],
                                      ![r].pc = "store"]
  <2>1. /\ request'[r].pc = "store" /\ request'[r].response = request[r].response
        /\ request'[r].name = request[r].name
    BY <1>1, <1>5 DEF Request
  <2>2. PlaceOf(r)' = "open"  BY <2>1 DEF PlaceOf
  <2>3. QED
    BY <1>1, <1>2, <1>3, <2>1, <2>2, UnseenStutters DEF Unseen, Refined
<1>6. \/ functions[request[r].name] = NoRow /\ Refuse(r, 404)
      \/ Refuse(r, 500)
      \/ request' = [request EXCEPT ![r].fn = functions[request[r].name],
                                    ![r].pc = "store"]
  BY DEF QueryFunction
<1>7. QED  BY <1>4, <1>5, <1>6 DEF RefusalCodes

(* The caches, and the goroutine of the record, are not seen.              *)
LEMMA HandlerRefines ==
  ASSUME GWInv, NEW r \in Calls,
         StoreFunction(r) \/ LoadEnv(r) \/ StoreEnv(r) \/ SpawnRecorder(r)
  PROVE  Refined
<1>1. request \in [Calls -> Request] /\ UNCHANGED <<functions, phase>>
  BY DEF StoreFunction, LoadEnv, StoreEnv, SpawnRecorder, GWInv, GWTypeOK, fsVars, runVars
<1>2. /\ OthersKept(r)
      /\ request'[r].name = request[r].name
      /\ request'[r].response = request[r].response
      /\ request'[r].fn = request[r].fn
  BY <1>1 DEF StoreFunction, LoadEnv, StoreEnv, SpawnRecorder, OthersKept, Request
<1>3. /\ request[r].pc \notin {"new", "done", "lost"}
      /\ request'[r].pc \notin {"new", "done", "lost"}
  BY <1>1 DEF StoreFunction, LoadEnv, StoreEnv, SpawnRecorder, Request
<1>4. phase[r] = "idle" \/ request'[r].env = request[r].env
  BY <1>1 DEF StoreFunction, LoadEnv, StoreEnv, SpawnRecorder, Request, GWInv, RequestInv
<1>5. PlaceOf(r)' = PlaceOf(r) /\ RanOf(r)' = RanOf(r)
  BY <1>1, <1>2, <1>3, <1>4 DEF PlaceOf, RanOf
<1>6. QED  BY <1>1, <1>2, <1>5, UnseenStutters DEF Unseen, Refined

LEMMA RunRefines ==
  ASSUME GWInv, NEW r \in Calls, RunFunction(r), request[r].pc = "run"
  PROVE  Refined
<1>1. /\ r \in Invocations /\ request \in [Calls -> Request]
      /\ request[r].pc = "run" /\ phase[r] = "idle" /\ UNCHANGED functions
      /\ NamedFunction(r) /\ request[r].env = request[r].fn.EnvVars
      /\ phase \in [Calls -> {"idle", "open", "answered", "lost"}]
  BY DEF RunFunction, GWInv, GWTypeOK, RequestInv, fsVars, FRInv, FRTypeOK
<1>2. /\ phase' = [phase EXCEPT ![r] = "open"]
      /\ request' = [request EXCEPT ![r].pc = "running"]
  BY DEF RunFunction, Ask
<1>3. /\ OthersKept(r) /\ phase'[r] = "open"
      /\ request'[r].pc = "running" /\ request'[r].name = request[r].name
      /\ request'[r].response = request[r].response
      /\ request'[r].fn = request[r].fn /\ request'[r].env = request[r].env
  BY <1>1, <1>2 DEF OthersKept, Request
<1>4. PlaceOf(r) = "open" /\ PlaceOf(r)' = PlaceOf(r) /\ RanOf(r) = NoRow
  BY <1>1, <1>3 DEF PlaceOf, RanOf
<1>5. RanOf(r)' = functions[request[r].name]
  BY <1>1, <1>3, RunsRow DEF RanOf
<1>6. /\ Run' = [Run EXCEPT ![r] = functions[request[r].name]]
      /\ Asked' = Asked /\ Place' = Place /\ Code' = Code
  BY <1>1, <1>3, <1>4, <1>5, OneCall, KeptCall
<1>7. functions[request[r].name] # NoRow  BY <1>1 DEF NamedFunction
<1>8. Service!Run(r)
  BY <1>1, <1>4, <1>6, <1>7 DEF Service!Run, Asked, Place, Run, Code
<1>9. QED  BY <1>1, <1>8 DEF Refined, Service!ISNext

LEMMA RespondRefines ==
  ASSUME GWInv, NEW r \in Calls, Respond(r)
  PROVE  Refined
<1>1. /\ request \in [Calls -> Request] /\ UNCHANGED <<functions, phase>>
      /\ request' = [request EXCEPT ![r].pc = "done", ![r].response = ResponseOf(r)]
  BY DEF Respond, GWInv, GWTypeOK, fsVars, runVars
<1>2. /\ OthersKept(r) /\ request'[r].pc = "done"
      /\ request'[r].response = ResponseOf(r) /\ request'[r].name = request[r].name
      /\ request'[r].fn = request[r].fn /\ request'[r].env = request[r].env
  BY <1>1 DEF OthersKept, Request
<1>3. CASE r \notin Invocations
  BY <1>1, <1>2, <1>3, KeptCall DEF Refined, Stutter
<1>4. CASE r \in Invocations
  <2>1. request[r].pc = "respond" /\ phase[r] = "answered"
    BY <1>4 DEF Respond, Invocations, GWInv, RequestInv
  <2>2. RanOf(r) # NoRow  BY <1>4, <2>1, RanRow
  <2>3. PlaceOf(r) = "open" /\ PlaceOf(r)' = "ended" /\ RanOf(r)' = RanOf(r)
    BY <1>1, <1>2, <2>1 DEF PlaceOf, RanOf
  <2>4. PICK k \in {200, 404, 500} : k # 404 /\ ResponseOf(r).Code = k
    BY DEF ResponseOf, Refusal
  <2>5. QED  BY <1>1, <1>2, <1>4, <2>2, <2>3, <2>4, AnswerRefines
<1>5. QED  BY <1>3, <1>4

(* A run under way, a test run and a record are not seen either.           *)
LEMMA QuietRefines ==
  ASSUME GWInv, NEW r \in Calls,
         RunStep(r) \/ (RunFunction(r) /\ TestRun(r)) \/ WriteExecution(r)
  PROVE  Refined
<1>1. UNCHANGED functions /\ request \in [Calls -> Request]
      /\ phase \in [Calls -> {"idle", "open", "answered", "lost"}]
  BY DEF RunStep, RunFunction, WriteExecution, Serving, fsVars, GWInv, GWTypeOK, FRInv, FRTypeOK
<1>2. CASE RunFunction(r) /\ TestRun(r)
  <2>1. OthersKept(r) /\ r \notin Invocations
    BY <1>1, <1>2 DEF RunFunction, TestRun, Ask, OthersKept, Invocations
  <2>2. QED  BY <1>1, <2>1, KeptCall DEF Refined, Stutter
<1>3. CASE WriteExecution(r)
  <2>1. UNCHANGED <<request, phase>>  BY <1>3 DEF WriteExecution, runVars
  <2>2. QED
    BY <1>1, <2>1, UnseenStutters DEF OthersKept, Unseen, PlaceOf, RanOf, Refined
<1>4. CASE RunStep(r)
  <2>1. /\ UNCHANGED request
        /\ \A d \in Calls : d # r => phase'[d] = phase[d]
        /\ phase[r] = "idle" <=> phase'[r] = "idle"
    BY <1>1, <1>4 DEF RunStep, Serving, Launch, Exit, Reply, Fail, TimeOut, Discard
  <2>2. QED
    BY <1>1, <2>1, UnseenStutters DEF OthersKept, Unseen, PlaceOf, RanOf, Refined
<1>5. QED  BY <1>2, <1>3, <1>4

LEMMA CreateRefines ==
  ASSUME GWInv, GWInv', CreateStep
  PROVE  Refined
<1>1. FSStep /\ UNCHANGED <<request, phase>>
  BY DEF CreateStep, runVars
<1>2. UNCHANGED <<Asked, Place, Run, Code>>
  <2>1. \A r \in Invocations : PlaceOf(r)' = PlaceOf(r) /\ RanOf(r)' = RanOf(r)
    BY <1>1 DEF PlaceOf, RanOf
  <2>2. QED  BY <1>1, <2>1 DEF Asked, Place, Run, Code
<1>3. CASE UNCHANGED functions  BY <1>2, <1>3 DEF Refined, Stutter
<1>4. CASE functions' # functions
  <2>1. PICK q \in Creates : InsertFunction(q)
    BY <1>1, <1>4 DEF FSStep, CreateFunctionHandler, SendCreateAnswer
  <2> DEFINE n == create[q].req.Name
             row == Row(q, create[q].req)
  <2>2. create[q].req \in CreateFunctionRequest /\ n \in Names
    <3>1. create[q].pc = "insert"  BY <2>1 DEF InsertFunction
    <3>2. create[q].req \in CreateFunctionRequest /\ Bound(create[q].req)
      BY <3>1 DEF GWInv, FSInv, CreateInv
    <3>3. QED  BY <3>2 DEF Bound
  <2>3. functions[n] = NoRow /\ functions' = [functions EXCEPT ![n] = row]
    BY <1>4, <2>1 DEF InsertFunction
  <2>4. functions'[n] = row /\ row \in Rows
    BY <2>2, <2>3, RowMade DEF GWInv, FSInv, FSTypeOK
  <2> HIDE DEF n, row
  <2>5. Service!Publish
    BY <1>2, <2>2, <2>3, <2>4 DEF Service!Publish, Asked, Place, Run, Code
  <2>6. QED  BY <2>5 DEF Refined, Service!ISNext
<1>5. QED  BY <1>3, <1>4

LEMMA CrashRefines ==
  ASSUME GWInv, GWCrash
  PROVE  Refined
<1>1. UNCHANGED functions /\ Invocations \subseteq Calls
  BY DEF GWCrash, FSCrash, Invocations
<1>2. ASSUME NEW r \in Invocations
      PROVE  /\ request'[r].name = request[r].name /\ RanOf(r)' = RanOf(r)
             /\ request'[r].response = request[r].response
             /\ PlaceOf(r)' = IF PlaceOf(r) = "new" THEN "new" ELSE "ended"
  <2>1. request[r] \in Request /\ phase[r] \in {"idle", "open", "answered", "lost"}
    BY <1>1 DEF GWInv, GWTypeOK, FRInv, FRTypeOK
  <2>2. /\ request'[r].name = request[r].name
        /\ request'[r].response = request[r].response
        /\ request'[r].fn = request[r].fn /\ request'[r].env = request[r].env
        /\ request'[r].pc = IF request[r].pc \in {"new", "done"} THEN request[r].pc
                            ELSE "lost"
    BY <1>1, <2>1 DEF GWCrash, Request
  <2>3. phase[r] = "idle" <=> phase'[r] = "idle"
    BY <1>1, <2>1 DEF GWCrash, Lose
  <2>4. QED  BY <2>1, <2>2, <2>3 DEF PlaceOf, RanOf
<1>3. Service!Die
  BY <1>1, <1>2 DEF Service!Die
<1>4. QED  BY <1>3 DEF Refined, Service!ISNext

LEMMA NextRefines ==
  ASSUME GWInv, GWInv', [GWNext]_gwVars
  PROVE  Refined
<1>1. ASSUME NEW r \in Calls, HandlerStep(r) PROVE Refined
  <2>1. RunFunction(r) => request[r].pc = "run" \/ TestRun(r)  BY DEF RunFunction
  <2>2. QED
    BY <1>1, <2>1, QueryRefines, HandlerRefines, RunRefines, QuietRefines, RespondRefines
    DEF HandlerStep
<1>2. CASE UNCHANGED <<functions, request, phase>>
  <2>1. \A r \in Invocations : PlaceOf(r)' = PlaceOf(r) /\ RanOf(r)' = RanOf(r)
    BY <1>2 DEF PlaceOf, RanOf
  <2>2. QED  BY <1>2, <2>1 DEF Refined, Stutter, Asked, Place, Run, Code
<1>3. GWRestart \/ UNCHANGED gwVars => UNCHANGED <<functions, request, phase>>
  BY DEF GWRestart, gwVars, fsVars, runVars
<1>4. QED
  BY <1>1, <1>2, <1>3, ArriveRefines, QuietRefines, CreateRefines, CrashRefines DEF GWNext

(* The engine is the service without caches, to all who invoke functions,  *)
(* in every interleaving of their requests (handler_invoke.go:23-97).      *)
THEOREM GatewayImplementsInvokeService == GWSpec => ImplementsInvokeService
<1>1. GWInit => Service!ISInit  BY InitRefines
<1>2. GWInv /\ GWInv' /\ [GWNext]_gwVars => [Service!ISNext]_(Service!isVars)
  BY NextRefines DEF Refined, Stutter, Asked, Place, Run, Code, Service!isVars
<1>3. QED
  BY <1>1, <1>2, GatewayInvariant, PTL
  DEF GWSpec, ImplementsInvokeService, Service!ISSpec
=============================================================================
