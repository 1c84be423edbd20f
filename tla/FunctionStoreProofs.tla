------------------------- MODULE FunctionStoreProofs -------------------------
(***************************************************************************)
(* The proofs about FunctionStore.  Each row is tied to the request that   *)
(* made it (RowInv), and each create answered 201 to the row it made       *)
(* (CreateInv); an insert into a free name makes a new tie and touches no  *)
(* other.                                                                  *)
(***************************************************************************)
EXTENDS FunctionStore, TLAPS

(* The row is the one its request asked for.                               *)
MadeOf(row, q) ==
  /\ row.ID = q
  /\ row.ImageTag = create[q].req.ImageTag
  /\ row.EnvVars = create[q].req.EnvVars
  /\ row.TimeoutSeconds = OrDefault(create[q].req.TimeoutSeconds, 30)
  /\ row.MemoryLimitMB = OrDefault(create[q].req.MemoryLimitMB, 128)

RowInv(n) ==
  functions[n] # NoRow =>
    LET q == functions[n].ID IN
    /\ q \in Creates
    /\ MadeOf(functions[n], q)
    /\ create[q].pc \notin {"new", "insert"}
    /\ create[q].req.Name = n
    /\ Bound(create[q].req)
    /\ create[q].code \in {Created, ServerError}
    /\ ~create[q].duplicate

CreateInv(q) ==
  LET st == create[q] IN
  /\ st.pc = "insert" => st.req \in CreateFunctionRequest /\ Bound(st.req)
  /\ st.pc \in {"new", "insert"} => st.code = 0 /\ ~st.duplicate
  /\ st.code = Created =>
       /\ st.req.Name \in Names
       /\ functions[st.req.Name] # NoRow
       /\ MadeOf(functions[st.req.Name], q)

FSInv ==
  /\ FSTypeOK
  /\ \A n \in Names : RowInv(n)
  /\ \A q \in Creates : CreateInv(q)

-----------------------------------------------------------------------------
LEMMA RowMade ==
  ASSUME NEW q \in Creates, NEW req \in CreateFunctionRequest
  PROVE  /\ Row(q, req) \in Rows
         /\ Row(q, req).ID = q
         /\ Row(q, req).ImageTag = req.ImageTag
         /\ Row(q, req).EnvVars = req.EnvVars
         /\ Row(q, req).TimeoutSeconds = OrDefault(req.TimeoutSeconds, 30)
         /\ Row(q, req).MemoryLimitMB = OrDefault(req.MemoryLimitMB, 128)
<1>1. /\ req.ImageTag \in Images /\ req.EnvVars \in Envs
      /\ req.TimeoutSeconds \in TimeoutInputs /\ req.MemoryLimitMB \in MemoryInputs
  BY DEF CreateFunctionRequest
<1> DEFINE t == OrDefault(req.TimeoutSeconds, 30)
           m == OrDefault(req.MemoryLimitMB, 128)
<1>2. t \in TimeoutInputs \cup {30} /\ m \in MemoryInputs \cup {128}
  BY <1>1 DEF OrDefault
<1> HIDE DEF t, m
<1>3. [ID |-> q, ImageTag |-> req.ImageTag, EnvVars |-> req.EnvVars,
       TimeoutSeconds |-> t, MemoryLimitMB |-> m] \in Rows
  BY <1>1, <1>2 DEF Rows
<1>4. Row(q, req) = [ID |-> q, ImageTag |-> req.ImageTag, EnvVars |-> req.EnvVars,
                     TimeoutSeconds |-> t, MemoryLimitMB |-> m]
  BY DEF Row, t, m
<1>5. QED  BY <1>3, <1>4 DEF t, m

(* One request's state is set: the others' are as they were.               *)
LEMMA SetCreate ==
  ASSUME FSTypeOK, NEW q \in Creates, NEW st \in CreateState,
         create' = [create EXCEPT ![q] = st]
  PROVE  /\ create' \in [Creates -> CreateState]
         /\ create'[q] = st
         /\ \A p \in Creates : p # q => create'[p] = create[p]
BY DEF FSTypeOK

LEMMA InsertEffect ==
  ASSUME FSTypeOK, NEW q \in Creates, NEW code \in {Created, ServerError},
         NEW duplicate \in BOOLEAN, InsertEnds(q, code, duplicate)
  PROVE  /\ create' \in [Creates -> CreateState]
         /\ create'[q].pc = "inserted" /\ create'[q].req = create[q].req
         /\ create'[q].code = code /\ create'[q].duplicate = duplicate
         /\ \A p \in Creates : p # q => create'[p] = create[p]
<1> DEFINE st == [create[q] EXCEPT !.pc = "inserted", !.code = code,
                                   !.duplicate = duplicate]
<1>1. create[q] \in CreateState  BY DEF FSTypeOK
<1>2. /\ st \in CreateState /\ st.pc = "inserted" /\ st.req = create[q].req
      /\ st.code = code /\ st.duplicate = duplicate
  BY <1>1 DEF CreateState
<1>3. create' = [create EXCEPT ![q] = st]  BY DEF InsertEnds
<1> HIDE DEF st
<1>4. QED  BY <1>2, <1>3, SetCreate

(* An insert puts the request's row under its name, which was free, or     *)
(* leaves the table alone.                                                 *)
LEMMA InsertSteps ==
  ASSUME FSInv, NEW q \in Creates, InsertFunction(q)
  PROVE  FSInv'
<1> DEFINE req == create[q].req
           n == req.Name
           row == Row(q, req)
<1>1. /\ create[q].pc = "insert" /\ req \in CreateFunctionRequest /\ Bound(req)
      /\ n \in Names
  <2>1. create[q].pc = "insert"  BY DEF InsertFunction
  <2>2. req \in CreateFunctionRequest /\ Bound(req)  BY <2>1 DEF FSInv, CreateInv
  <2>3. QED  BY <2>1, <2>2 DEF Bound
<1>2. /\ row \in Rows /\ row # NoRow /\ row.ID = q
      /\ row.ImageTag = req.ImageTag /\ row.EnvVars = req.EnvVars
      /\ row.TimeoutSeconds = OrDefault(req.TimeoutSeconds, 30)
      /\ row.MemoryLimitMB = OrDefault(req.MemoryLimitMB, 128)
  <2> HIDE DEF req
  <2>1. /\ row \in Rows /\ row.ID = q
        /\ row.ImageTag = req.ImageTag /\ row.EnvVars = req.EnvVars
        /\ row.TimeoutSeconds = OrDefault(req.TimeoutSeconds, 30)
        /\ row.MemoryLimitMB = OrDefault(req.MemoryLimitMB, 128)
    BY <1>1, RowMade
  <2>2. QED  BY <2>1, FSDistinct
<1> HIDE DEF row
<1>3. CASE /\ functions[n] = NoRow
           /\ functions' = [functions EXCEPT ![n] = row]
           /\ InsertEnds(q, Created, FALSE) \/ InsertEnds(q, ServerError, FALSE)
  <2>1. PICK code \in {Created, ServerError} : InsertEnds(q, code, FALSE)  BY <1>3
  <2>2. /\ create' \in [Creates -> CreateState]
        /\ create'[q].pc = "inserted" /\ create'[q].req = req
        /\ create'[q].code = code /\ ~create'[q].duplicate
        /\ \A p \in Creates : p # q => create'[p] = create[p]
    BY <2>1, InsertEffect DEF FSInv
  <2>3. /\ functions' \in [Names -> Rows \cup {NoRow}]
        /\ functions'[n] = row
        /\ \A m \in Names : m # n => functions'[m] = functions[m]
    BY <1>1, <1>2, <1>3 DEF FSInv, FSTypeOK
  <2>4. ASSUME NEW m \in Names PROVE RowInv(m)'
    <3>1. CASE m = n  BY <1>1, <1>2, <2>2, <2>3, <3>1 DEF RowInv, MadeOf
    <3>2. CASE m # n
      <4>1. RowInv(m) /\ functions'[m] = functions[m]  BY <2>3, <3>2 DEF FSInv
      <4>2. functions[m] # NoRow => functions[m].ID # q  BY <1>1, <4>1 DEF RowInv
      <4>3. QED  BY <2>2, <4>1, <4>2 DEF RowInv, MadeOf
    <3>3. QED  BY <3>1, <3>2
  <2>5. ASSUME NEW p \in Creates PROVE CreateInv(p)'
    <3>1. CASE p = q  BY <1>1, <1>2, <2>2, <2>3, <3>1 DEF CreateInv, MadeOf
    <3>2. CASE p # q
      <4>1. CreateInv(p) /\ create'[p] = create[p]  BY <2>2, <3>2 DEF FSInv
      <4>2. create[p].code = Created => create[p].req.Name # n
        BY <1>3, <4>1 DEF CreateInv
      <4>3. QED  BY <2>3, <4>1, <4>2 DEF CreateInv, MadeOf
    <3>3. QED  BY <3>1, <3>2
  <2>6. QED  BY <2>2, <2>3, <2>4, <2>5 DEF FSInv, FSTypeOK
<1>4. CASE /\ UNCHANGED functions
           /\ InsertEnds(q, ServerError, TRUE) \/ InsertEnds(q, ServerError, FALSE)
  <2>1. PICK duplicate \in BOOLEAN : InsertEnds(q, ServerError, duplicate)  BY <1>4
  <2>2. /\ create' \in [Creates -> CreateState]
        /\ create'[q].pc = "inserted" /\ create'[q].code = ServerError
        /\ \A p \in Creates : p # q => create'[p] = create[p]
    BY <2>1, InsertEffect DEF FSInv
  <2>3. ASSUME NEW m \in Names PROVE RowInv(m)'
    <3>1. RowInv(m) /\ functions'[m] = functions[m]  BY <1>4 DEF FSInv
    <3>2. functions[m] # NoRow => functions[m].ID # q  BY <1>1, <3>1 DEF RowInv
    <3>3. QED  BY <2>2, <3>1, <3>2 DEF RowInv, MadeOf
  <2>4. ASSUME NEW p \in Creates PROVE CreateInv(p)'
    <3>1. CASE p = q  BY <2>2, <3>1 DEF CreateInv, Created, ServerError
    <3>2. CASE p # q  BY <1>4, <2>2, <3>2 DEF FSInv, CreateInv, MadeOf
    <3>3. QED  BY <3>1, <3>2
  <2>5. QED  BY <1>4, <2>2, <2>3, <2>4 DEF FSInv, FSTypeOK
<1>5. QED  BY <1>3, <1>4 DEF InsertFunction, row

(* The other steps leave the table alone.                                  *)
LEMMA ArriveSteps ==
  ASSUME FSInv, NEW q \in Creates, NEW req \in CreateFunctionRequest,
         CreateFunctionHandler(q, req)
  PROVE  FSInv'
<1> DEFINE pc == IF Bound(req) THEN "insert" ELSE "done"
           code == IF Bound(req) THEN 0 ELSE BadRequest
           st == [create[q] EXCEPT !.req = req, !.pc = pc, !.code = code]
<1>1. create[q] \in CreateState /\ create[q].pc = "new" /\ ~create[q].duplicate
  BY DEF FSInv, FSTypeOK, CreateInv, CreateFunctionHandler
<1>2. /\ pc \in {"insert", "done"} /\ code \in {0, BadRequest}
      /\ pc = "insert" => Bound(req) /\ code = 0
  OBVIOUS
<1>3. create' = [create EXCEPT ![q] = st]  BY DEF CreateFunctionHandler
<1> HIDE DEF pc, code
<1>4. /\ st \in CreateState /\ st.req = req /\ st.pc = pc /\ st.code = code
      /\ ~st.duplicate
  BY <1>1, <1>2 DEF CreateState
<1> HIDE DEF st
<1>5. /\ create' \in [Creates -> CreateState]
      /\ create'[q] = st
      /\ \A p \in Creates : p # q => create'[p] = create[p]
  BY <1>3, <1>4, SetCreate DEF FSInv
<1>6. UNCHANGED functions  BY DEF CreateFunctionHandler
<1>7. ASSUME NEW m \in Names PROVE RowInv(m)'
  <2>1. RowInv(m)  BY DEF FSInv
  <2>2. functions[m] # NoRow => functions[m].ID # q  BY <1>1, <2>1 DEF RowInv
  <2>3. QED  BY <1>5, <1>6, <2>1, <2>2 DEF RowInv, MadeOf
<1>8. ASSUME NEW p \in Creates PROVE CreateInv(p)'
  <2>1. CASE p = q
    BY <1>2, <1>4, <1>5, <2>1 DEF CreateInv, Created, BadRequest
  <2>2. CASE p # q  BY <1>5, <1>6, <2>2 DEF FSInv, CreateInv, MadeOf
  <2>3. QED  BY <2>1, <2>2
<1>9. QED  BY <1>5, <1>6, <1>7, <1>8 DEF FSInv, FSTypeOK

(* A step that only moves requests on from "insert" or "inserted".         *)
LEMMA MoveSteps ==
  ASSUME FSInv, UNCHANGED functions, create' \in [Creates -> CreateState],
         \A p \in Creates :
           \/ create'[p] = create[p]
           \/ /\ create'[p].req = create[p].req /\ create'[p].code = create[p].code
              /\ create'[p].duplicate = create[p].duplicate
              /\ create'[p].pc \in {"done", "lost"}
  PROVE  FSInv'
<1>1. ASSUME NEW m \in Names PROVE RowInv(m)'
  BY DEF FSInv, RowInv, MadeOf
<1>2. ASSUME NEW p \in Creates PROVE CreateInv(p)'
  BY DEF FSInv, CreateInv, MadeOf
<1>3. QED  BY <1>1, <1>2 DEF FSInv, FSTypeOK

LEMMA SendSteps ==
  ASSUME FSInv, NEW q \in Creates, SendCreateAnswer(q)
  PROVE  FSInv'
<1> DEFINE st == [create[q] EXCEPT !.pc = "done"]
<1>1. create[q] \in CreateState  BY DEF FSInv, FSTypeOK
<1>2. /\ st \in CreateState /\ st.pc = "done" /\ st.req = create[q].req
      /\ st.code = create[q].code /\ st.duplicate = create[q].duplicate
  BY <1>1 DEF CreateState
<1>3. create' = [create EXCEPT ![q] = st]  BY DEF SendCreateAnswer
<1> HIDE DEF st
<1>4. QED  BY <1>2, <1>3, SetCreate, MoveSteps DEF SendCreateAnswer, FSInv

LEMMA CrashSteps ==
  ASSUME FSInv, FSCrash
  PROVE  FSInv'
<1> DEFINE st(q) == [create[q] EXCEPT
             !.pc = IF create[q].pc \in {"insert", "inserted"} THEN "lost" ELSE create[q].pc]
<1>1. ASSUME NEW q \in Creates
      PROVE  /\ st(q) \in CreateState
             /\ \/ st(q) = create[q]
                \/ /\ st(q).req = create[q].req /\ st(q).code = create[q].code
                   /\ st(q).duplicate = create[q].duplicate /\ st(q).pc = "lost"
  <2>1. create[q] \in CreateState  BY DEF FSInv, FSTypeOK
  <2>2. CASE create[q].pc \in {"insert", "inserted"}  BY <2>1, <2>2 DEF CreateState
  <2>3. CASE create[q].pc \notin {"insert", "inserted"}  BY <2>1, <2>3 DEF CreateState
  <2>4. QED  BY <2>2, <2>3
<1>2. create' = [q \in Creates |-> st(q)]  BY DEF FSCrash
<1> HIDE DEF st
<1>3. QED  BY <1>1, <1>2, MoveSteps DEF FSCrash

-----------------------------------------------------------------------------
(* The invariant. *)

LEMMA FSInitHolds == FSInit => FSInv
<1> SUFFICES ASSUME FSInit PROVE FSInv  OBVIOUS
<1> DEFINE st == [pc |-> "new", req |-> NoRequest, code |-> 0, duplicate |-> FALSE]
<1>1. st \in CreateState  BY DEF CreateState
<1>2. FSTypeOK  BY <1>1 DEF FSInit, FSTypeOK
<1>3. \A n \in Names : RowInv(n)  BY DEF FSInit, RowInv
<1>4. ASSUME NEW q \in Creates PROVE CreateInv(q)
  <2>1. create[q] = st  BY DEF FSInit
  <2>2. create[q].pc = "new" /\ create[q].code = 0 /\ ~create[q].duplicate
    BY <2>1
  <2>3. QED  BY <2>2 DEF CreateInv, Created
<1>5. QED  BY <1>2, <1>3, <1>4 DEF FSInv

LEMMA FSStepHolds == FSInv /\ [FSNext]_fsVars => FSInv'
<1> SUFFICES ASSUME FSInv, [FSNext]_fsVars PROVE FSInv'  OBVIOUS
<1>1. CASE UNCHANGED fsVars
  BY <1>1 DEF fsVars, FSInv, FSTypeOK, RowInv, CreateInv, MadeOf
<1>2. CASE FSStep  BY <1>2, ArriveSteps, InsertSteps, SendSteps DEF FSStep
<1>3. CASE FSCrash  BY <1>3, CrashSteps
<1>4. QED  BY <1>1, <1>2, <1>3 DEF FSNext

(* The invariant of the functions table holds in every reachable state.    *)
THEOREM FunctionStoreInvariant == FSSpec => []FSInv
<1>1. QED  BY FSInitHolds, FSStepHolds, PTL DEF FSSpec

-----------------------------------------------------------------------------
(* The table and the requests are of their types.                          *)
THEOREM FunctionStoreTypeCorrect == FSSpec => []FSTypeOK
<1>1. FSInv => FSTypeOK  BY DEF FSInv
<1>2. QED  BY <1>1, FunctionStoreInvariant, PTL

(* A create that was answered 201 is found by every later get of its name, *)
(* as it was asked for, for any number of concurrent creates               *)
(* (handler_function.go:52-72 and 91).                                     *)
THEOREM CreatesAreFound == FSSpec => []CreatedIsFound
<1>1. FSInv => CreatedIsFound
  BY DEF FSInv, CreatedIsFound, CreateInv, MadeOf, GetFunctionByName, FunctionResponse
<1>2. QED  BY <1>1, FunctionStoreInvariant, PTL

(* Every row was asked for under its name by a request that was not denied *)
(* (handler_function.go:30-59).                                            *)
THEOREM RowsAreRequested == FSSpec => []RowsWereRequested
<1>1. FSInv => RowsWereRequested  BY DEF FSInv, RowsWereRequested, RowInv
<1>2. QED  BY <1>1, FunctionStoreInvariant, PTL

(* Whatever limits requests carry, the stored ones can run a function      *)
(* (dot.go:10-11, function.go:29-30).                                      *)
THEOREM LimitsAreInRange == FSSpec => []StoredLimitsInRange
<1>1. ASSUME FSInv, NEW n \in Names, functions[n] # NoRow
      PROVE  /\ functions[n].TimeoutSeconds \in 1..300
             /\ functions[n].MemoryLimitMB \in 64..2048
  <2> DEFINE req == create[functions[n].ID].req
  <2>1. /\ Bound(req)
        /\ functions[n].TimeoutSeconds = OrDefault(req.TimeoutSeconds, 30)
        /\ functions[n].MemoryLimitMB = OrDefault(req.MemoryLimitMB, 128)
    BY <1>1 DEF FSInv, RowInv, MadeOf
  <2> HIDE DEF req
  <2>2. QED  BY <2>1 DEF Bound, OrDefault
<1>2. FSInv => StoredLimitsInRange  BY <1>1 DEF StoredLimitsInRange, ListFunctions
<1>3. QED  BY <1>2, FunctionStoreInvariant, PTL

(* The one statement that writes the table writes under a free name.       *)
LEMMA RowsStay ==
  FSTypeOK /\ [FSNext]_fsVars => \A n \in Names : functions[n] # NoRow => functions'[n] = functions[n]
<1> SUFFICES ASSUME FSTypeOK, [FSNext]_fsVars, NEW n \in Names, functions[n] # NoRow
             PROVE  functions'[n] = functions[n]
  OBVIOUS
<1>1. CASE \E q \in Creates : InsertFunction(q)  BY <1>1 DEF InsertFunction, FSTypeOK
<1>2. CASE UNCHANGED functions  BY <1>2
<1>3. QED
  BY <1>1, <1>2 DEF FSNext, FSStep, FSCrash, CreateFunctionHandler, SendCreateAnswer, fsVars

(* No step changes or removes a row: the caches of the invoke handler may  *)
(* hold it for ever (handler_function.go:52-59, handler_invoke.go:28-52).  *)
THEOREM NamesKeepFunctions == FSSpec => NamesKeepTheirFunction
<1>1. FSInv /\ [FSNext]_fsVars =>
        [\A n \in Names : functions[n] # NoRow => functions'[n] = functions[n]]_fsVars
  BY RowsStay DEF FSInv
<1>2. QED  BY <1>1, FunctionStoreInvariant, PTL DEF FSSpec, NamesKeepTheirFunction
=============================================================================
