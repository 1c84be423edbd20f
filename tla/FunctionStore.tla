---------------------------- MODULE FunctionStore ----------------------------
(***************************************************************************)
(* The functions of the engine: CreateFunctionHandler run by concurrent    *)
(* requests, and what the list and get handlers read                       *)
(* (internal/api/v1/handler_function.go), over the functions table that    *)
(* gorm keeps for domain.Function (internal/domain/function.go).           *)
(*                                                                         *)
(* One insert is one transaction: it takes effect or not, and its answer   *)
(* may be lost.  No handler updates or deletes a row.                      *)
(***************************************************************************)
EXTENDS Integers

CONSTANTS
  Creates,         \* requests to POST /api/v1/functions
  Names,           \* names the binding accepts (3 to 50 characters)
  BadName,         \* a name it refuses
  Images,          \* image tags
  Envs,            \* values of env_vars
  TimeoutInputs,   \* values of timeout_seconds in requests, 0 if absent
  MemoryInputs,    \* values of memory_limit_mb in requests, 0 if absent
  NoRow,           \* no function of that name
  DBMayFail        \* whether the database may fail

ASSUME FSAssumption ==
  /\ BadName \notin Names
  /\ TimeoutInputs \subseteq Int /\ MemoryInputs \subseteq Int
  /\ DBMayFail \in BOOLEAN

VARIABLES
  functions,       \* the table: the row of each name, under its unique index
  create           \* each create request: its place, its body, its answer

fsVars == <<functions, create>>

-----------------------------------------------------------------------------
CreateFunctionRequest ==
  [Name : Names \cup {BadName}, ImageTag : Images, EnvVars : Envs,
   TimeoutSeconds : TimeoutInputs, MemoryLimitMB : MemoryInputs]

(* The binding tags: omitempty lets a zero through. *)
Bound(req) ==
  /\ req.Name \in Names
  /\ req.TimeoutSeconds \in {0} \cup 1..300
  /\ req.MemoryLimitMB \in {0} \cup 64..2048

(* The default tags of the columns: gorm fills a zero in on insert.        *)
\* Variant: the zero is stored as it is.
StoredAsGiven(given, default) == given
OrDefault(given, default) == IF given = 0 THEN default ELSE given

\* Variant: the row is known by its name.
RowOfName(q, req) ==
  [ID |-> req.Name, ImageTag |-> req.ImageTag, EnvVars |-> req.EnvVars,
   TimeoutSeconds |-> OrDefault(req.TimeoutSeconds, 30),
   MemoryLimitMB |-> OrDefault(req.MemoryLimitMB, 128)]

(* Each request makes a fresh UUID: a row's ID is the request that made it.*)
Row(q, req) ==
  [ID |-> q, ImageTag |-> req.ImageTag, EnvVars |-> req.EnvVars,
   TimeoutSeconds |-> OrDefault(req.TimeoutSeconds, 30),
   MemoryLimitMB |-> OrDefault(req.MemoryLimitMB, 128)]

Rows ==
  [ID : Creates, ImageTag : Images, EnvVars : Envs,
   TimeoutSeconds : TimeoutInputs \cup {30},
   MemoryLimitMB : MemoryInputs \cup {128}]

Created == 201
BadRequest == 400
Conflict == 409
ServerError == 500

NoRequest == [Name |-> BadName]

CreateState ==
  [pc : {"new", "insert", "inserted", "done", "lost"},
   req : CreateFunctionRequest \cup {NoRequest},
   code : {0, Created, BadRequest, Conflict, ServerError},
   duplicate : BOOLEAN]           \* history: the index refused the insert

ASSUME FSDistinct == NoRow \notin Rows

FSTypeOK ==
  /\ functions \in [Names -> Rows \cup {NoRow}]
  /\ create \in [Creates -> CreateState]

FSInit ==
  /\ functions = [n \in Names |-> NoRow]
  /\ create = [q \in Creates |-> [pc |-> "new", req |-> NoRequest, code |-> 0,
                                  duplicate |-> FALSE]]

-----------------------------------------------------------------------------
CreateFunctionHandler(q, req) ==
  /\ create[q].pc = "new"
  /\ create' = [create EXCEPT ![q].req = req,
       ![q].pc = IF Bound(req) THEN "insert" ELSE "done",
       ![q].code = IF Bound(req) THEN 0 ELSE BadRequest]
  /\ UNCHANGED functions

InsertEnds(q, code, duplicate) ==
  create' = [create EXCEPT ![q].pc = "inserted", ![q].code = code,
                           ![q].duplicate = duplicate]

\* Variant: the insert takes over the row of the same name.
UpsertFunction(q) ==
  /\ create[q].pc = "insert"
  /\ functions' = [functions EXCEPT ![create[q].req.Name] = Row(q, create[q].req)]
  /\ InsertEnds(q, Created, FALSE)

\* Variant: an insert whose answer was lost is tried again, and meets its row.
InsertTwice(q) ==
  LET n == create[q].req.Name
  IN /\ create[q].pc = "insert"
     /\ functions[n] = NoRow
     /\ functions' = [functions EXCEPT ![n] = Row(q, create[q].req)]
     /\ InsertEnds(q, ServerError, TRUE)

(* The insert commits; or the index refuses it, with an error that is not  *)
(* gorm.ErrDuplicatedKey because TranslateError is off (db/postgres.go:13);*)
(* or the database fails, before the commit or after it.                   *)
InsertFunction(q) ==
  LET n == create[q].req.Name
      Commit == functions' = [functions EXCEPT ![n] = Row(q, create[q].req)]
  IN /\ create[q].pc = "insert"
     /\ \/ functions[n] = NoRow /\ Commit /\ InsertEnds(q, Created, FALSE)
        \/ functions[n] # NoRow /\ UNCHANGED functions
           /\ InsertEnds(q, ServerError, TRUE)
        \/ DBMayFail /\ UNCHANGED functions /\ InsertEnds(q, ServerError, FALSE)
        \/ DBMayFail /\ functions[n] = NoRow /\ Commit
           /\ InsertEnds(q, ServerError, FALSE)

SendCreateAnswer(q) ==
  /\ create[q].pc = "inserted"
  /\ create' = [create EXCEPT ![q].pc = "done"]
  /\ UNCHANGED functions

(* The engine dies: requests are lost between their steps, the table stays.*)
FSCrash ==
  /\ create' = [q \in Creates |-> [create[q] EXCEPT
       !.pc = IF @ \in {"insert", "inserted"} THEN "lost" ELSE @]]
  /\ UNCHANGED functions

FSStep ==
  \/ \E q \in Creates, req \in CreateFunctionRequest : CreateFunctionHandler(q, req)
  \/ \E q \in Creates : InsertFunction(q) \/ SendCreateAnswer(q)

FSNext == FSStep \/ FSCrash

FSSpec == FSInit /\ [][FSNext]_fsVars

-----------------------------------------------------------------------------
(* What a 201 answer shows: the row's identity, and the body's own limits. *)
FunctionResponse(q) ==
  [ID |-> q, ImageTag |-> create[q].req.ImageTag,
   EnvVars |-> create[q].req.EnvVars,
   TimeoutSeconds |-> create[q].req.TimeoutSeconds,
   MemoryLimitMB |-> create[q].req.MemoryLimitMB]

(* What the get handler answers for a name, and the list handler for all:  *)
(* NoRow stands for the 404.                                               *)
GetFunctionByName(n) == functions[n]
ListFunctions == {functions[n] : n \in Names} \ {NoRow}

-----------------------------------------------------------------------------
(* A create that was answered 201 is found by every later get of its name: *)
(* of concurrent creates of one name at most one is told it succeeded, and *)
(* nothing replaces its row (handler_function.go:52-72 and 91).  A limit   *)
(* left out is shown as the column's default.                              *)
CreatedIsFound ==
  \A q \in Creates :
    (create[q].pc = "done" /\ create[q].code = Created) =>
      LET row == GetFunctionByName(create[q].req.Name)
          shown == FunctionResponse(q)
      IN /\ row # NoRow
         /\ row.ID = shown.ID /\ row.ImageTag = shown.ImageTag
         /\ row.EnvVars = shown.EnvVars
         /\ row.TimeoutSeconds = OrDefault(shown.TimeoutSeconds, 30)
         /\ row.MemoryLimitMB = OrDefault(shown.MemoryLimitMB, 128)

(* Every row was asked for, under this very name, by a request whose answer*)
(* does not deny it: it was answered 201, or it failed in a way that       *)
(* leaves the outcome open, never refused (handler_function.go:30-59).     *)
RowsWereRequested ==
  \A n \in Names : functions[n] # NoRow =>
    LET q == functions[n].ID IN
      /\ create[q].req.Name = n
      /\ create[q].code \in {Created, ServerError}
      /\ ~create[q].duplicate

(* Every stored function can run: its deadline is not over when it starts  *)
(* and its memory is within what the binding allows, whichever of the      *)
(* checks, the defaults and omitempty its limits came through (dot.go:10-  *)
(* 11, function.go:29-30, manager.go:70 and 120).                          *)
StoredLimitsInRange ==
  \A row \in ListFunctions :
    row.TimeoutSeconds \in 1..300 /\ row.MemoryLimitMB \in 64..2048

(* A name, once answered for, keeps its function: no request changes or    *)
(* removes a row, which the caches of the invoke handler rely on           *)
(* (handler_invoke.go:28-52).                                              *)
NamesKeepTheirFunction ==
  [][\A n \in Names : functions[n] # NoRow => functions'[n] = functions[n]]_fsVars

(* A create that the unique index refused is answered 409                  *)
(* (handler_function.go:53-54).                                            *)
DuplicateNameIsConflict ==
  \A q \in Creates :
    (create[q].pc = "done" /\ create[q].duplicate) => create[q].code = Conflict
=============================================================================
