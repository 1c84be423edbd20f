------------------------------ MODULE CommandLine ------------------------------
(***************************************************************************)
(* The mfaas commands (cmd/cli/main.go) as clients of the gateway: every   *)
(* create, invoke and list request comes from a process of its own, which  *)
(* sends it, reads the answer (internal/delivery/response.go), says how it *)
(* went and exits.  It fails when the engine cannot be reached or dies     *)
(* under the request, and never tries again.                               *)
(*                                                                         *)
(* A command is named by its request.  Scripts and shells run commands one *)
(* after the other and at the same time.                                   *)
(***************************************************************************)
EXTENDS Gateway

CONSTANTS
  Lists,         \* runs of mfaas list
  PathName,      \* what the invocation of a name asks for (PathAssumption)
  NoRoute,       \* no name: no route matches the path
  BadURL         \* no name: the client refuses the URL

Commands == Creates \cup Invocations \cup Lists

ASSUME CLAssumption ==
  /\ Creates \cap Calls = {} /\ Lists \cap (Creates \cup Calls) = {}

(* Invoke puts the name into the URL as it is (main.go:61-65 and 261), and *)
(* a create only looks at its length.  Of foo?v1 and foo#v1 the path holds *)
(* foo, of foo%31 it is foo1, foo/ is sent on to foo; a/b meets no route,  *)
(* and foo%zz makes no URL.                                                *)
ASSUME PathAssumption ==
  /\ PathName \in [Names -> Names \cup {NoRoute, BadURL}]
  /\ NoRoute \notin Names /\ BadURL \notin Names /\ NoRoute # BadURL

VARIABLE command        \* the process of each command

clVars == <<command, gwVars>>

-----------------------------------------------------------------------------
Listed == [ID : Creates, Timeout : TimeoutInputs \cup {30}]

Command ==
  [pc : {"new", "sent", "ended"},
   name : Names \cup {BadName},           \* the name an invoke was given
   said : {"nothing", "success", "failed", "status"},
   shown : SUBSET Listed,                 \* the table of mfaas list
   seen : SUBSET (Creates \cup Lists)]    \* history: the creates (an invoke),
                                          \* and lists (a list), that had
                                          \* succeeded when this one was run

CLTypeOK == command \in [Commands -> Command]

NewCommand == [pc |-> "new", name |-> BadName, said |-> "nothing",
               shown |-> {}, seen |-> {}]

CLInit == GWInit /\ command = [c \in Commands |-> NewCommand]

Succeeded == {c \in Creates \cup Lists : command[c].said = "success"}

-----------------------------------------------------------------------------
(* The envelope of an answer. *)
NewResponser == [statusCode |-> 200, Success |-> TRUE]
Status(a, code) == [a EXCEPT !.statusCode = code]
\* Variant: the error is added to an envelope that says success.
WithErrorOnly(a) == a
WithError(a) == [a EXCEPT !.Success = FALSE]

CreateAnswer(q) ==
  LET a == Status(NewResponser, create[q].code)
  IN IF create[q].code = Created THEN a ELSE WithError(a)

InvokeAnswer(r) ==
  LET a == Status(NewResponser, request[r].response.Code)
  IN IF a.statusCode = 200 THEN a ELSE WithError(a)

(* What a command says when its request has ended: create goes by the      *)
(* status of the answer, invoke by its envelope.                           *)
CreateSays(q) ==
  IF create[q].pc = "done" /\ CreateAnswer(q).statusCode \in {200, 201}
  THEN "success" ELSE "failed"

\* Variant: the command ends in a way its callers do not know.
InvokeSaysCompleted(r) == IF request[r].pc = "done" THEN "completed" ELSE "failed"
InvokeSays(r) ==
  IF request[r].pc = "done" /\ InvokeAnswer(r).Success THEN "success" ELSE "failed"

\* Variant: only the field of the create's answer is read.
GetTimeoutSec(seconds, sec) == sec
(* The timeout of a function, which the two answers name differently. *)
GetTimeout(seconds, sec) == IF seconds > 0 THEN seconds ELSE sec

ListingOf(row) == [ID |-> row.ID, Timeout |-> GetTimeout(row.TimeoutSeconds, 0)]
Listing == {ListingOf(row) : row \in ListFunctions}

-----------------------------------------------------------------------------
Send(c, n, before) ==
  /\ command[c].pc = "new"
  /\ command' = [command EXCEPT ![c] =
       [@ EXCEPT !.pc = "sent", !.name = n, !.seen = before]]

EndWith(c, says, table) ==
  command' = [command EXCEPT ![c] =
    [@ EXCEPT !.pc = "ended", !.said = says, !.shown = table]]

CreateCommand(q, req) ==
  /\ up /\ Send(q, BadName, {}) /\ CreateFunctionHandler(q, req)
  /\ UNCHANGED <<up, caches, request, records, runVars>>

InvokeCommand(r, n) ==
  /\ PathName[n] \in Names
  /\ Send(r, n, Succeeded \cap Creates) /\ InvokeFunctionHandler(r, PathName[n])

ListCommand(l) == up /\ Send(l, BadName, Succeeded) /\ UNCHANGED gwVars

(* The connection is refused. *)
Unreachable(c) ==
  /\ ~up /\ command[c].pc = "new" /\ EndWith(c, "failed", {})
  /\ UNCHANGED gwVars

(* No handler is reached: the answer of the router is not an envelope, and *)
(* the command prints its status and exits with 0; or nothing is sent.     *)
InvokeUnrouted(r, n) ==
  /\ command[r].pc = "new"
  /\ \/ PathName[n] = NoRoute /\ up /\ EndWith(r, "status", {})
     \/ PathName[n] = BadURL /\ EndWith(r, "failed", {})
  /\ UNCHANGED gwVars

CreateCommandEnds(q) ==
  /\ command[q].pc = "sent" /\ create[q].pc \in {"done", "lost"}
  /\ EndWith(q, CreateSays(q), {})
  /\ UNCHANGED gwVars

\* Variant: a connection that breaks is waited on.
InvokeCommandEndsAnswered(r) ==
  /\ command[r].pc = "sent" /\ request[r].pc = "done"
  /\ EndWith(r, InvokeSays(r), {})
  /\ UNCHANGED gwVars

InvokeCommandEnds(r) ==
  /\ command[r].pc = "sent" /\ request[r].pc \in {"done", "lost"}
  /\ EndWith(r, InvokeSays(r), {})
  /\ UNCHANGED gwVars

(* ListFunctionsHandler, one query, and its answer. *)
ListCommandEnds(l) ==
  /\ command[l].pc = "sent"
  /\ EndWith(l, "success", Listing) \/ (DBMayFail /\ EndWith(l, "failed", {}))
  /\ UNCHANGED gwVars

-----------------------------------------------------------------------------
CommandStarts ==
  \/ \E q \in Creates, req \in CreateFunctionRequest : CreateCommand(q, req)
  \/ \E r \in Invocations, n \in Names : InvokeCommand(r, n)
  \/ \E l \in Lists : ListCommand(l)

CommandEnds ==
  \/ \E q \in Creates : CreateCommandEnds(q)
  \/ \E r \in Invocations : InvokeCommandEnds(r)
  \/ \E l \in Lists : ListCommandEnds(l)

InsertStep(q) ==
  /\ up /\ (InsertFunction(q) \/ SendCreateAnswer(q))
  /\ UNCHANGED <<up, caches, request, records, runVars>>

EngineStep ==
  \/ \E r \in Calls : HandlerStep(r) \/ WriteExecution(r) \/ RunStep(r)
  \/ \E q \in Creates : InsertStep(q)
  \/ GWRestart

(* The listings under way go down with the engine; what it kept of the     *)
(* other requests is lost (Gateway).                                       *)
EngineDies ==
  /\ GWCrash
  /\ command' = [c \in Commands |->
       IF c \in Lists /\ command[c].pc = "sent"
       THEN [command[c] EXCEPT !.pc = "ended", !.said = "failed"] ELSE command[c]]

CLNext ==
  \/ CommandStarts
  \/ CommandEnds
  \/ \E c \in Commands : Unreachable(c)
  \/ \E r \in Invocations, n \in Names : InvokeUnrouted(r, n)
  \/ EngineStep /\ UNCHANGED command
  \/ EngineDies

CLSpec == CLInit /\ [][CLNext]_clVars

-----------------------------------------------------------------------------
(* A command that says it succeeded did what it says: created the function *)
(* of that name, which is there for good, or ran to its exit the function  *)
(* that the path made of the name it was given asks for.  One that says it *)
(* failed did not: a create leaves a function behind only if the database  *)
(* failed it or the engine died under it, an invoke a run that was brought *)
(* to its exit only if the engine died.  The create goes by the status,    *)
(* the invoke by the envelope, of an answer that a crash may lose          *)
(* (main.go:215-239 and 261-323, response.go:36-67).                       *)
AnnouncementsAreTrue ==
  /\ \A q \in Creates :
       /\ command[q].said = "success" =>
            functions[create[q].req.Name] = Row(q, create[q].req)
       /\ (command[q].said = "failed" /\ \E row \in ListFunctions : row.ID = q) =>
            create[q].pc = "lost" \/ create[q].code = ServerError
  /\ \A r \in Invocations :
       /\ command[r].said = "success" =>
            /\ process[r] = "exited"
            /\ request[r].fn = functions[PathName[command[r].name]]
       /\ (command[r].said = "failed" /\ HasExitCode(r)) => request[r].pc = "lost"

(* Scripts work: after a create that succeeded, every invocation of a name *)
(* whose path asks for the created one - it is this name itself, if no     *)
(* character of it means something in a URL - runs its function or fails   *)
(* for another reason than that the name is unknown, every list that       *)
(* succeeds shows it, with the timeout it has, and no list shows less than *)
(* one before it, although invocations that missed may be under way all    *)
(* the time and the engine may have been restarted (main.go:140-178,       *)
(* 193-240 and 259-323).                                                   *)
ScriptsWork ==
  /\ \A r \in Invocations : \A q \in command[r].seen \cap Creates :
       PathName[command[r].name] = create[q].req.Name =>
         /\ request[r].response.Code # 404
         /\ phase[r] # "idle" => request[r].fn.ID = q
  /\ \A l \in Lists : command[l].said = "success" =>
       /\ \A q \in command[l].seen \cap Creates :
            [ID |-> q, Timeout |-> functions[create[q].req.Name].TimeoutSeconds]
              \in command[l].shown
       /\ \A m \in command[l].seen \cap Lists : command[m].shown \subseteq command[l].shown

(* Every command ends, whatever becomes of the engine: the client sets no  *)
(* timeout of its own (main.go:134, 210 and 265).                          *)
CommandsEnd ==
  \A c \in Commands : command[c].pc = "sent" ~> command[c].pc = "ended"

(* An invoke that says it succeeded ran the function of the name it was    *)
(* given: "Invoke a deployed serverless function by its name"              *)
(* (main.go:257).                                                          *)
InvokesByName ==
  \A r \in Invocations : command[r].said = "success" =>
    request[r].fn = functions[command[r].name]
=============================================================================
