----------------------------- MODULE FunctionRun -----------------------------
(***************************************************************************)
(* What RunFunction promises its callers, without images, containers,      *)
(* contexts or goroutines: a call launches its function at most once, it   *)
(* is answered at most once, an answer without an error is the exit code   *)
(* of that very process, and a process that still runs is only done away   *)
(* with once its call has been answered.                                   *)
(***************************************************************************)
EXTENDS Integers

CONSTANTS Calls, ExitCodes

VARIABLES
  phase,        \* of each call
  answer,       \* of each call: an exit code, a failure or nothing yet
  process,      \* of each call's function
  exitCode      \* of each call's process, once it has exited

vars == <<phase, answer, process, exitCode>>

NoExit  == -1
NoReply == -2
Failure == -3
Timeout == -4

FRTypeOK ==
  /\ phase \in [Calls -> {"idle", "open", "answered", "lost"}]
  /\ answer \in [Calls -> ExitCodes \cup {NoReply, Failure, Timeout}]
  /\ process \in [Calls -> {"none", "running", "exited", "gone"}]
  /\ exitCode \in [Calls -> ExitCodes \cup {NoExit}]

FRInit ==
  /\ phase = [c \in Calls |-> "idle"]
  /\ answer = [c \in Calls |-> NoReply]
  /\ process = [c \in Calls |-> "none"]
  /\ exitCode = [c \in Calls |-> NoExit]

Ask(c) ==
  /\ phase[c] = "idle"
  /\ phase' = [phase EXCEPT ![c] = "open"]
  /\ UNCHANGED <<answer, process, exitCode>>

Launch(c) ==
  /\ phase[c] = "open"
  /\ process[c] = "none"
  /\ process' = [process EXCEPT ![c] = "running"]
  /\ UNCHANGED <<phase, answer, exitCode>>

Exit(c) ==
  /\ process[c] = "running"
  /\ process' = [process EXCEPT ![c] = "exited"]
  /\ \E k \in ExitCodes : exitCode' = [exitCode EXCEPT ![c] = k]
  /\ UNCHANGED <<phase, answer>>

Reply(c) ==
  /\ phase[c] = "open"
  /\ process[c] = "exited"
  /\ phase' = [phase EXCEPT ![c] = "answered"]
  /\ answer' = [answer EXCEPT ![c] = exitCode[c]]
  /\ UNCHANGED <<process, exitCode>>

(* An error answers the call whatever its process does; a launch whose     *)
(* answer is lost fails and takes effect. Only a call that has launched    *)
(* its function can time out.                                              *)
Fail(c) ==
  /\ phase[c] = "open"
  /\ phase' = [phase EXCEPT ![c] = "answered"]
  /\ answer' = [answer EXCEPT ![c] = Failure]
  /\ \/ UNCHANGED process
     \/ process[c] = "none" /\ process' = [process EXCEPT ![c] = "running"]
  /\ UNCHANGED exitCode

TimeOut(c) ==
  /\ phase[c] = "open"
  /\ process[c] # "none"
  /\ phase' = [phase EXCEPT ![c] = "answered"]
  /\ answer' = [answer EXCEPT ![c] = Timeout]
  /\ UNCHANGED <<process, exitCode>>

Discard(c) ==
  /\ phase[c] = "answered"
  /\ process[c] \in {"none", "running"}
  /\ process' = [process EXCEPT ![c] = "gone"]
  /\ UNCHANGED <<phase, answer, exitCode>>

Lose ==
  /\ phase' = [c \in Calls |-> IF phase[c] = "open" THEN "lost" ELSE phase[c]]
  /\ UNCHANGED <<answer, process, exitCode>>

FRNext ==
  \/ \E c \in Calls :
       \/ Ask(c) \/ Launch(c) \/ Exit(c)
       \/ Reply(c) \/ Fail(c) \/ TimeOut(c) \/ Discard(c)
  \/ Lose

FRSpec == FRInit /\ [][FRNext]_vars
=============================================================================
