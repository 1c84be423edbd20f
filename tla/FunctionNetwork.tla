---------------------------- MODULE FunctionNetwork ----------------------------
(***************************************************************************)
(* ensureFunctionNetwork (internal/container/network.go), run by every     *)
(* engine that starts on a host: the Docker network of the functions, and  *)
(* the firewall rules that drop its traffic to private addresses.          *)
(*                                                                         *)
(* Each call to the daemon and each iptables command is one action: it     *)
(* looks something up, or creates what was missing a step before.  Both    *)
(* the network and the rules outlive the engine that made them.            *)
(***************************************************************************)
EXTENDS Integers, FiniteSets

CONSTANTS
  Engines,       \* engine processes that may be started on the host
  Subnets,       \* subnets Docker's address management may give a network
  NoSubnet,      \* the subnet of a network that has none
  NoNetwork,     \* there is no network of that name
  NumRanges,     \* length of privateRanges: 4 in the code
  MaxFaults      \* bound on the failures and crashes of one behaviour

ASSUME FNAssumption ==
  /\ IsFiniteSet(Engines)
  /\ NumRanges \in Nat \ {0} /\ MaxFaults \in Nat
  /\ NoSubnet \notin Subnets
  /\ NoNetwork \notin Subnets /\ NoNetwork # NoSubnet

VARIABLES
  network,       \* the subnet of microfaas_functions_net, or NoNetwork
  rules,         \* how often the chain holds each rule <<subnet, range>>
  ensure,        \* each engine's place in ensureFunctionNetwork
  faults         \* failures and crashes so far

fnVars == <<network, rules, ensure, faults>>

-----------------------------------------------------------------------------
Ranges == 1..NumRanges
Rule == Subnets \X Ranges

Ensure ==
  [pc : {"idle", "list", "create", "inspect", "check", "insert", "done", "failed"},
   subnet : Subnets \cup {NoSubnet},
   range : Ranges,
   warned : BOOLEAN]       \* a rule could not be added

FNTypeOK ==
  /\ network \in Subnets \cup {NoSubnet, NoNetwork}
  /\ rules \in [Rule -> Nat]
  /\ ensure \in [Engines -> Ensure]
  /\ faults \in 0..MaxFaults

Outside == [pc |-> "idle", subnet |-> NoSubnet, range |-> 1, warned |-> FALSE]

FNInit ==
  /\ network \in Subnets \cup {NoSubnet, NoNetwork}
  /\ rules = [rule \in Rule |-> 0]
  /\ ensure = [e \in Engines |-> Outside]
  /\ faults = 0

Fault == faults < MaxFaults /\ faults' = faults + 1
NoFault == UNCHANGED faults

-----------------------------------------------------------------------------
Goto(e, pc) == ensure' = [ensure EXCEPT ![e].pc = pc]

EnsureFunctionNetwork(e) == ensure' = [ensure EXCEPT ![e] = [Outside EXCEPT !.pc = "list"]]

(* applyIptablesRules, from the first range on, unless there is no subnet. *)
ApplyIptablesRules(e, s) ==
  ensure' = [ensure EXCEPT ![e].subnet = s,
                           ![e].pc = IF s = NoSubnet THEN "done" ELSE "check"]

\* Variant: a network that is there has its rules.
NetworkListTrusting(e) ==
  /\ ensure[e].pc = "list"
  /\ ensure' = [ensure EXCEPT ![e].pc = IF network = NoNetwork THEN "create" ELSE "done",
       ![e].subnet = IF network = NoNetwork THEN NoSubnet ELSE network]
  /\ UNCHANGED <<network, rules, faults>>

\* Variant: the network is created without looking.
NetworkListNot(e) ==
  /\ ensure[e].pc = "list" /\ Goto(e, "create")
  /\ UNCHANGED <<network, rules, faults>>

NetworkList(e) ==
  /\ ensure[e].pc = "list"
  /\ \/ network # NoNetwork /\ ApplyIptablesRules(e, network) /\ NoFault
     \/ network = NoNetwork /\ Goto(e, "create") /\ NoFault
     \/ Goto(e, "failed") /\ Fault
  /\ UNCHANGED <<network, rules>>

(* The daemon refuses a name that is taken. *)
NetworkCreate(e) ==
  /\ ensure[e].pc = "create"
  /\ \/ network = NoNetwork /\ network' \in Subnets /\ Goto(e, "inspect") /\ NoFault
     \/ network # NoNetwork /\ UNCHANGED network /\ Goto(e, "failed") /\ NoFault
     \/ UNCHANGED network /\ Goto(e, "failed") /\ Fault
     \/ network = NoNetwork /\ network' \in Subnets /\ Goto(e, "failed") /\ Fault
  /\ UNCHANGED rules

NetworkInspect(e) ==
  /\ ensure[e].pc = "inspect"
  /\ \/ ApplyIptablesRules(e, network) /\ NoFault
     \/ Goto(e, "failed") /\ Fault
  /\ UNCHANGED <<network, rules>>

RuleOf(e) == <<ensure[e].subnet, ensure[e].range>>

\* Variant: the loop's end is off by one.
NextRangeTooFar(e, warned) ==
  ensure' = [ensure EXCEPT ![e].warned = warned,
    ![e].pc = IF ensure[e].range > NumRanges THEN "done" ELSE "check",
    ![e].range = ensure[e].range + 1]

(* The loop goes on with the next range, whatever became of this one.      *)
NextRange(e, warned) ==
  ensure' = [ensure EXCEPT ![e].warned = warned,
    ![e].pc = IF ensure[e].range = NumRanges THEN "done" ELSE "check",
    ![e].range = IF ensure[e].range = NumRanges THEN NumRanges ELSE ensure[e].range + 1]

\* Variant: the rules are inserted without looking.
CheckNothing(e) ==
  /\ ensure[e].pc = "check"
  /\ Goto(e, "insert") /\ NoFault
  /\ UNCHANGED <<network, rules>>

(* iptables -C: any error of it is taken for "Rule doesn't exist".         *)
CheckRule(e) ==
  /\ ensure[e].pc = "check"
  /\ \/ rules[RuleOf(e)] > 0 /\ NextRange(e, ensure[e].warned) /\ NoFault
     \/ rules[RuleOf(e)] = 0 /\ Goto(e, "insert") /\ NoFault
     \/ rules[RuleOf(e)] > 0 /\ Goto(e, "insert") /\ Fault
  /\ UNCHANGED <<network, rules>>

(* iptables -I, which needs root privileges: its failure is a warning.     *)
InsertRule(e) ==
  /\ ensure[e].pc = "insert"
  /\ \/ /\ rules' = [rules EXCEPT ![RuleOf(e)] = @ + 1]
        /\ NextRange(e, ensure[e].warned)
     \/ UNCHANGED rules /\ NextRange(e, TRUE)
  /\ NoFault
  /\ UNCHANGED network

EnsureStep(e) ==
  \/ NetworkList(e) \/ NetworkCreate(e) \/ NetworkInspect(e)
  \/ CheckRule(e) \/ InsertRule(e)

(* An operator removes the network, to which no container is attached.     *)
(* Engines inspect the one they made, by its id: whoever is about to do so *)
(* will not find it, even if there is another by then.                     *)
NetworkRemoved ==
  /\ network # NoNetwork
  /\ network' = NoNetwork
  /\ ensure' = [e \in Engines |-> [ensure[e] EXCEPT
       !.pc = IF @ = "inspect" THEN "failed" ELSE @]]
  /\ Fault
  /\ UNCHANGED rules
=============================================================================
