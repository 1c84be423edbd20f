--------------------------- MODULE EngineStartProofs ---------------------------
(***************************************************************************)
(* Proofs about EngineStart, and FunctionNetwork under it, for any number  *)
(* of engines, subnets, private ranges, tables and faults.                 *)
(***************************************************************************)
EXTENDS EngineStart, FiniteSetTheorems, TLAPS

(* How far an engine has come says what there is. *)
Migrated == {"docker", "routes", "listen", "serving"}
Networked == {"routes", "listen", "serving"}
Connected == {"migrate", "create"} \cup Migrated

ReadyInv(e) ==
  /\ engine[e].pc \notin Connected => engine[e].object = 1
  /\ engine[e].pc \in {"migrate", "create"} => 1..(engine[e].object - 1) \subseteq schema
  /\ engine[e].pc \in Migrated => schema = Objects
  /\ engine[e].pc = "listen" => engine[e].routes = RouteGroups \ {"test-run"}
  /\ engine[e].pc = "serving" => engine[e].routes = RouteGroups

(* The ranges that an engine has passed without a warning have their rule. *)
RulesUpTo(e, n) == \A k \in Ranges : k <= n => rules[<<ensure[e].subnet, k>>] > 0

GuardInv(e) ==
  /\ ensure[e].pc \in {"list", "create", "inspect"} => ensure[e].range = 1
  /\ ensure[e].pc = "inspect" => network \in Subnets
  /\ ensure[e].pc \in {"check", "insert"} =>
       /\ ensure[e].subnet \in Subnets
       /\ ~ensure[e].warned => RulesUpTo(e, ensure[e].range - 1)
  /\ (ensure[e].pc = "done" /\ ~ensure[e].warned /\ ensure[e].subnet # NoSubnet) =>
       RulesUpTo(e, NumRanges)
  /\ engine[e].pc \in Networked => ensure[e].pc = "done"

(* The file is as its user wrote it, empty, or the whole default, and so   *)
(* is what an engine has read of it, unless a write was cut.               *)
WholeOrEmpty == file.own \cup {{}, Sections}

FileInv == ~file.cut => file.content \in WholeOrEmpty

ConfigInv(e) ==
  /\ ~file.cut => engine[e].cfg \in WholeOrEmpty
  /\ engine[e].pc \in Connected => "database" \in engine[e].cfg

EngineInv(e) == ReadyInv(e) /\ GuardInv(e) /\ ConfigInv(e)

(* The rules there are, and those that engines are about to insert. *)
Inserting(rule) == {e \in Engines : ensure[e].pc = "insert" /\ RuleOf(e) = rule}

RulesInv ==
  \A rule \in Rule :
    rules[rule] + Cardinality(Inserting(rule)) <= Cardinality(Engines) + faults

ESInv ==
  /\ ESTypeOK
  /\ FileInv
  /\ \A e \in Engines : EngineInv(e)
  /\ RulesInv

-----------------------------------------------------------------------------
(* What the ways of updating an engine do to it and to the others. *)

Pcs == {"idle", "list", "create", "inspect", "check", "insert", "done", "failed"}

LEMMA GotoEffect ==
  ASSUME FNTypeOK, NEW e \in Engines, NEW pc \in Pcs, Goto(e, pc)
  PROVE  /\ ensure' \in [Engines -> Ensure]
         /\ ensure'[e].pc = pc
         /\ ensure'[e].subnet = ensure[e].subnet
         /\ ensure'[e].range = ensure[e].range
         /\ ensure'[e].warned = ensure[e].warned
         /\ \A d \in Engines : d # e => ensure'[d] = ensure[d]
BY DEF FNTypeOK, Goto, Pcs, Ensure

LEMMA ApplyEffect ==
  ASSUME FNTypeOK, NEW e \in Engines, NEW s \in Subnets \cup {NoSubnet},
         ApplyIptablesRules(e, s)
  PROVE  /\ ensure' \in [Engines -> Ensure]
         /\ s = NoSubnet => ensure'[e].pc = "done"
         /\ s # NoSubnet => ensure'[e].pc = "check"
         /\ ensure'[e].subnet = s
         /\ ensure'[e].range = ensure[e].range
         /\ ensure'[e].warned = ensure[e].warned
         /\ \A d \in Engines : d # e => ensure'[d] = ensure[d]
<1> DEFINE pc == IF s = NoSubnet THEN "done" ELSE "check"
           st == [ensure[e] EXCEPT !.subnet = s, !.pc = pc]
<1>1. ensure' = [ensure EXCEPT ![e] = st]
  BY DEF ApplyIptablesRules, FNTypeOK, Ensure
<1>2. pc \in {"done", "check"} /\ (pc = "done" <=> s = NoSubnet)
  OBVIOUS
<1> HIDE DEF pc
<1>3. /\ st \in Ensure /\ st.pc = pc /\ st.subnet = s
      /\ st.range = ensure[e].range /\ st.warned = ensure[e].warned
  BY <1>2 DEF FNTypeOK, Ensure
<1> HIDE DEF st
<1> QED
  BY <1>1, <1>2, <1>3 DEF FNTypeOK

LEMMA NextEffect ==
  ASSUME FNTypeOK, NEW e \in Engines, NEW w \in BOOLEAN, NextRange(e, w)
  PROVE  /\ ensure' \in [Engines -> Ensure]
         /\ ensure[e].range = NumRanges =>
              ensure'[e].pc = "done" /\ ensure'[e].range = NumRanges
         /\ ensure[e].range # NumRanges =>
              ensure'[e].pc = "check" /\ ensure'[e].range = ensure[e].range + 1
         /\ ensure'[e].subnet = ensure[e].subnet
         /\ ensure'[e].warned = w
         /\ \A d \in Engines : d # e => ensure'[d] = ensure[d]
<1> DEFINE n == ensure[e].range
           pc == IF n = NumRanges THEN "done" ELSE "check"
           k  == IF n = NumRanges THEN NumRanges ELSE n + 1
           st == [ensure[e] EXCEPT !.warned = w, !.pc = pc, !.range = k]
<1>1. ensure' = [ensure EXCEPT ![e] = st]
  BY DEF NextRange, FNTypeOK, Ensure
<1>2. /\ pc \in {"done", "check"} /\ k \in Ranges
      /\ n = NumRanges => pc = "done" /\ k = NumRanges
      /\ n # NumRanges => pc = "check" /\ k = n + 1
  BY FNAssumption DEF FNTypeOK, Ensure, Ranges
<1> HIDE DEF pc, k
<1>3. /\ st \in Ensure /\ st.pc = pc /\ st.subnet = ensure[e].subnet
      /\ st.range = k /\ st.warned = w
  BY <1>2 DEF FNTypeOK, Ensure
<1> HIDE DEF st
<1> QED
  BY <1>1, <1>2, <1>3 DEF FNTypeOK

EnginePcs == {"down", "stat", "open", "write", "read", "connect"} \cup Connected

LEMMA ToEffect ==
  ASSUME ESTypeOK, NEW e \in Engines, NEW pc \in EnginePcs, To(e, pc)
  PROVE  /\ engine' \in [Engines -> Engine]
         /\ engine'[e].pc = pc
         /\ engine'[e].cfg = engine[e].cfg
         /\ engine'[e].object = engine[e].object
         /\ engine'[e].routes = engine[e].routes
         /\ \A d \in Engines : d # e => engine'[d] = engine[d]
BY DEF ESTypeOK, To, EnginePcs, Connected, Migrated, Engine

LEMMA FatalEffect ==
  ASSUME ESTypeOK, NEW e \in Engines, Fatal(e)
  PROVE  /\ engine' \in [Engines -> Engine] /\ ensure' \in [Engines -> Ensure]
         /\ engine'[e] = Down /\ ensure'[e] = Outside
         /\ \A d \in Engines : d # e => engine'[d] = engine[d] /\ ensure'[d] = ensure[d]
<1> Down \in Engine /\ Outside \in Ensure
  BY FNAssumption, ESAssumption
  DEF Down, Outside, Engine, Ensure, Contents, Ranges, Objects
<1> QED
  BY DEF ESTypeOK, FNTypeOK, Fatal

LEMMA FaultEffect ==
  ASSUME FNTypeOK, Fault \/ NoFault
  PROVE  /\ faults' \in 0..MaxFaults
         /\ faults' >= faults
         /\ Fault => faults' = faults + 1
BY FNAssumption DEF FNTypeOK, Fault, NoFault

-----------------------------------------------------------------------------
(* The rules, counted. *)

LEMMA EngineCount ==
  ASSUME NEW S \in SUBSET Engines
  PROVE  /\ IsFiniteSet(S) /\ Cardinality(S) \in Nat
         /\ Cardinality(Engines) \in Nat /\ Cardinality(S) <= Cardinality(Engines)
BY FNAssumption, FS_Subset, FS_CardinalityType

LEMMA FewerInserting ==
  ASSUME NEW S \in SUBSET Engines, NEW T \in SUBSET S
  PROVE  /\ Cardinality(T) <= Cardinality(S)
         /\ \A e \in S \ T : Cardinality(T) + 1 <= Cardinality(S)
<1>1. IsFiniteSet(S) /\ Cardinality(S) \in Nat /\ Cardinality(T) \in Nat
  BY EngineCount
<1>2. Cardinality(T) <= Cardinality(S)
  BY <1>1, FS_Subset
<1>3. ASSUME NEW e \in S \ T PROVE Cardinality(T) + 1 <= Cardinality(S)
  <2>1. Cardinality(T \cup {e}) = Cardinality(T) + 1
    BY <1>1, FS_Subset, FS_AddElement
  <2> QED
    BY <2>1, <1>1, FS_Subset
<1> QED
  BY <1>2, <1>3

LEMMA OneMoreInserting ==
  ASSUME NEW S \in SUBSET Engines, NEW e \in Engines, NEW T \in SUBSET (S \cup {e})
  PROVE  Cardinality(T) <= Cardinality(S) + 1
<1>1. IsFiniteSet(S) /\ Cardinality(S) \in Nat
  BY EngineCount
<1>2. IsFiniteSet(S \cup {e}) /\ Cardinality(S \cup {e}) \in Nat
  BY EngineCount
<1>3. Cardinality(S \cup {e}) <= Cardinality(S) + 1
  <2>1. Cardinality(S \cup {e}) = IF e \in S THEN Cardinality(S) ELSE Cardinality(S) + 1
    BY <1>1, FS_AddElement
  <2> QED
    BY <1>1, <2>1
<1>4. Cardinality(T) <= Cardinality(S \cup {e}) /\ Cardinality(T) \in Nat
  BY <1>2, FS_Subset, FS_CardinalityType
<1> QED
  BY <1>1, <1>2, <1>3, <1>4

(* A step on which nobody comes to an insertion and no rule is added. *)
LEMMA QuietRules ==
  ASSUME FNTypeOK, RulesInv, rules' \in [Rule -> Nat], faults' \in Nat, faults' >= faults,
         \A rule \in Rule : rules'[rule] <= rules[rule],
         \A d \in Engines : ensure'[d].pc = "insert" => ensure'[d] = ensure[d]
  PROVE  RulesInv'
<1> SUFFICES ASSUME NEW rule \in Rule
             PROVE  rules'[rule] + Cardinality(Inserting(rule)')
                      <= Cardinality(Engines) + faults'
  BY DEF RulesInv
<1>1. Inserting(rule)' \subseteq Inserting(rule) /\ Inserting(rule) \subseteq Engines
  BY DEF Inserting, RuleOf
<1>2. /\ Cardinality(Inserting(rule)') <= Cardinality(Inserting(rule))
      /\ Cardinality(Inserting(rule)') \in Nat /\ Cardinality(Inserting(rule)) \in Nat
      /\ Cardinality(Engines) \in Nat
  BY <1>1, FewerInserting, EngineCount
<1>3. rules[rule] + Cardinality(Inserting(rule)) <= Cardinality(Engines) + faults
  BY DEF RulesInv
<1>4. rules[rule] \in Nat /\ rules'[rule] \in Nat /\ faults \in Nat
  BY FNAssumption DEF FNTypeOK
<1>5. rules'[rule] <= rules[rule]
  OBVIOUS
<1> HIDE DEF RulesInv
<1> QED
  BY <1>2, <1>3, <1>4, <1>5

LEMMA CheckRuleRules ==
  ASSUME FNTypeOK, RulesInv, NEW e \in Engines, CheckRule(e),
         \A d \in Engines : d # e => ensure'[d] = ensure[d],
         ensure'[e].pc = "insert", RuleOf(e)' = RuleOf(e), RuleOf(e) \in Rule,
         (rules[RuleOf(e)] = 0 /\ NoFault) \/ Fault
  PROVE  RulesInv'
<1> SUFFICES ASSUME NEW rule \in Rule
             PROVE  rules'[rule] + Cardinality(Inserting(rule)')
                      <= Cardinality(Engines) + faults'
  BY DEF RulesInv
<1>0. /\ rules' = rules /\ rules[rule] \in Nat /\ faults \in Nat /\ faults' \in Nat
      /\ faults' >= faults /\ (Fault => faults' = faults + 1)
  BY FaultEffect, FNAssumption DEF CheckRule, FNTypeOK
<1>1. rules[rule] + Cardinality(Inserting(rule)) <= Cardinality(Engines) + faults
  BY DEF RulesInv
<1>2. /\ Inserting(rule) \in SUBSET Engines /\ Inserting(rule)' \in SUBSET Engines
      /\ Inserting(rule)' \in SUBSET (Inserting(rule) \cup {e})
      /\ rule # RuleOf(e) => Inserting(rule)' \in SUBSET Inserting(rule)
  BY DEF Inserting, RuleOf
<1>3. /\ Cardinality(Inserting(rule)) \in Nat /\ Cardinality(Inserting(rule)') \in Nat
      /\ Cardinality(Engines) \in Nat
      /\ Cardinality(Inserting(rule)') <= Cardinality(Engines)
  BY <1>2, EngineCount
<1>4. CASE rule # RuleOf(e)
  <2>1. Cardinality(Inserting(rule)') <= Cardinality(Inserting(rule))
    BY <1>2, <1>4, FewerInserting
  <2> QED
    BY <1>0, <1>1, <1>3, <2>1
<1>5. CASE Fault
  <2>1. Cardinality(Inserting(rule)') <= Cardinality(Inserting(rule)) + 1
    BY <1>2, OneMoreInserting
  <2> QED
    BY <1>0, <1>1, <1>3, <1>5, <2>1
<1>6. CASE rule = RuleOf(e) /\ rules[rule] = 0
  BY <1>0, <1>3, <1>6
<1> QED
  BY <1>4, <1>5, <1>6

LEMMA InsertRuleRules ==
  ASSUME FNTypeOK, RulesInv, NEW e \in Engines,
         \A d \in Engines : d # e => ensure'[d] = ensure[d],
         ensure[e].pc = "insert", ensure'[e].pc # "insert", RuleOf(e) \in Rule,
         rules' = [rules EXCEPT ![RuleOf(e)] = @ + 1], faults' = faults
  PROVE  RulesInv'
<1> SUFFICES ASSUME NEW rule \in Rule
             PROVE  rules'[rule] + Cardinality(Inserting(rule)')
                      <= Cardinality(Engines) + faults'
  BY DEF RulesInv
<1>0. /\ rules[rule] \in Nat /\ faults \in Nat
      /\ rule # RuleOf(e) => rules'[rule] = rules[rule]
      /\ rule = RuleOf(e) => rules'[rule] = rules[rule] + 1
  BY FNAssumption DEF FNTypeOK
<1>1. rules[rule] + Cardinality(Inserting(rule)) <= Cardinality(Engines) + faults
  BY DEF RulesInv
<1>2. /\ Inserting(rule) \in SUBSET Engines /\ Inserting(rule)' \in SUBSET Inserting(rule)
      /\ rule = RuleOf(e) => e \in Inserting(rule) \ Inserting(rule)'
  BY DEF Inserting, RuleOf
<1>3. /\ Cardinality(Inserting(rule)) \in Nat /\ Cardinality(Inserting(rule)') \in Nat
      /\ Cardinality(Engines) \in Nat
  BY <1>2, EngineCount
<1>4. /\ Cardinality(Inserting(rule)') <= Cardinality(Inserting(rule))
      /\ rule = RuleOf(e) => Cardinality(Inserting(rule)') + 1 <= Cardinality(Inserting(rule))
  BY <1>2, FewerInserting
<1> QED
  BY <1>0, <1>1, <1>3, <1>4

-----------------------------------------------------------------------------
(* The inductive invariant. *)

LEMMA InitInv == ESInit => ESInv
<1> SUFFICES ASSUME ESInit PROVE ESInv
  OBVIOUS
<1>1. Down \in Engine /\ Outside \in Ensure /\ NoFile \in File
  BY FNAssumption, ESAssumption
  DEF Down, Outside, NoFile, Engine, Ensure, File, Contents, Ranges, Objects
<1>2. file \in File
  <2>1. ASSUME NEW content \in UserFiles PROVE UserFile(content) \in File
    BY ESUserFiles DEF UserFile, File
  <2> QED
    BY <1>1, <2>1 DEF ESInit
<1>3. ESTypeOK
  BY <1>1, <1>2, FNAssumption DEF ESInit, FNInit, ESTypeOK, FNTypeOK
<1>4. FileInv
  <2>1. CASE file = NoFile
    BY <2>1 DEF FileInv, NoFile, WholeOrEmpty
  <2>2. CASE file \in {UserFile(content) : content \in UserFiles}
    BY <2>2 DEF FileInv, UserFile, WholeOrEmpty
  <2> QED
    BY <2>1, <2>2 DEF ESInit
<1>5. ASSUME NEW e \in Engines PROVE EngineInv(e)
  BY DEF ESInit, FNInit, Down, Outside, EngineInv, ReadyInv, GuardInv, ConfigInv,
         Migrated, Networked, Connected, WholeOrEmpty
<1>6. ASSUME NEW rule \in Rule
      PROVE  rules[rule] + Cardinality(Inserting(rule)) <= Cardinality(Engines) + faults
  <2>1. rules[rule] = 0 /\ faults = 0
    BY DEF ESInit, FNInit
  <2>2. Inserting(rule) = {}
    BY DEF ESInit, FNInit, Outside, Inserting
  <2> QED
    BY <2>1, <2>2, EngineCount, FS_EmptySet
<1> QED
  BY <1>3, <1>4, <1>5, <1>6 DEF ESInv, RulesInv

(* What no step of an engine takes from the others. *)
HostGrows ==
  /\ file' \in File /\ FileInv'
  /\ file'.own = file.own /\ (~file'.cut => ~file.cut)
  /\ schema \subseteq schema' /\ schema' \subseteq Objects
  /\ network' \in Subnets \/ network' = network
  /\ rules' \in [Rule -> Nat] /\ \A rule \in Rule : rules'[rule] >= rules[rule]
  /\ faults' \in 0..MaxFaults /\ faults' >= faults

LEMMA OthersInv ==
  ASSUME ESInv, HostGrows, NEW d \in Engines,
         engine'[d] = engine[d], ensure'[d] = ensure[d]
  PROVE  EngineInv(d)'
<1>1. EngineInv(d) /\ ensure[d] \in Ensure /\ rules \in [Rule -> Nat] /\ schema \subseteq Objects
  BY DEF ESInv, ESTypeOK, FNTypeOK
<1>2. ReadyInv(d)'
  BY <1>1 DEF HostGrows, EngineInv, ReadyInv
<1>3. ConfigInv(d)'
  BY <1>1 DEF HostGrows, EngineInv, ConfigInv, WholeOrEmpty
<1>4. ASSUME ensure[d].subnet \in Subnets, NEW k \in Ranges, rules[<<ensure[d].subnet, k>>] > 0
      PROVE  rules'[<<ensure[d].subnet, k>>] > 0
  <2>1. <<ensure[d].subnet, k>> \in Rule
    BY <1>4 DEF Rule
  <2> QED
    BY <1>1, <1>4, <2>1 DEF HostGrows
<1>5. ensure[d].subnet \in Subnets \cup {NoSubnet}
  BY <1>1 DEF Ensure
<1>6. GuardInv(d)'
  <2>1. ASSUME NEW n \in Int, ensure[d].subnet \in Subnets, RulesUpTo(d, n)
        PROVE  RulesUpTo(d, n)'
    BY <1>4, <2>1 DEF RulesUpTo
  <2>2. ensure[d].range - 1 \in Int /\ NumRanges \in Int
    BY <1>1, FNAssumption DEF Ensure, Ranges
  <2> QED
    BY <1>1, <1>5, <2>1, <2>2 DEF HostGrows, EngineInv, GuardInv
<1> QED
  BY <1>2, <1>3, <1>6 DEF EngineInv

LEMMA OneEngine ==
  ASSUME ESInv, NEW e \in Engines, HostGrows, RulesInv',
         engine' \in [Engines -> Engine], ensure' \in [Engines -> Ensure],
         \A d \in Engines : d # e => engine'[d] = engine[d] /\ ensure'[d] = ensure[d],
         EngineInv(e)'
  PROVE  ESInv'
<1>1. \A d \in Engines : EngineInv(d)'
  BY OthersInv
<1> QED
  BY <1>1 DEF ESInv, HostGrows, ESTypeOK, FNTypeOK

(* A step that leaves the host's rules and network alone. *)
LEMMA HostStep ==
  ASSUME ESInv, NEW e \in Engines, UNCHANGED <<network, rules>>, Fault \/ NoFault,
         file' \in File, FileInv',
         file'.own = file.own, ~file'.cut => ~file.cut,
         schema \subseteq schema', schema' \subseteq Objects,
         engine' \in [Engines -> Engine], ensure' \in [Engines -> Ensure],
         \A d \in Engines : d # e => engine'[d] = engine[d] /\ ensure'[d] = ensure[d],
         ensure'[e].pc # "insert" \/ ensure'[e] = ensure[e],
         EngineInv(e)'
  PROVE  ESInv'
<1>1. FNTypeOK /\ faults' \in 0..MaxFaults /\ faults' >= faults
  BY FaultEffect DEF ESInv, ESTypeOK
<1>2. /\ rules' \in [Rule -> Nat] /\ rules' = rules /\ faults' \in Nat
      /\ \A rule \in Rule : rules[rule] \in Nat
  BY <1>1, FNAssumption DEF FNTypeOK
<1>3. HostGrows
  BY <1>1, <1>2 DEF HostGrows
<1>4. RulesInv'
  BY <1>1, <1>2, QuietRules DEF ESInv
<1> QED
  BY <1>3, <1>4, OneEngine

(* The same when the files and the tables stay too. *)
LEMMA LocalStep ==
  ASSUME ESInv, NEW e \in Engines, UNCHANGED <<host, network, rules>>, Fault \/ NoFault,
         engine' \in [Engines -> Engine], ensure' \in [Engines -> Ensure],
         \A d \in Engines : d # e => engine'[d] = engine[d] /\ ensure'[d] = ensure[d],
         ensure'[e].pc # "insert" \/ ensure'[e] = ensure[e],
         EngineInv(e)'
  PROVE  ESInv'
<1>1. file' = file /\ schema' = schema
  BY DEF host
<1>2. file \in File /\ FileInv /\ schema \subseteq Objects
  BY DEF ESInv, ESTypeOK
<1>3. FileInv'
  BY <1>1, <1>2 DEF FileInv, WholeOrEmpty
<1> QED
  BY <1>1, <1>2, <1>3, HostStep

(* An engine that goes down has nothing to keep. *)
LEMMA DownInv ==
  ASSUME NEW e \in Engines, engine'[e] = Down, ensure'[e] = Outside
  PROVE  EngineInv(e)'
BY DEF EngineInv, ReadyInv, GuardInv, ConfigInv, Down, Outside, Migrated, Networked,
       Connected, WholeOrEmpty

LEMMA FatalInv ==
  ASSUME ESInv, NEW e \in Engines, Fatal(e), UNCHANGED <<network, rules>>, Fault \/ NoFault,
         file' \in File, FileInv',
         file'.own = file.own, ~file'.cut => ~file.cut,
         schema \subseteq schema', schema' \subseteq Objects
  PROVE  ESInv'
<1>1. ESTypeOK
  BY DEF ESInv
<1>2. /\ engine' \in [Engines -> Engine] /\ ensure' \in [Engines -> Ensure]
      /\ engine'[e] = Down /\ ensure'[e] = Outside
      /\ \A d \in Engines : d # e => engine'[d] = engine[d] /\ ensure'[d] = ensure[d]
  BY <1>1, FatalEffect
<1>3. EngineInv(e)' /\ ensure'[e].pc # "insert"
  BY <1>2, DownInv DEF Outside
<1> QED
  BY <1>2, <1>3, HostStep

LEMMA LocalFatal ==
  ASSUME ESInv, NEW e \in Engines, Fatal(e), UNCHANGED <<host, network, rules>>,
         Fault \/ NoFault
  PROVE  ESInv'
<1>1. file' = file /\ schema' = schema
  BY DEF host
<1>2. file \in File /\ FileInv /\ schema \subseteq Objects
  BY DEF ESInv, ESTypeOK
<1>3. FileInv'
  BY <1>1, <1>2 DEF FileInv, WholeOrEmpty
<1> QED
  BY <1>1, <1>2, <1>3, FatalInv

-----------------------------------------------------------------------------
(* The steps of a start that touch no rule and no network. *)

LEMMA ConfigStepInv ==
  ASSUME ESInv, NEW e \in Engines,
         StartEngine(e) \/ StatConfig(e) \/ OpenConfig(e) \/ WriteConfig(e) \/ ReadConfig(e)
  PROVE  ESInv'
<1> USE DEF EngineInv, ReadyInv, GuardInv, ConfigInv, WholeOrEmpty, Migrated, Networked,
            Connected, At
<1>0. /\ ESTypeOK /\ FNTypeOK /\ FileInv /\ EngineInv(e)
      /\ engine \in [Engines -> Engine] /\ engine[e] \in Engine
      /\ ensure \in [Engines -> Ensure] /\ file \in File /\ schema \subseteq Objects
  BY DEF ESInv, ESTypeOK, FNTypeOK
<1>1. CASE StartEngine(e)
  <2>1. To(e, "stat") /\ UNCHANGED <<file, schema, network, rules, ensure, faults>>
    BY <1>1 DEF StartEngine, host, fnVars
  <2>2. EngineInv(e)'
    BY <1>0, <1>1, <2>1, ToEffect DEF StartEngine, EnginePcs, RulesUpTo
  <2> QED
    BY <1>0, <2>1, <2>2, ToEffect, LocalStep DEF EnginePcs, host, NoFault
<1>2. CASE StatConfig(e)
  <2>1. PICK pc \in {"open", "read"} :
          /\ To(e, pc) /\ (Fault \/ NoFault)
          /\ UNCHANGED <<file, schema, network, rules, ensure>>
    BY <1>2 DEF StatConfig, host
  <2>2. EngineInv(e)'
    BY <1>0, <1>2, <2>1, ToEffect DEF StatConfig, EnginePcs, RulesUpTo
  <2> QED
    BY <1>0, <2>1, <2>2, ToEffect, LocalStep DEF EnginePcs, host
<1>3. CASE OpenConfig(e)
  <2>1. CASE Fatal(e) /\ UNCHANGED file /\ Fault
    BY <1>3, <2>1, LocalFatal DEF OpenConfig, host
  <2>2. CASE /\ file' = [file EXCEPT !.by = "engine", !.content = {}]
             /\ To(e, "write") /\ NoFault /\ UNCHANGED ensure
    <3>1. /\ file' \in File /\ file'.content = {}
          /\ file'.cut = file.cut /\ file'.own = file.own
      BY <1>0, <2>2 DEF File, Contents
    <3>2. FileInv'
      BY <3>1 DEF FileInv, WholeOrEmpty
    <3>3. EngineInv(e)'
      BY <1>0, <1>3, <2>2, <3>1, ToEffect DEF OpenConfig, EnginePcs, RulesUpTo
    <3> QED
      BY <1>0, <1>3, <2>2, <3>1, <3>2, <3>3, ToEffect, HostStep
      DEF OpenConfig, EnginePcs
  <2> QED
    BY <1>3, <2>1, <2>2 DEF OpenConfig
<1>4. CASE WriteConfig(e)
  <2>1. CASE Fatal(e) /\ Fault /\
             \E p \in Prefixes : file' = [file EXCEPT !.content = p, !.cut = TRUE]
    <3>1. PICK p \in Prefixes : file' = [file EXCEPT !.content = p, !.cut = TRUE]
      BY <2>1
    <3>2. p \in Contents
      BY DEF Prefixes, Contents, Sections
    <3>3. file' \in File /\ file'.cut = TRUE /\ file'.own = file.own
      BY <1>0, <3>1, <3>2 DEF File
    <3> QED
      BY <1>0, <1>4, <2>1, <3>3, FatalInv DEF WriteConfig, FileInv
  <2>2. CASE /\ file' = [file EXCEPT !.content = Sections]
             /\ To(e, "read") /\ NoFault /\ UNCHANGED ensure
    <3>1. /\ file' \in File /\ file'.content = Sections
          /\ file'.cut = file.cut /\ file'.own = file.own
      BY <1>0, <2>2 DEF File, Contents
    <3>2. FileInv'
      BY <3>1 DEF FileInv, WholeOrEmpty
    <3>3. EngineInv(e)'
      BY <1>0, <1>4, <2>2, <3>1, ToEffect DEF WriteConfig, EnginePcs, RulesUpTo
    <3> QED
      BY <1>0, <1>4, <2>2, <3>1, <3>2, <3>3, ToEffect, HostStep
      DEF WriteConfig, EnginePcs
  <2> QED
    BY <1>4, <2>1, <2>2 DEF WriteConfig
<1>5. CASE ReadConfig(e)
  <2>1. CASE Fatal(e)
    BY <1>5, <2>1, LocalFatal DEF ReadConfig
  <2>2. CASE /\ engine' = [engine EXCEPT ![e].cfg = file.content, ![e].pc = "connect"]
             /\ NoFault /\ UNCHANGED ensure
    <3>1. /\ engine' \in [Engines -> Engine]
          /\ engine'[e].pc = "connect" /\ engine'[e].cfg = file.content
          /\ \A d \in Engines : d # e => engine'[d] = engine[d]
      BY <1>0, <2>2 DEF Engine, File
    <3>2. EngineInv(e)'
      BY <1>0, <1>5, <2>2, <3>1 DEF ReadConfig, FileInv, host, RulesUpTo
    <3> QED
      BY <1>0, <1>5, <2>2, <3>1, <3>2, LocalStep DEF ReadConfig
  <2> QED
    BY <1>5, <2>1, <2>2 DEF ReadConfig
<1> QED
  BY <1>1, <1>2, <1>3, <1>4, <1>5

(* The tables and indexes: all that come before an engine's are there.     *)
LEMMA NextObjectInv ==
  ASSUME ESInv, NEW e \in Engines, engine[e].pc \in {"migrate", "create"},
         NextObject(e), engine[e].object \in schema', schema \subseteq schema',
         schema' \subseteq Objects, UNCHANGED <<file, network, rules>>, NoFault
  PROVE  ESInv'
<1> USE DEF EngineInv, ReadyInv, GuardInv, ConfigInv, WholeOrEmpty, Migrated, Networked,
            Connected
<1>0. /\ ESTypeOK /\ FNTypeOK /\ FileInv /\ EngineInv(e)
      /\ engine \in [Engines -> Engine] /\ engine[e] \in Engine
      /\ ensure \in [Engines -> Ensure] /\ file \in File
  BY DEF ESInv, ESTypeOK, FNTypeOK
<1>1. engine[e].object \in Objects /\ NumObjects \in Nat
  BY <1>0, ESAssumption DEF Engine
<1>2. 1..engine[e].object \subseteq schema'
  BY <1>0, <1>1 DEF Objects
<1>3. FileInv'
  BY <1>0 DEF FileInv, WholeOrEmpty
<1>4. CASE engine[e].object = NumObjects
  <2>1. To(e, "docker") /\ EnsureFunctionNetwork(e)
    BY <1>4 DEF NextObject
  <2>2. schema' = Objects
    BY <1>1, <1>2, <1>4 DEF Objects
  <2>3. Outside \in Ensure
    BY FNAssumption DEF Outside, Ensure, Ranges
  <2>4. /\ ensure' \in [Engines -> Ensure]
        /\ ensure'[e].pc = "list" /\ ensure'[e].range = 1
        /\ \A d \in Engines : d # e => ensure'[d] = ensure[d]
    BY <1>0, <2>1, <2>3 DEF EnsureFunctionNetwork, Outside, Ensure
  <2>5. EngineInv(e)'
    BY <1>0, <2>1, <2>2, <2>4, ToEffect DEF EnginePcs
  <2> QED
    BY <1>0, <1>3, <2>1, <2>4, <2>5, ToEffect, HostStep DEF EnginePcs
<1>5. CASE engine[e].object # NumObjects
  <2>1. /\ engine' = [engine EXCEPT ![e].object = @ + 1, ![e].pc = "migrate"]
        /\ UNCHANGED ensure
    BY <1>5 DEF NextObject
  <2>2. engine[e].object + 1 \in Objects
    BY <1>1, <1>5 DEF Objects
  <2>3. /\ engine' \in [Engines -> Engine]
        /\ engine'[e].pc = "migrate" /\ engine'[e].cfg = engine[e].cfg
        /\ engine'[e].object = engine[e].object + 1
        /\ \A d \in Engines : d # e => engine'[d] = engine[d]
    BY <1>0, <2>1, <2>2 DEF Engine
  <2>4. 1..(engine'[e].object - 1) \subseteq schema'
    BY <1>1, <1>2, <2>3 DEF Objects
  <2>5. EngineInv(e)'
    BY <1>0, <2>1, <2>3, <2>4 DEF RulesUpTo
  <2> QED
    BY <1>0, <1>3, <2>1, <2>3, <2>5, HostStep
<1> QED
  BY <1>4, <1>5

LEMMA DatabaseStepInv ==
  ASSUME ESInv, NEW e \in Engines, InitPostgresDB(e) \/ HasObject(e) \/ CreateObject(e)
  PROVE  ESInv'
<1> USE DEF At
<1>0. /\ ESTypeOK /\ FNTypeOK /\ FileInv /\ EngineInv(e) /\ file \in File
      /\ engine[e].object \in Objects /\ schema \subseteq Objects
  BY DEF ESInv, ESTypeOK, FNTypeOK, Engine
<1>1. CASE InitPostgresDB(e)
  <2>1. CASE Fatal(e)
    BY <1>1, <2>1, LocalFatal DEF InitPostgresDB
  <2>2. CASE /\ "database" \in engine[e].cfg /\ To(e, "migrate") /\ NoFault
             /\ UNCHANGED ensure
    <3>1. EngineInv(e)'
      <4>1. engine[e].pc = "connect" /\ UNCHANGED <<file, schema, network, rules>>
        BY <1>1 DEF InitPostgresDB, host
      <4> QED
        BY <1>0, <2>2, <4>1, ToEffect
        DEF Objects, EnginePcs, EngineInv, ReadyInv, GuardInv, ConfigInv, WholeOrEmpty, Migrated,
            Networked, Connected, RulesUpTo
    <3> QED
      BY <1>0, <1>1, <2>2, <3>1, ToEffect, LocalStep
      DEF InitPostgresDB, EnginePcs, Connected, ESTypeOK, FNTypeOK
  <2> QED
    BY <1>1, <2>1, <2>2 DEF InitPostgresDB
<1>2. CASE HasObject(e)
  <2>1. CASE Fatal(e)
    BY <1>2, <2>1, LocalFatal DEF HasObject
  <2>2. CASE engine[e].object \in schema /\ NextObject(e) /\ NoFault
    BY <1>0, <1>2, <2>2, NextObjectInv DEF HasObject, host
  <2>3. CASE To(e, "create") /\ NoFault /\ UNCHANGED ensure
    <3>1. EngineInv(e)'
      <4>1. engine[e].pc = "migrate" /\ UNCHANGED <<file, schema, network, rules>>
        BY <1>2 DEF HasObject, host
      <4> QED
        BY <1>0, <2>3, <4>1, ToEffect
        DEF EnginePcs, EngineInv, ReadyInv, GuardInv, ConfigInv, WholeOrEmpty, Migrated,
            Networked, Connected, RulesUpTo
    <3> QED
      BY <1>0, <1>2, <2>3, <3>1, ToEffect, LocalStep
      DEF HasObject, EnginePcs, Connected, ESTypeOK, FNTypeOK
  <2> QED
    BY <1>2, <2>1, <2>2, <2>3 DEF HasObject
<1>3. CASE CreateObject(e)
  <2>1. PICK s \in {schema, schema \cup {engine[e].object}} : schema' = s
    BY <1>3 DEF CreateObject
  <2>2. schema \subseteq schema' /\ schema' \subseteq Objects
    BY <1>0, <2>1
  <2>3. CASE Fatal(e)
    <3>1. FileInv' /\ file' = file
      BY <1>0, <1>3 DEF CreateObject, FileInv, WholeOrEmpty
    <3> QED
      BY <1>0, <1>3, <2>2, <2>3, <3>1, FatalInv DEF CreateObject
  <2>4. CASE schema' = schema \cup {engine[e].object} /\ NextObject(e) /\ NoFault
    BY <1>3, <2>2, <2>4, NextObjectInv DEF CreateObject
  <2> QED
    BY <1>3, <2>3, <2>4 DEF CreateObject
<1> QED
  BY <1>1, <1>2, <1>3

LEMMA ServeStepInv ==
  ASSUME ESInv, NEW e \in Engines,
         DockerManager(e) \/ SetupRoutes(e) \/ RegisterTestRunRoutes(e)
  PROVE  ESInv'
<1> USE DEF At
<1>0. /\ ESTypeOK /\ FNTypeOK /\ EngineInv(e)
      /\ engine \in [Engines -> Engine] /\ engine[e] \in Engine
      /\ ensure \in [Engines -> Ensure]
  BY DEF ESInv, ESTypeOK, FNTypeOK
<1>1. UNCHANGED <<file, schema, network, rules, faults>> /\ UNCHANGED <<host, network, rules>>
  BY DEF DockerManager, SetupRoutes, RegisterTestRunRoutes, host, fnVars
<1>2. CASE DockerManager(e)
  <2>1. CASE Fatal(e)
    BY <1>1, <2>1, LocalFatal DEF NoFault
  <2>2. CASE ensure[e].pc = "done" /\ To(e, "routes") /\ UNCHANGED ensure
    <3>1. EngineInv(e)'
      BY <1>0, <1>1, <1>2, <2>2, ToEffect
      DEF DockerManager, EnginePcs, EngineInv, ReadyInv, GuardInv, ConfigInv,
          WholeOrEmpty, Migrated, Networked, Connected, RulesUpTo
    <3> QED
      BY <1>0, <1>1, <2>2, <3>1, ToEffect, LocalStep
      DEF EnginePcs, Connected, Migrated, NoFault
  <2> QED
    BY <1>2, <2>1, <2>2 DEF DockerManager
<1>3. ASSUME NEW routes \in SUBSET RouteGroups, NEW pc \in {"listen", "serving"},
             engine' = [engine EXCEPT ![e].routes = routes, ![e].pc = pc],
             UNCHANGED ensure, engine[e].pc \in Networked,
             pc = "listen" => routes = RouteGroups \ {"test-run"},
             pc = "serving" => routes = RouteGroups
      PROVE  ESInv'
  <2>1. /\ engine' \in [Engines -> Engine]
        /\ engine'[e].pc = pc /\ engine'[e].routes = routes
        /\ engine'[e].cfg = engine[e].cfg
        /\ \A d \in Engines : d # e => engine'[d] = engine[d]
    BY <1>0, <1>3 DEF Engine
  <2>2. EngineInv(e)'
    BY <1>0, <1>1, <1>3, <2>1
    DEF EngineInv, ReadyInv, GuardInv, ConfigInv, WholeOrEmpty, Migrated, Networked,
        Connected, RulesUpTo
  <2> QED
    BY <1>0, <1>1, <1>3, <2>1, <2>2, LocalStep DEF NoFault
<1>4. CASE SetupRoutes(e)
  <2>1. CASE Fatal(e)
    BY <1>1, <2>1, LocalFatal DEF NoFault
  <2>2. CASE ~Fatal(e)
    BY <1>3, <1>4, <2>2 DEF SetupRoutes, Networked
  <2> QED
    BY <2>1, <2>2
<1>5. CASE RegisterTestRunRoutes(e)
  <2>1. CASE Fatal(e)
    BY <1>1, <2>1, LocalFatal DEF NoFault
  <2>2. CASE /\ engine' = [engine EXCEPT ![e].routes = @ \cup {"test-run"},
                                         ![e].pc = "serving"]
             /\ UNCHANGED ensure
    <3>1. engine[e].routes \cup {"test-run"} = RouteGroups
      BY <1>0, <1>5 DEF RegisterTestRunRoutes, EngineInv, ReadyInv, RouteGroups
    <3>2. engine' = [engine EXCEPT ![e].routes = RouteGroups, ![e].pc = "serving"]
      BY <1>0, <2>2, <3>1
    <3> QED
      BY <1>3, <1>5, <2>2, <3>2 DEF RegisterTestRunRoutes, Networked
  <2> QED
    BY <1>5, <2>1, <2>2 DEF RegisterTestRunRoutes
<1> QED
  BY <1>2, <1>4, <1>5

-----------------------------------------------------------------------------
(* ensureFunctionNetwork. *)

(* The start stays where it is while ensureFunctionNetwork runs. *)
LEMMA GuardedStep ==
  ASSUME ESInv, NEW e \in Engines, At(e, "docker"), UNCHANGED <<engine, file, schema>>,
         Fault \/ NoFault, network' \in Subnets \/ network' = network,
         rules' \in [Rule -> Nat], \A rule \in Rule : rules'[rule] >= rules[rule],
         ensure' \in [Engines -> Ensure],
         \A d \in Engines : d # e => ensure'[d] = ensure[d],
         GuardInv(e)', RulesInv'
  PROVE  ESInv'
<1>1. ESTypeOK /\ FNTypeOK /\ FileInv /\ EngineInv(e)
  BY DEF ESInv, ESTypeOK
<1>2. HostGrows
  BY <1>1, FaultEffect DEF HostGrows, FileInv, WholeOrEmpty, ESTypeOK
<1>3. EngineInv(e)'
  BY <1>1 DEF EngineInv, ReadyInv, ConfigInv, WholeOrEmpty
<1> QED
  BY <1>1, <1>2, <1>3, OneEngine DEF ESTypeOK

LEMMA LookStep ==
  ASSUME ESInv, NEW e \in Engines, At(e, "docker"), UNCHANGED <<engine, host, rules>>,
         Fault \/ NoFault, network' \in Subnets \/ network' = network,
         ensure' \in [Engines -> Ensure],
         \A d \in Engines : d # e => ensure'[d] = ensure[d],
         ensure'[e].pc # "insert", GuardInv(e)'
  PROVE  ESInv'
<1>1. ESTypeOK /\ FNTypeOK
  BY DEF ESInv, ESTypeOK
<1>2. /\ rules' \in [Rule -> Nat] /\ rules' = rules
      /\ \A rule \in Rule : rules[rule] \in Nat
      /\ faults' \in Nat /\ faults' >= faults
  BY <1>1, FaultEffect, FNAssumption DEF FNTypeOK
<1>3. RulesInv'
  BY <1>1, <1>2, QuietRules DEF ESInv
<1> QED
  BY <1>2, <1>3, GuardedStep DEF host

(* NextRange leaves with one more range that has its rule, or with a       *)
(* warning.                                                                *)
LEMMA NextRangeGuard ==
  ASSUME ESTypeOK, NEW e \in Engines, At(e, "docker"), engine' = engine,
         GuardInv(e), ensure[e].pc \in {"check", "insert"},
         NEW w \in BOOLEAN, NextRange(e, w), rules' \in [Rule -> Nat],
         \A rule \in Rule : rules'[rule] >= rules[rule],
         ~w => ~ensure[e].warned /\ rules'[RuleOf(e)] > 0
  PROVE  GuardInv(e)'
<1>1. FNTypeOK /\ ensure[e] \in Ensure /\ rules \in [Rule -> Nat]
  BY DEF ESTypeOK, FNTypeOK
<1>2. /\ ensure[e].range \in Ranges /\ NumRanges \in Nat
      /\ ensure[e].subnet \in Subnets
  BY <1>1, FNAssumption DEF Ensure, GuardInv
<1>3. ~w => RulesUpTo(e, ensure[e].range - 1)
  BY DEF GuardInv
<1>4. ASSUME ~w, NEW k \in Ranges, k <= ensure[e].range
      PROVE  rules'[<<ensure[e].subnet, k>>] > 0
  <2>1. CASE k = ensure[e].range
    BY <1>4, <2>1 DEF RuleOf
  <2>2. CASE k # ensure[e].range
    <3>1. k <= ensure[e].range - 1 /\ <<ensure[e].subnet, k>> \in Rule
      BY <1>2, <1>4, <2>2 DEF Ranges, Rule
    <3>2. rules[<<ensure[e].subnet, k>>] > 0
      BY <1>3, <1>4, <3>1 DEF RulesUpTo
    <3> QED
      BY <1>1, <3>1, <3>2
  <2> QED
    BY <2>1, <2>2
<1>5. /\ ensure'[e].subnet = ensure[e].subnet /\ ensure'[e].warned = w
      /\ ensure[e].range = NumRanges => ensure'[e].pc = "done"
      /\ ensure[e].range # NumRanges =>
           ensure'[e].pc = "check" /\ ensure'[e].range = ensure[e].range + 1
  BY <1>1, NextEffect
<1>6. CASE ensure[e].range = NumRanges
  <2>1. ~w => RulesUpTo(e, NumRanges)'
    BY <1>4, <1>5, <1>6 DEF RulesUpTo
  <2> QED
    BY <1>5, <1>6, <2>1 DEF GuardInv, At, Networked
<1>7. CASE ensure[e].range # NumRanges
  <2>1. ensure'[e].range - 1 = ensure[e].range
    BY <1>2, <1>5, <1>7 DEF Ranges
  <2>2. ~w => RulesUpTo(e, ensure[e].range - 1)'
    BY <1>4, <1>5, <2>1 DEF RulesUpTo
  <2> QED
    BY <1>2, <1>5, <1>7, <2>2 DEF GuardInv, At, Networked
<1> QED
  BY <1>6, <1>7

LEMMA NetworkStepInv ==
  ASSUME ESInv, NEW e \in Engines, NetworkStep(e)
  PROVE  ESInv'
<1>0. /\ ESTypeOK /\ FNTypeOK /\ GuardInv(e) /\ RulesInv
      /\ ensure \in [Engines -> Ensure] /\ ensure[e] \in Ensure /\ rules \in [Rule -> Nat]
      /\ At(e, "docker") /\ UNCHANGED <<engine, host>> /\ UNCHANGED <<engine, file, schema>>
  BY DEF ESInv, ESTypeOK, FNTypeOK, EngineInv, NetworkStep, host
<1>a. ASSUME NEW pc \in {"create", "inspect", "failed"}, Goto(e, pc), UNCHANGED rules,
             Fault \/ NoFault, network' \in Subnets \/ network' = network,
             pc # "failed" => ensure[e].range = 1,
             pc = "inspect" => network' \in Subnets
      PROVE  ESInv'
  <2>1. /\ ensure' \in [Engines -> Ensure] /\ ensure'[e].pc = pc
        /\ ensure'[e].range = ensure[e].range
        /\ \A d \in Engines : d # e => ensure'[d] = ensure[d]
    BY <1>0, <1>a, GotoEffect DEF Pcs
  <2>2. GuardInv(e)'
    BY <1>0, <1>a, <2>1 DEF GuardInv, At, Networked
  <2> QED
    BY <1>0, <1>a, <2>1, <2>2, LookStep
<1>b. ASSUME NEW s \in Subnets \cup {NoSubnet}, ApplyIptablesRules(e, s),
             UNCHANGED <<network, rules>>, NoFault, ensure[e].range = 1
      PROVE  ESInv'
  <2>1. /\ ensure' \in [Engines -> Ensure]
        /\ s = NoSubnet => ensure'[e].pc = "done"
        /\ s # NoSubnet => ensure'[e].pc = "check"
        /\ ensure'[e].subnet = s /\ ensure'[e].range = 1
        /\ \A d \in Engines : d # e => ensure'[d] = ensure[d]
    BY <1>0, <1>b, ApplyEffect
  <2>2. RulesUpTo(e, ensure[e].range - 1)'
    BY <2>1 DEF RulesUpTo, Ranges
  <2>3. GuardInv(e)'
    BY <1>0, <2>1, <2>2 DEF GuardInv, At, Networked
  <2> QED
    BY <1>0, <1>b, <2>1, <2>3, LookStep
<1>1. CASE NetworkList(e)
  <2>1. ensure[e].range = 1 /\ network \in Subnets \cup {NoSubnet, NoNetwork}
    BY <1>0, <1>1 DEF NetworkList, GuardInv, FNTypeOK
  <2> QED
    BY <1>1, <2>1, <1>a, <1>b DEF NetworkList
<1>2. CASE NetworkCreate(e)
  <2>1. ensure[e].range = 1
    BY <1>0, <1>2 DEF NetworkCreate, GuardInv
  <2> QED
    BY <1>2, <2>1, <1>a DEF NetworkCreate
<1>3. CASE NetworkInspect(e)
  <2>1. ensure[e].range = 1 /\ network \in Subnets
    BY <1>0, <1>3 DEF NetworkInspect, GuardInv
  <2> QED
    BY <1>3, <2>1, <1>a, <1>b DEF NetworkInspect
<1>4. ensure[e].pc \in {"check", "insert"} => RuleOf(e) \in Rule
  BY <1>0 DEF GuardInv, RuleOf, Rule, Ensure
<1>5. CASE CheckRule(e)
  <2>0. /\ ensure[e].pc = "check" /\ UNCHANGED <<network, rules>>
        /\ \A rule \in Rule : rules'[rule] >= rules[rule]
    BY <1>0, <1>5 DEF CheckRule
  <2>1. CASE rules[RuleOf(e)] > 0 /\ NextRange(e, ensure[e].warned) /\ NoFault
    <3>1. ensure[e].warned \in BOOLEAN
      BY <1>0 DEF Ensure
    <3>2. GuardInv(e)'
      BY <1>0, <2>0, <2>1, <3>1, NextRangeGuard
    <3> QED
      BY <1>0, <2>0, <2>1, <3>1, <3>2, NextEffect, LookStep
  <2>2. CASE Goto(e, "insert") /\ ((rules[RuleOf(e)] = 0 /\ NoFault) \/ Fault)
    <3>1. /\ ensure' \in [Engines -> Ensure] /\ ensure'[e].pc = "insert"
          /\ ensure'[e].subnet = ensure[e].subnet /\ ensure'[e].range = ensure[e].range
          /\ ensure'[e].warned = ensure[e].warned
          /\ \A d \in Engines : d # e => ensure'[d] = ensure[d]
      BY <1>0, <2>2, GotoEffect DEF Pcs
    <3>2. GuardInv(e)'
      BY <1>0, <2>0, <3>1 DEF GuardInv, At, Networked, RulesUpTo
    <3>3. RulesInv'
      BY <1>0, <1>4, <1>5, <2>0, <2>2, <3>1, CheckRuleRules DEF RuleOf
    <3> QED
      BY <1>0, <2>0, <2>2, <3>1, <3>2, <3>3, GuardedStep
  <2> QED
    BY <1>5, <2>1, <2>2 DEF CheckRule
<1>6. CASE InsertRule(e)
  <2>0. ensure[e].pc = "insert" /\ UNCHANGED network /\ NoFault /\ ensure[e].warned \in BOOLEAN
    BY <1>0, <1>6 DEF InsertRule, Ensure
  <2>1. CASE UNCHANGED rules /\ NextRange(e, TRUE)
    <3>1. \A rule \in Rule : rules'[rule] >= rules[rule]
      BY <1>0, <2>1
    <3>2. GuardInv(e)'
      BY <1>0, <2>0, <2>1, <3>1, NextRangeGuard
    <3> QED
      BY <1>0, <2>0, <2>1, <3>2, NextEffect, LookStep
  <2>2. CASE rules' = [rules EXCEPT ![RuleOf(e)] = @ + 1] /\ NextRange(e, ensure[e].warned)
    <3>1. /\ rules' \in [Rule -> Nat] /\ rules'[RuleOf(e)] > 0
          /\ \A rule \in Rule : rules'[rule] >= rules[rule]
      BY <1>0, <1>4, <2>0, <2>2
    <3>2. GuardInv(e)'
      BY <1>0, <2>0, <2>2, <3>1, NextRangeGuard
    <3>3. /\ ensure' \in [Engines -> Ensure] /\ ensure'[e].pc # "insert"
          /\ \A d \in Engines : d # e => ensure'[d] = ensure[d]
      BY <1>0, <2>0, <2>2, NextEffect
    <3>4. RulesInv'
      BY <1>0, <1>4, <2>0, <2>2, <3>3, InsertRuleRules DEF NoFault
    <3> QED
      BY <1>0, <2>0, <3>1, <3>2, <3>3, <3>4, GuardedStep
  <2> QED
    BY <1>6, <2>1, <2>2 DEF InsertRule
<1> QED
  BY <1>1, <1>2, <1>3, <1>5, <1>6 DEF NetworkStep, EnsureStep

-----------------------------------------------------------------------------
(* Crashes, reboots and the operator. *)

LEMMA HostRebootInv == ASSUME ESInv, HostReboot PROVE ESInv'
<1>1. /\ ESTypeOK /\ FNTypeOK /\ FileInv /\ Down \in Engine /\ Outside \in Ensure
      /\ faults' \in 0..MaxFaults /\ faults' \in Nat
  BY FaultEffect, FNAssumption, ESAssumption
  DEF ESInv, ESTypeOK, FNTypeOK, HostReboot, Down, Outside, Engine, Ensure, Contents,
      Ranges, Objects
<1>2. \A e \in Engines : engine'[e] = Down /\ ensure'[e] = Outside
  BY DEF HostReboot
<1>3. ESTypeOK' /\ FileInv'
  BY <1>1 DEF HostReboot, host, ESTypeOK, FNTypeOK, FileInv, WholeOrEmpty
<1>4. \A e \in Engines : EngineInv(e)'
  BY <1>2, DownInv
<1>5. ASSUME NEW rule \in Rule
      PROVE  rules'[rule] + Cardinality(Inserting(rule)') <= Cardinality(Engines) + faults'
  <2>1. rules'[rule] = 0
    BY DEF HostReboot
  <2>2. Inserting(rule)' \in SUBSET Engines
    BY DEF Inserting
  <2> QED
    BY <1>1, <2>1, <2>2, EngineCount
<1> QED
  BY <1>3, <1>4, <1>5 DEF ESInv, RulesInv

LEMMA NetworkRemovedInv ==
  ASSUME ESInv, NetworkRemoved, UNCHANGED <<engine, host>>
  PROVE  ESInv'
<1> USE DEF NetworkRemoved, host
<1>1. /\ ESTypeOK /\ FNTypeOK /\ FileInv
      /\ faults' \in 0..MaxFaults /\ faults' \in Nat /\ faults' >= faults
  BY FaultEffect, FNAssumption DEF ESInv, ESTypeOK, FNTypeOK
<1>2. ASSUME NEW e \in Engines
      PROVE  /\ ensure'[e] \in Ensure
             /\ ensure[e].pc = "inspect" => ensure'[e].pc = "failed"
             /\ ensure[e].pc # "inspect" => ensure'[e] = ensure[e]
  BY <1>1 DEF FNTypeOK, Ensure
<1>3. ESTypeOK' /\ FileInv'
  BY <1>1, <1>2 DEF ESTypeOK, FNTypeOK, FileInv, WholeOrEmpty
<1>4. ASSUME NEW e \in Engines PROVE EngineInv(e)'
  <2>1. EngineInv(e) /\ ensure[e] \in Ensure
    BY <1>1 DEF ESInv, FNTypeOK
  <2>2. GuardInv(e)'
    <3>1. CASE ensure[e].pc = "inspect"
      BY <1>2, <2>1, <3>1 DEF EngineInv, GuardInv, Networked
    <3>2. CASE ensure[e].pc # "inspect"
      BY <1>2, <2>1, <3>2 DEF EngineInv, GuardInv, RulesUpTo
    <3> QED
      BY <3>1, <3>2
  <2> QED
    BY <2>1, <2>2 DEF EngineInv, ReadyInv, ConfigInv, WholeOrEmpty
<1>5. RulesInv'
  <2>1. \A d \in Engines : ensure'[d].pc = "insert" => ensure'[d] = ensure[d]
    BY <1>2
  <2>2. rules' \in [Rule -> Nat] /\ \A rule \in Rule : rules'[rule] <= rules[rule]
    BY <1>1 DEF FNTypeOK
  <2> QED
    BY <1>1, <2>1, <2>2, QuietRules DEF ESInv
<1> QED
  BY <1>3, <1>4, <1>5 DEF ESInv

LEMMA StepInv == ESInv /\ [ESNext]_esVars => ESInv'
<1> SUFFICES ASSUME ESInv, [ESNext]_esVars PROVE ESInv'
  OBVIOUS
<1>1. ASSUME NEW e \in Engines, StartStep(e) PROVE ESInv'
  BY <1>1, ConfigStepInv, DatabaseStepInv, NetworkStepInv, ServeStepInv DEF StartStep
<1>2. ASSUME NEW e \in Engines, ESCrash(e) PROVE ESInv'
  BY <1>2, LocalFatal DEF ESCrash
<1>3. CASE UNCHANGED esVars
  BY <1>3 DEF esVars, ESInv, ESTypeOK, FNTypeOK, FileInv, EngineInv, ReadyInv, GuardInv,
              ConfigInv, WholeOrEmpty, RulesUpTo, RulesInv, Inserting, RuleOf
<1> QED
  BY <1>1, <1>2, <1>3, ConfigStepInv, HostRebootInv, NetworkRemovedInv DEF ESNext

(* Starts, over each other and after failures, keep the inductive          *)
(* invariant (engine.go:15-63).                                            *)
THEOREM EngineStartInvariant == ESSpec => []ESInv
BY InitInv, StepInv, PTL DEF ESSpec

-----------------------------------------------------------------------------
(* What the invariant says. *)

(* The variables keep their types: an engine's place in                    *)
(* ensureFunctionNetwork never leaves the list of private ranges           *)
(* (network.go:62-84).                                                     *)
THEOREM EngineStartTypeCorrect == ESSpec => []ESTypeOK
BY EngineStartInvariant, PTL DEF ESInv

(* Whatever other starts made, found or died on, an engine serves all of   *)
(* its routes, with all of its tables (engine.go:32-41, routes.go:22-27).  *)
THEOREM EnginesServeWhenReady == ESSpec => []ServesWhenReady
<1>1. ESInv => ServesWhenReady
  BY DEF ESInv, EngineInv, ReadyInv, ServesWhenReady, Serving, Migrated
<1> QED
  BY <1>1, EngineStartInvariant, PTL

(* An engine that serves and was not warned has the rules of all private   *)
(* ranges, after any crashes, reboots and overlaps (network.go:25-84).     *)
THEOREM NetworksAreGuarded == ESSpec => []NetworkIsGuarded
<1>1. ESInv => NetworkIsGuarded
  <2> SUFFICES ASSUME ESInv, NEW e \in Engines, Serving(e), ~ensure[e].warned,
                      ensure[e].subnet # NoSubnet, NEW k \in Ranges
               PROVE  rules[<<ensure[e].subnet, k>>] > 0
    BY DEF NetworkIsGuarded
  <2>1. RulesUpTo(e, NumRanges)
    BY DEF ESInv, EngineInv, GuardInv, Networked, Serving
  <2> QED
    BY <2>1, FNAssumption DEF RulesUpTo, Ranges
<1> QED
  BY <1>1, EngineStartInvariant, PTL

(* The chain holds a rule at most once for every engine and every fault    *)
(* (network.go:77-79).                                                     *)
THEOREM RulesStayFew == ESSpec => []RulesAreFew
<1>1. ESInv => RulesAreFew
  <2> SUFFICES ASSUME ESInv, NEW rule \in Rule
               PROVE  rules[rule] <= Cardinality(Engines) + faults
    BY DEF RulesAreFew
  <2>1. rules[rule] + Cardinality(Inserting(rule)) <= Cardinality(Engines) + faults
    BY DEF ESInv, RulesInv
  <2>2. rules[rule] \in Nat /\ faults \in Nat
    BY FNAssumption DEF ESInv, ESTypeOK, FNTypeOK
  <2>3. Inserting(rule) \in SUBSET Engines
    BY DEF Inserting
  <2> QED
    BY <2>1, <2>2, <2>3, EngineCount
<1> QED
  BY <1>1, EngineStartInvariant, PTL

(* Overlapping starts, failed look-ups and crashes between creating and    *)
(* writing the default configuration leave no engine serving with a part   *)
(* of it or of the user's, unless a write was cut short (config.go:75-84   *)
(* and 102-133).                                                           *)
THEOREM EnginesServeWithWholeConfig == ESSpec => []ServesWithWholeConfig
<1>1. ESInv => ServesWithWholeConfig
  <2> SUFFICES ASSUME ESInv, NEW e \in Engines, Serving(e), ~file.cut
               PROVE  engine[e].cfg \in file.own \cup {Sections}
    BY DEF ServesWithWholeConfig
  <2>1. engine[e].cfg \in WholeOrEmpty /\ "database" \in engine[e].cfg
    BY DEF ESInv, EngineInv, ConfigInv, Serving, Connected, Migrated
  <2> QED
    BY <2>1 DEF WholeOrEmpty
<1> QED
  BY <1>1, EngineStartInvariant, PTL

-----------------------------------------------------------------------------
(* A lone engine.  What it looked up a step ago is as it was then, so that *)
(* nothing which earlier starts made, or died on, ends a start of it.      *)

LoneInv(e) ==
  /\ At(e, "create") => engine[e].object \notin schema
  /\ ensure[e].pc = "create" => network = NoNetwork
  /\ engine[e].pc \in Connected \cup {"connect"} => engine[e].cfg = file.content

(* The step in which a start dies, or comes to the error it will die on.   *)
Fails(e) ==
  /\ ~At(e, "down") /\ ensure[e].pc # "failed"
  /\ At(e, "down")' \/ ensure'[e].pc = "failed"

Excused == faults' = faults + 1 \/ ~ConfigUsable

LoneStep(e) == LoneInv(e)' /\ (Fails(e) => Excused)

(* A start that dies leaves no place, and is excused by a fault.           *)
LEMMA LoneFatal ==
  ASSUME ESInv, NEW e \in Engines, Fatal(e), Excused
  PROVE  LoneStep(e)
BY FatalEffect
DEF ESInv, LoneStep, LoneInv, Down, Outside, At, Connected, Migrated

LEMMA LoneConfig ==
  ASSUME ESInv, NEW e \in Engines, LoneInv(e),
         StartEngine(e) \/ StatConfig(e) \/ OpenConfig(e) \/ WriteConfig(e) \/ ReadConfig(e)
  PROVE  LoneStep(e)
<1> USE DEF At, Connected, Migrated
<1>1. ESTypeOK /\ FNTypeOK /\ engine[e] \in Engine
  BY DEF ESInv, ESTypeOK
<1>2. CASE Fatal(e) /\ Fault
  BY <1>2, LoneFatal DEF Fault, Excused
<1>3. CASE file.content = Unparseable /\ Fatal(e)
  BY <1>3, LoneFatal DEF Excused, ConfigUsable
<1>4. CASE /\ \E pc \in {"stat", "open", "write", "read"} : To(e, pc)
           /\ UNCHANGED <<network, ensure>>
  <2>1. /\ engine'[e].pc \in {"stat", "open", "write", "read"}
        /\ ensure'[e] = ensure[e] /\ network' = network
    BY <1>1, <1>4, ToEffect DEF EnginePcs
  <2>2. QED  BY <2>1 DEF LoneStep, LoneInv, Fails
<1>5. CASE /\ engine' = [engine EXCEPT ![e].cfg = file.content, ![e].pc = "connect"]
           /\ UNCHANGED <<file, network, ensure>>
  <2>1. /\ engine'[e].pc = "connect" /\ engine'[e].cfg = file.content
        /\ ensure'[e] = ensure[e] /\ network' = network /\ file' = file
    BY <1>1, <1>5 DEF ESTypeOK, Engine
  <2>2. QED  BY <2>1 DEF LoneStep, LoneInv, Fails
<1>6. QED
  BY <1>2, <1>3, <1>4, <1>5
  DEF StartEngine, StatConfig, OpenConfig, WriteConfig, ReadConfig, host, fnVars, NoFault

LEMMA LoneDatabase ==
  ASSUME ESInv, NEW e \in Engines, LoneInv(e),
         InitPostgresDB(e) \/ HasObject(e) \/ CreateObject(e)
  PROVE  LoneStep(e)
<1> USE DEF At, Connected, Migrated
<1>1. ESTypeOK /\ FNTypeOK /\ engine[e] \in Engine /\ ensure[e] \in Ensure
  BY DEF ESInv, ESTypeOK, FNTypeOK
<1>2. CASE Fatal(e) /\ Fault
  BY <1>2, LoneFatal DEF Fault, Excused
<1>3. CASE "database" \notin engine[e].cfg /\ At(e, "connect") /\ Fatal(e)
  BY <1>3, LoneFatal DEF Excused, ConfigUsable, LoneInv
<1>4. CASE /\ At(e, "connect") \/ (At(e, "migrate") /\ engine[e].object \notin schema)
           /\ To(e, IF At(e, "connect") THEN "migrate" ELSE "create")
           /\ UNCHANGED <<file, schema, network, ensure>>
  <2> DEFINE pc == IF At(e, "connect") THEN "migrate" ELSE "create"
  <2>1. pc \in {"migrate", "create"} /\ (pc = "create" => engine[e].object \notin schema)
    BY <1>4
  <2>2. To(e, pc)  BY <1>4
  <2> HIDE DEF pc
  <2>3. /\ engine'[e].pc = pc /\ engine'[e].cfg = engine[e].cfg
        /\ engine'[e].object = engine[e].object
    BY <1>1, <2>1, <2>2, ToEffect DEF EnginePcs
  <2>4. QED  BY <1>4, <2>1, <2>3 DEF LoneStep, LoneInv, Fails
<1>5. CASE /\ engine[e].pc \in {"migrate", "create"} /\ NextObject(e)
           /\ UNCHANGED <<file, network>>
  <2>1. CASE To(e, "docker") /\ EnsureFunctionNetwork(e)
    <3>1. /\ engine'[e].pc = "docker" /\ engine'[e].cfg = engine[e].cfg
      BY <1>1, <2>1, ToEffect DEF EnginePcs
    <3>2. ensure'[e].pc = "list"
      BY <1>1, <2>1 DEF EnsureFunctionNetwork, Outside, FNTypeOK
    <3>3. QED  BY <1>5, <3>1, <3>2 DEF LoneStep, LoneInv, Fails
  <2>2. CASE /\ engine' = [engine EXCEPT ![e].object = @ + 1, ![e].pc = "migrate"]
             /\ UNCHANGED ensure
    <3>1. /\ engine'[e].pc = "migrate" /\ engine'[e].cfg = engine[e].cfg
      BY <1>1, <2>2 DEF ESTypeOK, Engine
    <3>2. QED  BY <1>5, <2>2, <3>1 DEF LoneStep, LoneInv, Fails
  <2>3. QED  BY <1>5, <2>1, <2>2 DEF NextObject
<1>6. ~(At(e, "create") /\ engine[e].object \in schema)  BY DEF LoneInv
<1>7. QED
  BY <1>2, <1>3, <1>4, <1>5, <1>6
  DEF InitPostgresDB, HasObject, CreateObject, host

LEMMA LoneNetwork ==
  ASSUME ESInv, NEW e \in Engines, LoneInv(e), NetworkStep(e)
  PROVE  LoneStep(e)
<1> USE DEF At, Connected, Migrated
<1>1. /\ ESTypeOK /\ FNTypeOK /\ ensure[e] \in Ensure
      /\ At(e, "docker") /\ UNCHANGED <<engine, file, schema>>
  BY DEF ESInv, ESTypeOK, FNTypeOK, NetworkStep, host
<1>2. ASSUME ensure'[e].pc = "failed" => Excused,
             ensure'[e].pc = "create" => network' = NoNetwork
      PROVE  LoneStep(e)
  BY <1>1, <1>2 DEF LoneStep, LoneInv, Fails
<1>3. CASE NetworkList(e)
  <2>1. CASE ApplyIptablesRules(e, network) /\ network # NoNetwork
    <3>1. ensure'[e].pc \in {"done", "check"}
      BY <1>1, <2>1, ApplyEffect DEF FNTypeOK
    <3>2. QED  BY <1>2, <3>1
  <2>2. CASE network = NoNetwork /\ Goto(e, "create")
    BY <1>1, <1>2, <1>3, <2>2, GotoEffect DEF Pcs, NetworkList
  <2>3. CASE Goto(e, "failed") /\ Fault
    BY <1>1, <1>2, <2>3, GotoEffect DEF Pcs, Excused, Fault
  <2>4. QED  BY <1>3, <2>1, <2>2, <2>3 DEF NetworkList
<1>4. CASE NetworkCreate(e)
  <2>1. network = NoNetwork  BY <1>4 DEF NetworkCreate, LoneInv
  <2>2. Goto(e, "inspect") \/ (Goto(e, "failed") /\ Fault)
    BY <1>4, <2>1 DEF NetworkCreate
  <2>3. QED  BY <1>1, <1>2, <2>2, GotoEffect DEF Pcs, Excused, Fault
<1>5. CASE NetworkInspect(e)
  <2>1. network \in Subnets
    BY <1>5 DEF NetworkInspect, ESInv, EngineInv, GuardInv
  <2>2. CASE ApplyIptablesRules(e, network)
    <3>1. ensure'[e].pc \in {"done", "check"}
      BY <1>1, <2>1, <2>2, ApplyEffect
    <3>2. QED  BY <1>2, <3>1
  <2>3. CASE Goto(e, "failed") /\ Fault
    BY <1>1, <1>2, <2>3, GotoEffect DEF Pcs, Excused, Fault
  <2>4. QED  BY <1>5, <2>2, <2>3 DEF NetworkInspect
<1>6. CASE CheckRule(e) \/ InsertRule(e)
  <2>1. \/ Goto(e, "insert") \/ NextRange(e, ensure[e].warned) \/ NextRange(e, TRUE)
    BY <1>6 DEF CheckRule, InsertRule
  <2>2. ensure[e].warned \in BOOLEAN /\ TRUE \in BOOLEAN  BY <1>1 DEF Ensure
  <2>3. ensure'[e].pc \in {"insert", "done", "check"}
    BY <1>1, <2>1, <2>2, GotoEffect, NextEffect DEF Pcs
  <2>4. QED  BY <1>2, <2>3
<1>7. QED  BY <1>3, <1>4, <1>5, <1>6 DEF NetworkStep, EnsureStep

LEMMA LoneServe ==
  ASSUME ESInv, NEW e \in Engines, LoneInv(e), \A d \in Engines : d = e,
         DockerManager(e) \/ SetupRoutes(e) \/ RegisterTestRunRoutes(e)
  PROVE  LoneStep(e)
<1> USE DEF At, Connected, Migrated
<1>1. ESTypeOK /\ engine[e] \in Engine /\ UNCHANGED <<file, network>>
  BY DEF ESInv, ESTypeOK, DockerManager, SetupRoutes, RegisterTestRunRoutes, host, fnVars
<1>2. CASE Fatal(e) /\ ensure[e].pc = "failed"
  BY <1>2, FatalEffect DEF ESInv, LoneStep, LoneInv, Fails, Down, Outside
<1>m. CASE SetupRoutes(e) /\ BadMode \in engine[e].cfg
  BY <1>m, LoneFatal DEF SetupRoutes, Excused, ConfigUsable, LoneInv
<1>3. ~(At(e, "listen") /\ PortTaken(e))  BY DEF PortTaken, Serving
<1>4. CASE /\ engine'[e].pc \in {"routes", "listen", "serving"}
           /\ engine'[e].cfg = engine[e].cfg /\ UNCHANGED ensure
           /\ engine[e].pc \in Migrated
  BY <1>1, <1>4 DEF LoneStep, LoneInv, Fails
<1>5. CASE DockerManager(e) /\ To(e, "routes") /\ UNCHANGED ensure
  BY <1>1, <1>4, <1>5, ToEffect DEF DockerManager, EnginePcs
<1>6. CASE \/ SetupRoutes(e) /\ BadMode \notin engine[e].cfg
           \/ RegisterTestRunRoutes(e) /\ ~PortTaken(e)
  <2>1. /\ engine'[e].pc \in {"listen", "serving"}
        /\ engine'[e].cfg = engine[e].cfg /\ UNCHANGED ensure
        /\ engine[e].pc \in Migrated
    BY <1>1, <1>6 DEF SetupRoutes, RegisterTestRunRoutes, ESTypeOK, Engine, fnVars
  <2>2. QED  BY <1>4, <2>1
<1>7. QED
  BY <1>2, <1>3, <1>5, <1>6, <1>m DEF DockerManager, RegisterTestRunRoutes

LEMMA LoneStart ==
  ASSUME ESInv, NEW e \in Engines, LoneInv(e), \A d \in Engines : d = e, [ESNext]_esVars
  PROVE  LoneStep(e) \/ UNCHANGED esVars
<1>1. CASE StartEngine(e) \/ StartStep(e)
  BY <1>1, LoneConfig, LoneDatabase, LoneNetwork, LoneServe DEF StartStep
<1>2. CASE ESCrash(e)
  BY <1>2, LoneFatal DEF ESCrash, Fault, Excused
<1>3. CASE HostReboot
  <2>1. engine'[e] = Down /\ ensure'[e] = Outside /\ Excused
    BY <1>3 DEF HostReboot, Fault, Excused
  <2>2. QED
    BY <2>1 DEF LoneStep, LoneInv, Down, Outside, At, Connected, Migrated
<1>4. CASE NetworkRemoved /\ UNCHANGED <<engine, host>>
  <2>1. ensure'[e].pc = ensure[e].pc \/ ensure'[e].pc = "failed"
    BY <1>4 DEF NetworkRemoved, ESInv, ESTypeOK, FNTypeOK, Ensure
  <2>2. Excused /\ network' = NoNetwork /\ UNCHANGED <<engine, file, schema>>
    BY <1>4 DEF NetworkRemoved, Fault, Excused, host
  <2>3. QED  BY <2>1, <2>2 DEF LoneStep, LoneInv, At
<1>5. QED  BY <1>1, <1>2, <1>3, <1>4 DEF ESNext

(* No crash, reboot or half-made start leaves tables, a network, rules or  *)
(* a file behind that a later start fails on: where there is one engine,   *)
(* started again as often as it takes, a start fails only in the very step *)
(* of a fault, or on a file that is no YAML, names no database or names a  *)
(* mode that gin does not know (engine.go:15-63).                          *)
THEOREM LoneStartsSucceed ==
  ASSUME \A d, e \in Engines : d = e
  PROVE  ESSpec => [][\A e \in Engines :
           Fails(e) => faults' = faults + 1 \/ ~ConfigUsable]_esVars
<1>1. ESInit => \A e \in Engines : LoneInv(e)
  BY DEF ESInit, FNInit, Down, Outside, LoneInv, At, Connected, Migrated
<1>2. ASSUME ESInv, \A e \in Engines : LoneInv(e), [ESNext]_esVars
      PROVE  /\ (\A e \in Engines : LoneInv(e))'
             /\ [\A e \in Engines : Fails(e) => faults' = faults + 1 \/ ~ConfigUsable]_esVars
  <2>1. \A e \in Engines : LoneStep(e) \/ UNCHANGED esVars
    BY <1>2, LoneStart
  <2>2. CASE UNCHANGED esVars
    BY <1>2, <2>2 DEF esVars, LoneInv, At
  <2>3. CASE ~UNCHANGED esVars
    BY <2>1, <2>3 DEF LoneStep, Excused
  <2>4. QED  BY <2>2, <2>3
<1>3. QED  BY <1>1, <1>2, EngineStartInvariant, PTL DEF ESSpec
=============================================================================
