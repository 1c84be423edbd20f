------------------------------ MODULE EngineStart ------------------------------
(***************************************************************************)
(* The start of an engine (cmd/engine/engine.go): configuration            *)
(* (internal/config/config.go), database and migrations (internal/db,      *)
(* internal/domain/migrate.go), the functions' network (FunctionNetwork),  *)
(* the routes and the port (internal/api/v1/routes.go, test_run.go).       *)
(*                                                                         *)
(* Whatever a start finds missing it makes, and every error ends it.       *)
(* Engines may overlap: a new one is started before the old one is gone.   *)
(* A start may die anywhere, and is repeated on what it left behind.       *)
(***************************************************************************)
EXTENDS FunctionNetwork

CONSTANTS
  NumObjects,    \* tables and indexes that AutoMigrate makes, in this order
  UserFiles      \* contents of the configuration that a user may have written

ASSUME ESAssumption == NumObjects \in Nat \ {0}

VARIABLES
  file,          \* the configuration file
  schema,        \* the tables and indexes that exist
  engine         \* each engine: its place, configuration and routes

esVars == <<file, schema, engine, network, rules, ensure, faults>>
host == <<file, schema>>

-----------------------------------------------------------------------------
Sections == {"server", "database", "docker", "jwt"}
Unparseable == {"no YAML"}
BadMode == "unknown mode"          \* a server's mode that gin does not know
Contents == (SUBSET (Sections \cup {BadMode})) \cup {Unparseable}
ASSUME ESUserFiles == UserFiles \subseteq Contents

(* What a write of the default may leave when it is cut short. *)
Prefixes ==
  {{}, {"server"}, {"server", "database"}, {"server", "database", "docker"}, Unparseable}

File == [by : {"nobody", "user", "engine"}, content : Contents,
         cut : BOOLEAN,              \* history: a write of it was cut short
         own : SUBSET Contents]      \* history: what its user had written

Objects == 1..NumObjects
RouteGroups == {"health", "auth", "users", "functions", "invoke", "test-run"}

Engine ==
  [pc : {"down", "stat", "open", "write", "read", "connect", "migrate", "create",
         "docker", "routes", "listen", "serving"},
   cfg : Contents, object : Objects, routes : SUBSET RouteGroups]

ESTypeOK ==
  /\ FNTypeOK
  /\ file \in File
  /\ schema \subseteq Objects
  /\ engine \in [Engines -> Engine]

Down == [pc |-> "down", cfg |-> {}, object |-> 1, routes |-> {}]
NoFile == [by |-> "nobody", content |-> {}, cut |-> FALSE, own |-> {}]
UserFile(content) ==
  [by |-> "user", content |-> content, cut |-> FALSE, own |-> {content}]

ESInit ==
  /\ FNInit
  /\ file \in {NoFile} \cup {UserFile(content) : content \in UserFiles}
  /\ schema = {}
  /\ engine = [e \in Engines |-> Down]

-----------------------------------------------------------------------------
At(e, pc) == engine[e].pc = pc
To(e, pc) == engine' = [engine EXCEPT ![e].pc = pc]

(* log.Fatalf, or a crash: what the process held is lost. *)
Fatal(e) ==
  /\ engine' = [engine EXCEPT ![e] = Down]
  /\ ensure' = [ensure EXCEPT ![e] = Outside]

StartEngine(e) ==
  /\ At(e, "down") /\ To(e, "stat")
  /\ UNCHANGED <<host, fnVars>>

(* ensureDefaultConfig: the look-up, and the two steps of os.WriteFile.    *)
(* Whatever error the look-up meets, the file is taken for missing.        *)
StatConfig(e) ==
  /\ At(e, "stat")
  /\ \/ file.by = "nobody" /\ To(e, "open") /\ NoFault
     \/ file.by # "nobody" /\ To(e, "read") /\ NoFault
     \/ file.by # "nobody" /\ To(e, "open") /\ Fault
  /\ UNCHANGED <<host, network, rules, ensure>>

OpenConfig(e) ==
  /\ At(e, "open")
  /\ \/ /\ file' = [file EXCEPT !.by = "engine", !.content = {}]
        /\ To(e, "write") /\ NoFault /\ UNCHANGED ensure
     \/ UNCHANGED file /\ Fatal(e) /\ Fault
  /\ UNCHANGED <<schema, network, rules>>

WriteConfig(e) ==
  /\ At(e, "write")
  /\ \/ /\ file' = [file EXCEPT !.content = Sections]
        /\ To(e, "read") /\ NoFault /\ UNCHANGED ensure
     \/ /\ \E p \in Prefixes : file' = [file EXCEPT !.content = p, !.cut = TRUE]
        /\ Fatal(e) /\ Fault
  /\ UNCHANGED <<schema, network, rules>>

(* Settings that the file has not are zero. *)
ReadConfig(e) ==
  /\ At(e, "read")
  /\ \/ /\ file.content # Unparseable
        /\ engine' = [engine EXCEPT ![e].cfg = file.content, ![e].pc = "connect"]
        /\ NoFault /\ UNCHANGED ensure
     \/ file.content = Unparseable /\ Fatal(e) /\ NoFault
     \/ Fatal(e) /\ Fault
  /\ UNCHANGED <<host, network, rules>>

-----------------------------------------------------------------------------
\* Variant: the settings of the database have defaults of their own.
ConnectAnyway(e) ==
  /\ At(e, "connect") /\ To(e, "migrate")
  /\ UNCHANGED <<host, fnVars>>

(* Without its settings the data source name does not name the database.   *)
InitPostgresDB(e) ==
  /\ At(e, "connect")
  /\ \/ "database" \in engine[e].cfg /\ To(e, "migrate") /\ NoFault /\ UNCHANGED ensure
     \/ "database" \notin engine[e].cfg /\ Fatal(e) /\ NoFault
     \/ Fatal(e) /\ Fault
  /\ UNCHANGED <<host, network, rules>>

(* NewDockerManager, once AutoMigrate has come to the end of its list.     *)
NextObject(e) ==
  IF engine[e].object = NumObjects
  THEN To(e, "docker") /\ EnsureFunctionNetwork(e)
  ELSE /\ engine' = [engine EXCEPT ![e].object = @ + 1, ![e].pc = "migrate"]
       /\ UNCHANGED ensure

HasObject(e) ==
  /\ At(e, "migrate")
  /\ \/ engine[e].object \in schema /\ NextObject(e) /\ NoFault
     \/ engine[e].object \notin schema /\ To(e, "create") /\ NoFault /\ UNCHANGED ensure
     \/ Fatal(e) /\ Fault
  /\ UNCHANGED <<host, network, rules>>

\* Variant: an error of the migration is logged only.
CreateObjectOrNot(e) ==
  /\ At(e, "create")
  /\ UNCHANGED schema /\ NextObject(e) /\ NoFault
  /\ UNCHANGED <<file, network, rules>>

(* Of two engines that miss a table, the second to create it is refused;   *)
(* an index is created if it does not exist.                               *)
CreateObject(e) ==
  /\ At(e, "create")
  /\ \/ schema' = schema \cup {engine[e].object} /\ NextObject(e) /\ NoFault
     \/ engine[e].object \in schema /\ UNCHANGED schema /\ Fatal(e) /\ NoFault
     \/ UNCHANGED schema /\ Fatal(e) /\ Fault
     \/ schema' = schema \cup {engine[e].object} /\ Fatal(e) /\ Fault
  /\ UNCHANGED <<file, network, rules>>

NetworkStep(e) == At(e, "docker") /\ EnsureStep(e) /\ UNCHANGED <<engine, host>>

DockerManager(e) ==
  /\ At(e, "docker")
  /\ \/ ensure[e].pc = "done" /\ To(e, "routes") /\ UNCHANGED ensure
     \/ ensure[e].pc = "failed" /\ Fatal(e)
  /\ UNCHANGED <<host, network, rules, faults>>

-----------------------------------------------------------------------------
(* ginSetup: gin.SetMode panics at a mode that it does not know.           *)
SetupRoutes(e) ==
  /\ At(e, "routes")
  /\ \/ /\ BadMode \notin engine[e].cfg
        /\ engine' = [engine EXCEPT ![e].routes = RouteGroups \ {"test-run"},
                                    ![e].pc = "listen"]
        /\ UNCHANGED ensure
     \/ BadMode \in engine[e].cfg /\ Fatal(e)
  /\ UNCHANGED <<host, network, rules, faults>>

Serving(e) == engine[e].pc = "serving"

(* The empty port of a configuration without it stands for any that is free. *)
PortTaken(e) ==
  "server" \in engine[e].cfg /\ \E d \in Engines : Serving(d) /\ "server" \in engine[d].cfg

(* The last registration runs the server and does not return: what follows *)
(* it, in engine.go too, is never reached.                                 *)
RegisterTestRunRoutes(e) ==
  /\ At(e, "listen")
  /\ \/ /\ ~PortTaken(e)
        /\ engine' = [engine EXCEPT ![e].routes = @ \cup {"test-run"}, ![e].pc = "serving"]
        /\ UNCHANGED ensure
     \/ PortTaken(e) /\ Fatal(e)
  /\ UNCHANGED <<host, network, rules, faults>>

-----------------------------------------------------------------------------
StartStep(e) ==
  \/ StatConfig(e) \/ OpenConfig(e) \/ WriteConfig(e) \/ ReadConfig(e)
  \/ InitPostgresDB(e) \/ HasObject(e) \/ CreateObject(e)
  \/ NetworkStep(e) \/ DockerManager(e)
  \/ SetupRoutes(e) \/ RegisterTestRunRoutes(e)

ESCrash(e) ==
  /\ ~At(e, "down") /\ Fatal(e) /\ Fault
  /\ UNCHANGED <<host, network, rules>>

(* The firewall's rules do not survive it: Docker's networks do. *)
HostReboot ==
  /\ rules' = [rule \in Rule |-> 0]
  /\ engine' = [e \in Engines |-> Down] /\ ensure' = [e \in Engines |-> Outside]
  /\ Fault
  /\ UNCHANGED <<host, network>>

ESNext ==
  \/ \E e \in Engines : StartEngine(e) \/ StartStep(e) \/ ESCrash(e)
  \/ HostReboot
  \/ NetworkRemoved /\ UNCHANGED <<engine, host>>

ESSpec == ESInit /\ [][ESNext]_esVars

(* A start goes on, and whoever runs the engine starts it when it is down. *)
ESFairness == \A e \in Engines : WF_esVars(StartEngine(e)) /\ WF_esVars(StartStep(e))

ESFairSpec == ESSpec /\ ESFairness

-----------------------------------------------------------------------------
(* An engine that serves has all of its routes and finds all of its tables *)
(* and indexes, whichever start made them and wherever others died         *)
(* (engine.go:32-41, routes.go:22-27, test_run.go:41).                     *)
ServesWhenReady ==
  \A e \in Engines : Serving(e) =>
    engine[e].routes = RouteGroups /\ schema = Objects

(* When an engine serves that was not warned, every private range is cut   *)
(* off from the subnet that it found, although the network, or some of the *)
(* rules, may be from a start that died half-way, and the host may have    *)
(* been rebooted since (network.go:25-60 and 73-84).                       *)
NetworkIsGuarded ==
  \A e \in Engines :
    (Serving(e) /\ ~ensure[e].warned /\ ensure[e].subnet # NoSubnet) =>
      \A k \in Ranges : rules[<<ensure[e].subnet, k>>] > 0

(* A rule is there more than once only for engines that looked it up at    *)
(* the same time and for look-ups that failed (network.go:77-79).          *)
RulesAreFew ==
  \A rule \in Rule : rules[rule] <= Cardinality(Engines) + faults

(* An engine serves with the settings that its user wrote or with the      *)
(* defaults as a whole: no crash between creating the file and writing it, *)
(* no other start that truncates it and no failed look-up, after which the *)
(* default replaces the user's file, gives it half of them.  Only a write  *)
(* that was cut short can (config.go:75-84 and 102-133).                   *)
ServesWithWholeConfig ==
  \A e \in Engines :
    (Serving(e) /\ ~file.cut) => engine[e].cfg \in file.own \cup {Sections}

(* When failures end, an engine ends up serving: no crash or overlap       *)
(* leaves tables, a network or rules behind that later starts fail on.     *)
(* The exceptions are configuration files that the user wrote so: no YAML, *)
(* no database, or a mode that gin does not know; and a file that an       *)
(* interrupted write left without a database, which every later start      *)
(* takes for the user's (config.go:103, engine.go:18-41 and 57).           *)
ConfigUsable ==
  /\ file.content # Unparseable
  /\ "database" \in file.content /\ BadMode \notin file.content

Recovers == <>[]~ConfigUsable \/ []<>(\E e \in Engines : Serving(e))
=============================================================================
