# A verification project for Micro-FaaS

Micro-FaaS is an engine that stores functions (a name, a Docker image, an
environment and limits) in Postgres and runs them on request in short-lived
Docker containers.  This directory holds TLA+ models of the engine, the TLC
configurations that check them on small instances, and proofs of their safety
properties for instances of every size.

Paths below are relative to `src/`.  `PROJECT.json` gives, for every definition
that models code, the lines it models.

## 1. Inventory

| Component | Source | State | Operations |
|---|---|---|---|
| Container manager | `internal/container/manager.go` | `knownImages` (process memory), one container per call (in the daemon), one removal goroutine per call | `NewDockerManager`, `RunFunction`, the deferred removal |
| Function registry | `internal/api/v1/handler_function.go`, `dot.go`, `internal/domain/function.go`, `internal/db/postgres.go` | the table `functions`, unique index on the name | create, get by name, list |
| Invocation gateway | `internal/api/v1/handler_invoke.go`, `test_run.go`, `internal/domain/execution.go` | `functionCache`, `envCache` (process memory), the table `executions` | invoke, test run, the goroutine that inserts the record |
| Accounts and tokens | `internal/api/v1/auth.go`, `users.go`, `internal/repository/postgres_user.go`, `internal/server/jwt_service.go`, `internal/api/middleware/auth.go` | the table `users` (soft deletion, unique index on the email), the tokens clients hold | register, login, logout, refresh, forgotten password, list, change role, delete, push token, token check |
| Function network | `internal/container/network.go` | a Docker network, firewall rules | look up or create, insert the rules |
| Engine start, configuration | `cmd/engine/*.go`, `internal/config/config.go`, `internal/db/postgres.go`, `internal/domain/migrate.go`, `internal/api/v1/routes.go` | the configuration file, the schema, the router, the port | load or write the configuration, connect, migrate, register routes, serve |
| Command line client | `cmd/cli/main.go` | a process per command | create, list, invoke over HTTP |
| Response envelope | `internal/delivery/response.go` | one per answer | status, data, error |
| Health check | `internal/api/v1/health.go` | none | a constant answer |
| Language runtimes | `runtimes/` | none | one-request servers the engine does not contact |
| Flutter application | `flutter/` | none | the template application |

**How they interact.**  Every HTTP request is a goroutine.  The invoke handler
reads the two caches, on a miss the functions table, then calls `RunFunction`,
which is a sequence of calls to the Docker daemon; when it returns, the handler
starts a goroutine that inserts the execution record and answers without
waiting for it.  `RunFunction` itself leaves a goroutine behind that removes
the container; the daemon removes it too, once it exits (`AutoRemove`).  The
registry's create handler is the only writer of the functions table.  Accounts
share nothing with the rest but the database: no functions route checks a token.
Engines meet at their start: each makes the configuration file, the tables, the
Docker network and the firewall rules that it finds missing, and all of these
outlive it.  The commands of the client are processes that send one request each.

**What is hard here.**

- *Concurrency*: any number of handlers over package-level maps that are never
  invalidated; look-up and insert as two statements; the record's goroutine
  racing the answer; the forced removal, the automatic removal, the wait and
  the reading of the logs racing one another in the daemon.
- *Time*: the deadline of `execCtx` covers the start and the wait only, and
  `select` takes either branch when the result and the deadline are both ready.
- *Partial failure*: a Docker or database call may take effect and its answer
  be lost; one removal attempt; ignored errors of the pull's stream, the logs,
  the record's insert.
- *Crashes*: caches, goroutines and `knownImages` are lost, containers, tables
  and images are not, and a restart looks for none of them.  A start makes what
  is missing by looking and then creating, in many steps, and may die after
  each; starts may overlap.
- *The client*: it never tries again and sets no timeout; it learns of a request
  from a status or an envelope that a crash may lose.

**What makes each component correct.**  The container manager: a result without
an error is what the call's own process did; no function is killed under its
call; no container is left with nobody in charge of it; every call returns.  The
registry: a create that succeeded is found for ever, a create that was refused
left nothing, a stored function can run.  The gateway: an invocation runs the
function it named with its own environment; answers and records are true of the
run and of each other; every request is answered and every run recorded.
Accounts: an email names at most one account; answers and tokens are about
accounts that exist, with roles they have had, and signing up or in is as good as
one step.  The start: an engine that serves
has all it needs, whoever made it, and no failure leaves behind what later
starts fail on.  The client: what a command announces is so, and commands run
after it may rely on it.  The whole: the parts, each proved over what it is
promised of the next, compose, from a command down to its container.

## 2. Modules

| Module | Models | Checked by |
|---|---|---|
| `FunctionRun` | what `RunFunction` promises a caller: the abstract specification | refined by `ContainerManager`, used by `Gateway` |
| `ContainerManager` | `RunFunction`, its removal goroutine, the daemon, the client, crashes | `MCContainerManager` |
| `FunctionStore` | the functions table and the create handler | `MCGateway`, `MCFunctionStore` |
| `InvokeService` | what an invocation promises its client, without caches: the abstract specification | refined by `Gateway` |
| `Gateway` | invoke and test run over `FunctionStore` and `FunctionRun` | `MCGateway` |
| `CommandLine` | the commands and the envelope of the answers, over `Gateway` | `MCCommandLine` |
| `MicroFaaS` | the whole path of a command: `CommandLine` over `ContainerManager` | `MCMicroFaaS` |
| `AccountService` | accounts and sessions in single steps: the abstract specification | refined by `Accounts` |
| `Accounts` | users, registration, login, tokens | `MCAccounts` |
| `FunctionNetwork` | the Docker network and the firewall rules | as part of `EngineStart` |
| `EngineStart` | configuration, database, migrations, network, routes and port of many engines' starts | `MCEngineStart` |
| `ContainerManagerProofs`, `FunctionRunRefinement`, `FunctionStoreProofs`, `GatewayProofs`, `CommandLineProofs`, `MicroFaaSProofs`, `AccountsProofs`, `EngineStartProofs` | the theorems | TLAPS |

### ContainerManager

One `RunFunction` call is a record `call[c]`: its place (`pc`), its image,
whether its context was canceled or its deadline has passed, its result and the
state of its removal goroutine.  A call creates at most one container, so
containers are named by calls (`box[c]`).  There is one action for every daemon
call, and its disjuncts are the outcomes: the call takes effect and succeeds,
fails without effect, or takes effect and is reported as failed (possible when
the context ends while the call is under way, or when `DaemonMayFail`).

| Action | Code |
|---|---|
| `RunFunction` | entry, look-up in `knownImages` (manager.go:44-48) |
| `ImageInspect`, `ImagePull`, `DiscardPullStream`, `StoreKnownImage` | 48-60; the error of reading the stream is ignored |
| `ContainerCreate`, `ContainerStart` | 63-128; a failed create returns *before* the `defer` |
| `ContainerWait`, `WaitResult`, `WaitError` | the posted wait and the `select` (130-150) |
| `ContainerLogs` | 152-165 |
| `ContainerRemove` | the deferred goroutine (112-118) |
| `ClientCancels`, `DeadlinePasses`, `ContainerExits`, `ContainerAutoRemoved`, `ImagePruned`, `CMCrash`, `CMRestart` | the environment |

`FunctionRun` says the same without images, containers, contexts or
goroutines: a call is asked, launches its process at most once, and is answered
once, by that process's exit code, by an error or by a timeout; a process that
still runs is done away with only after the answer.

### FunctionStore

The table maps each name to a row or to `NoRow`, which is what the unique index
makes of it.  A create request goes through binding (`Bound`, with `omitempty`
letting 0 through), `InsertFunction` (commits, is refused by the index, fails
before the commit or after it) and `SendCreateAnswer`.  Zero limits are replaced
by the columns' defaults on insert (`OrDefault`).  A row's UUID is the identity
of the request that made it.

### Gateway

Extends `FunctionStore` and `FunctionRun` and shares their variables: the
composition of the HTTP side of the engine.  It never looks inside
`RunFunction`; it uses the abstract runs, which `ContainerManager` is proved to
implement.  A request goes `new -> [query -> store] -> env -> [storeEnv] ->
run -> running -> respond -> done`; each load and each store of a cache, the
query, the run and the answer are separate actions, as `sync.Map` and the
database serialise nothing larger.  `SpawnRecorder` makes the goroutine
`WriteExecution`, which outlives the request.  `GWCrash` loses the caches, the
requests in flight, the pending records and the runs that are open.

`InvokeService` has five variables and no caches, handlers or containers: a
table that only grows, and for each call the name it asked for, whether it is
new, open or ended, the function and environment it ran, and its answer.  The
refinement mapping (`Service` in `Gateway`) takes what ran from the request's
two look-ups, so that a stale or mixed cache entry, or a miss that is remembered,
is a step `InvokeService` does not have.  Test runs, which name no function, are
not part of it.

### CommandLine

Extends `Gateway` by one process per request.  A command is sent (`CreateCommand`,
`InvokeCommand`, `ListCommand`) or finds no engine (`Unreachable`), and ends when
its answer is there or the engine has died under it.  What it says is computed
from the answer as the code does: `create` by the status (`CreateSays`), `invoke`
by the envelope's `success` (`InvokeSays`, over `NewResponser`, `Status` and
`WithError`), `list` by both; `shown` is its table, with the timeout as
`GetTimeout` finds it under the name this answer gives it.  `seen` is history:
the commands that had announced success before this one was sent.

`invoke` puts the name it is given into the URL as it is, and a create restricts
the length of a name only.  The constant `PathName` says for each name which
one the request then asks for: itself, if no character of it means something in
a URL; another one (of `foo?v1` and `foo#v1` it is `foo`); `NoRoute`, where the
path is one that no route matches (`a/b`): then the answer is no envelope, and
the command prints its status and exits with 0; or `BadURL`, where the client
refuses to send anything (`foo%zz`).  The last two are `InvokeUnrouted`.  Nothing
is assumed of `PathName`, so that the theorems hold of whatever an HTTP client
makes of a name.

### MicroFaaS

`CommandLine` and `Gateway` run functions through `FunctionRun`, which is a
promise; `ContainerManager` keeps it.  `MicroFaaS` puts the two together: it
extends `ContainerManager` and instantiates `CommandLine` (as `Front`, through
`CommandLineProofs`, so that its theorems come along) with the four variables of
`FunctionRun` replaced by views of the call and its container (`PhaseOf`,
`AnswerOf`, `ProcessOf` and the container's exit code).  `up` is one variable of
both.

| Action | Is a step of |
|---|---|
| `CommandStep`, `CreateStep`, `HandlerStep`, `RecordStep` | `Front` only |
| `ManagerStep`, `PruneStep` | `ContainerManager` only; `Front` sees a step of `FunctionRun` or nothing |
| `CallRunFunction` | both: the handler's call is `RunFunction`'s entry, with the image of the row that the handler found, or the test run's own (`ImageOf`) |
| `Crash`, `Restart` | both: there is one process |

A cancelation is the client's (`ClientCancels`), at any time of the call, as it
is in `ContainerManager`; what a command says when its connection breaks does not
depend on it.

### FunctionNetwork and EngineStart

`FunctionNetwork` is `ensureFunctionNetwork`: one action per daemon call
(`NetworkList`, `NetworkCreate`, `NetworkInspect`) and per iptables command
(`CheckRule`, `InsertRule`).  The network and the rules are the host's, the place
in the function is each engine's.  Rules are counted, as iptables inserts a rule
as often as it is told to.

`EngineStart` is `startEngine` around it.

| Action | Code |
|---|---|
| `StatConfig`, `OpenConfig`, `WriteConfig`, `ReadConfig` | config.go:59-136; `os.WriteFile` truncates first and writes then, so two steps |
| `InitPostgresDB` | postgres.go:12-31 |
| `HasObject`, `CreateObject` | `AutoMigrate`: each table and index is looked up and then created |
| `NetworkStep`, `DockerManager` | `NewDockerManager` (manager.go:28-40) |
| `SetupRoutes`, `RegisterTestRunRoutes` | engine.go:43-63, routes.go:12-28; the last registration runs the server (test_run.go:41) |
| `StartEngine`, `ESCrash`, `HostReboot`, `NetworkRemoved` | the environment |

Every error of a start is `log.Fatalf`: the process is `Down` and what it made
stays.  Whatever error the look-up of the file meets, the file is taken for
missing (`StatConfig`), and the default replaces what its user wrote.  A write
that is cut short leaves a prefix of the default (`Prefixes`), which may be no
YAML; the sections of a file that are missing are zero values.  `BadMode` stands
in a file whose server mode gin does not know, at which `ginSetup` panics
(engine.go:57).  `cut` is history, and so is `own`, what the user had written.

### Accounts

One statement on the users table is one step: `Register` (look-up and hashing),
`CreateUser` (insert), `IssueToken`; `Login`, `IssueToken`; `Refresh` copies the
claims; `UpdateRole`, `DeleteUser` and `RegisterFcmToken` pass the token check
(`AdmitUpdate`) and are one update by id each (`Update`), between which the token
may expire and the account change.  Deletion is soft: `Live` rows are what
queries see, `EmailTaken` looks at all rows, as the index does.

Passwords are values, and `BcryptKey` is what bcrypt looks at of each: the first
72 bytes.  `SetPassword` refuses a longer one (`LongPasswords`); `CheckPassword`
does not, so that an account whose password has 72 bytes is entered with any
longer one that begins with it.  The salt, which makes different hashes of equal
passwords, is left out.

A token expires at any time (`TokenExpires`); `Logout` is the client throwing it
away, the engine does nothing, and `ForgotPassword` changes nothing at all.  A
client's state keeps an answer only where something is claimed of it; other
answers differ in nothing that later steps or properties look at.  The variable
`held` is history.

`AccountService` says the same in steps of its clients: an account is opened
(`Open`) under an address that no account ever had, a client enters a session
(`Enter`) by presenting the address of an account and a password whose key is the
account's, with a role that the account has or had, and an account is amended
(`Amend`) by a request that was admitted in a session (`Admit`), which may be over
by then, and never once it is closed.  A crash drops what was admitted (`Drop`);
everything else is `Pass`.  In the refinement (`Service` in `Accounts`) the session
is the client's token, admitted is a request between its token check and its
statement, and what a client presented is the request that its last answer of
success was about.

## 3. What is checked

`MaxFaults` of `EngineStart` bounds the failures, crashes, reboots and removed
networks of one behaviour; the other models have no counters and are bounded
only by the sets they are given.

| Run | Instance | Shows |
|---|---|---|
| `cm_calls` | 2 calls, one of them without a cancelable context, 1 image that may be removed, exit codes 0 and 1, functions that need not exit, failing daemon, crashes | `CMTypeOK`, `ResultIsExitCode`, `ContainersAccountedFor`, `KilledOnlyAfterReturn`; `KnownImagesPresent`: only a pull cut short or a removal makes `knownImages` wrong; every step maps to a step of `FunctionRun`; `CallReturns`, `LeftoverRemoved` |
| `fs_safety` | 2 creates, 2 names, limits on and around their edges, beside a test run, failing database, crashes and restarts | `CreatedIsFound`, `RowsWereRequested`, `StoredLimitsInRange`, `NamesKeepTheirFunction`; `ResponsesAreTrue` for a test run |
| `gw_safety` | 2 invocations, 2 creates, 2 names, 2 environments, failing database, crashes | `CacheCoherent`, `RunsNamedFunction`, `ResponsesAreTrue`, `RecordsAreTrue`, and that every step maps to a step of `InvokeService` |
| `cli_safety` | a create, 2 invocations, a list, 3 names - one that asks for itself, one that asks for the first, one that meets no route -, failing database, crashes | `AnnouncementsAreTrue`, `ScriptsWork` |
| `system_commands` | a create and an invocation, 2 names, one of which makes no URL, 2 images of which one may be removed, exit code 0 or none, failing daemon and database, cancelations, deadlines, crashes | `ContainersOfNamedFunction`, `RecordsOfRuns`, every step is one of `CommandLine`; `RequestIsAnswered`, `RunIsRecorded`, `CommandsEnd` |
| `accounts_safety` | 2 clients, 2 accounts, 2 emails, 3 passwords - one of 72 bytes, one that goes on after them, another long one -, 2 roles, failing database | `AnswersAreTrue`, `TokensAreTrue`, `AccountsArePermanent`, every step is one of `AccountService` |
| `engine_start` | 2 engines, 2 subnets, 2 private ranges, 2 tables, 2 faults, six files a user may have written, or none | `ServesWhenReady`, `NetworkIsGuarded`, `RulesAreFew`, `ServesWithWholeConfig`, `Recovers` |

Each of these properties relates one request, call, client or engine to the
shared state and is broken, if at all, by one other; two of each are what it
takes for every race listed under `hazards`.  The properties that only need one
image, one body or one name get the second only where it can be confused with
the first.  Two ranges and two tables have a first, a last and a step between
them, where a start may die; two faults are a crash and what goes wrong in the
start that follows it.  `system_commands` has one invocation and no test run or
list, because a call is a dozen steps of its own with a dozen failures: the calls
of two requests share `knownImages` and nothing else, which `cm_calls` checks
with two of them, and a test run is a call without the handler's look-ups.  Two
images are what it takes for a container to be of the wrong one.  A list is one
query whose answer is read in the same step, so that it ends whenever it was
sent, and `cli_safety` covers what it shows.  One list there leaves the last part of `ScriptsWork`, which relates two
lists, to its proof: with a second one the instance is beyond the time a run has.  The safety properties are in addition proved
for any number of each.

Symmetry is used where no element is singled out, and in safety runs only.  The
deadlock check is off for `engine_start`: when the faults are used up and the
engines that can serve do, nothing is left to do.

### Where the code and what is said of it disagree

Each is a run whose property TLC refutes; `PROJECT.json` quotes the lines.

| Run | What happens |
|---|---|
| `cm_outcome_lost` | `AutoRemove` removes a short container before the wait is posted, and a completed run is answered as an error; or between the wait and the logs, and they are silently empty |
| `fs_duplicate` | a name that is taken is answered 500: the 409 branch compares with an error gorm does not translate to |
| `cli_named` | `mfaas invoke 'foo?v1'` runs `foo` and announces its success: the name is part of the URL as it is |
| `accounts_conflict` | a registration that loses the race for its email, or whose email belongs to a deleted account, is answered 500 |
| `accounts_updates` | a change of role or a deletion that matches no row is reported as made |

### Fairness

`CMFairness`: a call to the daemon ends, well or badly (`RunStep`,
`WaitResult`); the deadline's timer fires (`DeadlinePasses`), and once `execCtx`
is done, the `select` takes a branch; the removal goroutine is scheduled.  Go's
scheduler and timers give the last three; the first is the Docker client's own
connection, which the calls before `execCtx` exists have no deadline for: were
the daemon to hang there, the test-run route, whose context is
`context.Background()`, would hang with it.  *No* fairness is assumed of the
function: it may run for ever.

`SYFairness`, of `MicroFaaS`: one goroutine serves a request, from the look-up
through `RunFunction` to the response, and it runs (`RequestStep`: a database or
daemon call ends, well or badly); the deadline's timer fires; the record's
goroutine and the create handler run (`RecordStep`, `CreateStep`); and a command
reads an answer that has come, or the end of its connection.  That `RunFunction`
answers a call is *not* assumed but part of what is checked, as it is in
`CallReturns`.  The removal goroutine is not needed, and no run need succeed or
exit.  The client has no timeout, so this is all that `CommandsEnd` has to rest
on.

`ESFairness`: a start goes on (`StartStep`), and whoever runs the engine starts
it when it is down (`StartEngine`): the code does not restart itself.  `Recovers`
says what repeated starts reach, not that they happen.

Crashes are not fair and a restart is not either: the liveness properties
except what the crash took.  (`EngineStart` is about restarts, and is the one
that assumes them.)

## 4. What is proved

Every theorem is for all values of the constants under the `ASSUME`s of the
modules, which say only that the names for "nothing" are different from the
things, that the sets which single some elements out are subsets, that exit
codes are naturals and limits integers, and that `DaemonMayFail`/`DBMayFail`
are Booleans.  TLC evaluates these assumptions on every run.

**ContainerManager** (`ContainerManagerProofs`).  `CMInv` strengthens the
properties with `PlaceInv` (what the place of a call says of its container and
remover: the container exists exactly from the create on, runs at the earliest
at the wait) and `CodeInv` (a container has an exit code exactly from the time
it exited, and one removed while its call is under way had exited, which is why
the result of a late wait is still its own).  Then `TypeCorrect`,
`ResultsAreExitCodes`, `NoForgottenContainer` and `KillsOnlyAfterReturn` follow
from `CMInv`.  `KnownImagesArePresent` has an invariant of its own (`ImagesInv`),
about the image a call is about to store.

**FunctionRunRefinement**.  `ContainerManagerImplementsFunctionRun`: initial
states map to initial states, and under `CMInv` every step maps to one step of
the same call, to `Lose` (the crash) or to a stutter.

**FunctionStore** (`FunctionStoreProofs`).  `FSInv` ties rows to the requests
that made them in both directions: `RowInv` (the row of a name was made from
the bound body of the request that is its ID) and `CreateInv` (a request whose
insert succeeded still has its row).  `CreatesAreFound`, `RowsAreRequested`,
`LimitsAreInRange` and `FunctionStoreTypeCorrect` follow;
`NamesKeepFunctions` is the action property, from `RowsStay`.  They are stated of
the registry alone and used of the whole: see `GatewayIsAFunctionStore`.

**Gateway** (`GatewayProofs`).  `GWInv` is the conjunction of `FSInv`, of
`FRInv` (what `FunctionRun` guarantees of a call: it is answered exactly when it
has an answer, and an exit code is that of its own exited process), of
`CacheCoherent`, and of `RequestInv` and `RecordInv`, which say what a request
holds at each place: from `store` on its function is the row of its name, from
`storeEnv` on its environment is that row's.  `CacheCoherent` is needed for
`RequestInv` (a hit) and `RequestInv` for `CacheCoherent` (a fill), and both
need `RowsStay`: the caches are right because rows never change.  The theorems
are `GatewayTypeCorrect`, `CachesAreCoherent`, `InvocationsRunTheirFunction`,
`ResponsesTellTheTruth` and `RecordsTellTheTruth`.

What `Gateway` is put together from it also implements: every step of it is a
step of `FunctionStore` or leaves the table alone (`GatewayIsAFunctionStore`), and
a step of `FunctionRun` or no run's (`GatewayRunsFunctions`).  So the theorems of
the registry hold beside invocations, crashes and restarts
(`GatewayKeepsFunctions`, one theorem for the four properties).

`GatewayImplementsInvokeService`: under `GWInv`
every step of one request maps to a step of the same call or to a stutter (a
hit, a miss, a fill, an environment and a record are all stutters), an insert to
`Publish`, the crash to `Die`.  The heart of it is that a 404 is answered in the
step that finds the table empty, and that from the run on `RequestInv` makes
function and environment those of the row.

**CommandLine** (`CommandLineProofs`).  `CommandsUseTheGateway`: every step of
the commands is a step of the gateway or leaves it alone, so all theorems of
`GatewayProofs` hold under its clients.  `CLInv` adds to `GWInv` for each command
what its announcement rests on (`SuccessInv`: an answer that is done stays, a
list shows what it should), that what it has seen has succeeded, and that its
table is part of what the table has now (`shown \subseteq Listing`: rows stay).
That a failure is announced of nothing that was done needs `FailedInv`: an
invocation that is said to have failed was lost, was answered another code than
200 or was never taken up, and a create likewise; `GWInv` says of those answers
that no process stands behind them, and no row.
`SentInv` and `AskedFor` say which name the request of a command carries: the
one that `PathName` makes of the command's.  `CommandsTellTheTruth` and
`ScriptsMayRely` follow, for every `PathName`.

**MicroFaaS** (`MicroFaaSProofs`).  The two halves of the system meet in
`FunctionRun`, and here they are joined.

- `SystemRunsContainers`: a step of the system is a step of `ContainerManager` or
  leaves it alone, so `CMInv` holds.  The refinement of `FunctionRun` is used step
  by step (`CallStepRefines`, `WorldStepRefines` and their like): `ManagerRefines`
  makes of a manager's step a `RunStep` of the gateway or a stutter.  That needs
  `RunsInv`, which adds to `CMInv` that an engine that is down has no call or
  removal under way, and that a result with an error carries 504 or 500 by its kind.
- `SystemImplementsCommandLine`: with that, every step is a step of `CommandLine`
  or a stutter, and as `Front` carries the theorems of `CommandLineProofs` under
  `SYAssumption`, which are the assumptions of its modules for these constants,
  `CLInv` and `GWInv` hold of the system.  `SystemIsAGateway`,
  `SystemImplementsInvokeService` and `SystemKeepsItsPromises` follow.
- `ContainersAreOfNamedFunction` relates the ends: `ImageInv` (a call is for the
  image of the function its request holds) with `RequestInv` (this function is the
  row of its name), `CMInv` (a container is its call's) and `SuccessInv` (an
  announced success is a 200).  `RecordsAreOfRuns` does the same for records.
- `HandlersAreNotHeldBack`: a call of `RunFunction` is a conjunction of two halves,
  and what is shown of it is worth nothing where one half may forbid what the
  other does.  It cannot: when a handler has come to its call, or a test run
  comes in, the process is up, the manager and `FunctionRun` have not had this
  call, and its image is one that can be run.

**EngineStart** (`EngineStartProofs`).  `ESInv` says of each engine how far it has
come and what there is for that reason: the tables up to the one it is at
(`ReadyInv`), the rules of the ranges it has passed unwarned (`GuardInv`), and
what it has read (`ConfigInv`): unless a write of the file was cut, that is what
the user wrote, the default or nothing at all, as is the file itself (`FileInv`);
and an engine that is connected has read a database, so not nothing.  The three need one
another's steps only in that tables never go and that rules go with a reboot
alone, which takes every engine down.  `RulesInv` counts a rule together with
the engines about to insert it: an engine joins them when the rule is not there,
and then at most all engines do, or by a failed look-up, which is a fault.
`EnginesServeWhenReady`, `NetworksAreGuarded`, `RulesStayFew` and
`EnginesServeWithWholeConfig` follow, for any number of engines, subnets,
ranges, tables and faults.

`LoneStartsSucceed` is the safety half of `Recovers`, for a host with one engine:
a start of it dies, or comes to the error that it will die on, only in the step of
a fault or for a configuration that is unusable: no YAML, no database, or a mode
gin does not know.  It needs `LoneInv`: a table or
a network that was missing a step before is still missing when it is created, and
the configuration read is the file's.  Two engines have none of this, and their
starts do fail on each other; that they come to serve all the same is what
`Recovers` is checked for.

**Accounts** (`AccountsProofs`).  A step leaves the table alone, inserts one
row under a fresh identity and a free email, or changes one live row without
touching its email or password.  `ACInv` (emails are unique over deleted rows
too, roles are in `held`, clients hold accounts that exist) survives the three.
The theorems are `AccountsTypeCorrect`, `AnswersNameAccounts`,
`TokensNameAccounts` and `AccountsStay`.

`AccountsImplementService`: under `ACInv` the step that issues a token is an
`Enter`, an insert an `Open`, a token check that lets an update in an `Admit`, its
statement an `Amend` where it changes a row, and a crash is `Drop`; any other step
gives no client a token, admits nothing and makes no client one that has
presented a password.  What it needs of `ACInv` is that the request kept between the steps
still names the account it was looked up or inserted for, that the role kept is
one the account has had, and that only a registration or a login is ever on its
way to a token.

**Only model-checked**: the liveness properties `CallReturns`, `LeftoverRemoved`,
`RequestIsAnswered`, `RunIsRecorded`, `CommandsEnd` and `Recovers` (fairness and
`ENABLED` are out of the prover's reach).  Every invariant, action property and
refinement that a passing run checks is also proved.

## 5. Abstractions

- Container configuration, log contents, durations, UUID formats, the data of
  an envelope and log lines are left out.  A `Logs` field is `output`, `timed
  out` or `none`.
- Environments are opaque values; a row's JSON column and the map decoded from
  it are the same value, as the decoder is the inverse of the encoder that
  wrote the column.
- Passwords are what bcrypt makes of them; that it tells apart what it looks at,
  and that nobody has a token that the engine did not issue, is taken from what
  the two libraries promise.  With an empty secret, which a configuration without
  the section `jwt` gives, the second is not so: such tokens are not modelled.
- A wait that the daemon answers with an error in its body (`waitResp.Error`) is
  not told from one without: the code ignores that field (manager.go:148).  For
  the condition the code waits for, the daemon fills it for a container that
  failed to start, and a call whose start failed has returned before the wait.
- A request whose body the binding refuses is one value (`BadName`,
  `BadRequest`).  A path parameter that is no UUID makes the statement fail: a
  database failure.
- Signing a token cannot fail (HS256 with a byte key), so `IssueToken` has one
  outcome; a token's two dates are the nondeterministic `TokenExpires`.
- The daemon: removing an image is refused while one of its containers exists;
  `AutoRemove` applies to containers that exited, not to those never started.
- Calls of `RunFunction` by the two routes differ in `Background` only.

- The daemon refuses a network name that is taken; a network removed by an
  operator has no containers.  An engine inspects the network it created by its
  id.
- A configuration is the set of its sections: one that is cut short in the middle
  of a section counts as without it, or as no YAML.  Of the single values only a
  mode that gin does not know is told from others.  Without a database section
  the connection fails; without a server section the port is empty, which stands
  for any that is free.
- The tables and indexes are numbered in the order of `AutoMigrate`; of two
  engines that create the same one the second is refused.
- A run that came to its exit is a success to the response and to the command,
  whatever the code, which both show, and a failure to the record when the code
  is not 0 (handler_invoke.go:67-91): `AnnouncementsAreTrue` goes by the first,
  `RecordsAreTrue` by the second.
- A list is one query, and its answer is read in the same step.  What a command
  prints is reduced to what it announces and, for a list, to IDs and timeouts.

## 6. Not modelled

- The health check: a constant answer.  Its route is one of `EngineStart`'s.
- `RequireRole` (middleware/auth.go:61-96) and `FindByID` (postgres_user.go:31-40):
  called by nothing.
- The language runtimes: servers for one request that the engine never contacts,
  as `RunFunction` replaces the image's command (manager.go:94).
- The Flutter application: the unmodified template.
- The memory limit's product (manager.go:70) cannot overflow where `int` has 64
  bits, which is what the engine is built for; `StoredLimitsInRange` bounds it.
- The layout of what the commands print (main.go:67-112, 365-390).

## 7. Plan

Done, in this order: `FunctionRun` and `ContainerManager` with the refinement;
`FunctionStore`; `Gateway` on top of both; `Accounts`; their proofs;
`FunctionNetwork` and `EngineStart`; `CommandLine`; `InvokeService` and its
refinement; their proofs; `MicroFaaS` with the composition proved;
`AccountService` and its refinement.

Next:

1. `EngineStart` under `Gateway`: the crash and restart of the gateway as the
   start's steps, so that a client meets an engine that is up but does not serve.
2. The bounded pool of database connections (postgres.go:27-29) in front of the
   handlers and the record's goroutine.
