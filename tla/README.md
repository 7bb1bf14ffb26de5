# Formal models of the Fastly CLI

This directory holds TLA+ models of the Fastly CLI (`src/`), the TLC
configurations that check them on small instances, and theorems about them
checked by TLAPS. `PROJECT.json` is the index: components, runs, the mutants
that show each property can fail, the source lines of every definition, the
findings, the hazards and the theorems.

    tlc -config MCDeploy.cfg MCDeploy     # one run
    tlapm Deploy_proof.tla                # one set of proofs

The CLI is a program of many commands. A few of them, and the packages under
them, keep state and run concurrently: each of these has a module of its own.
The others are short sequences of steps (select a version, refuse a flag, call the
API). They are interesting because several people and scripts run them on
one service or one account at the same time; they are given as tables, one row per command,
and two modules run the rows against each other.

## 1. Inventory

| component | state it keeps | operations | interacts through |
|---|---|---|---|
| log tailing `commands/logtail` | current window and last batch, per-request buffers, receipts and timers | request, scan, follow link, buffer, release, print | goroutines `tail` and `outputLoop`, `batchCh`, `tdCh`, `doneCh`, `time.AfterFunc`, HTTP stream |
| bulk deletion of KV keys `kvstoreentry/delete.go` | `keysCh`, `errorsCh`, the pool | list, push, take, delete, stop | channels, a wait group, the API |
| bulk deletion of config items `configstoreentry/delete.go` | batches, a semaphore, failed keys | spawn, acquire, delete, release | goroutines, wait group, mutex |
| upload of a directory `kvstoreentry/create.go` | semaphore, `processed`, a counter, errors | acquire, insert, retry, report, count | as above |
| deployment `commands/compute/deploy.go` | the service and version being made, `fastly.toml`, the undo stack | look up, create, save, configure, upload, activate, check, clean up | the API, a monitor goroutine and signals, the manifest file |
| setup resources `compute/setup` | resources still to create | validate, configure, create, fill, link | the API; account-level stores |
| local server `compute/serve.go`, `pkg/exec` | the server process, restart and done channels, watched files, Pushpin | start, watch, restart, stop, monitor | goroutines, unbuffered channels, `fsnotify`, signals |
| build and toolchains `compute/build.go`, `language_*.go` | generated files, metadata | scripts in order | subprocesses |
| configuration `pkg/config`, profiles `pkg/profile`, `commands/profile` | `config.toml` with the profiles, the default one | read, migrate, write; create, switch, update, delete | the file, shared by all processes |
| start-up and tokens `pkg/app/run.go` | the token and where it comes from | choose, refresh, re-authenticate | configuration, login |
| login `commands/sso`, `pkg/auth` | the local HTTP server, its result channel | authorise, call back, exchange, store | browser, goroutine, channel, port 8080, configuration |
| version selection `pkg/argparser` | the version a command edits | select, clone | the API, other clients |
| version and resource commands `commands/service`, `compute update` | none of their own; the versions of a service at the API | select a version, then edit, activate, lock, stage, delete | the API, other clients |
| store, account and WAF commands (`kvstore`, `tls`, `dashboard`, `user`, `ngwaf`, ...) | none of their own; objects of the account at the API | check, read, change, write back | the API, other clients |
| updates `commands/update`, `pkg/github`, `commands/install` | versions of the binary and of assets | check, download, replace | GitHub, files |
| manifest file `pkg/manifest` | `fastly.toml` and its env files in memory | read, write | deploy, build, serve |
| error log `pkg/errors` | entries; the log file | add, rotate, persist | the file, shared by all processes |
| undo stack `pkg/undo` | a list of functions | push, pop, run on error, unwind | deploy |

What is hard in them, and what makes each correct:

* **log tailing**: timers of several batches of one request race with further
  batches; the stream breaks off, is refused or asked for again. Every log must be
  printed once, lowest sequence number first, none held longer than
  `--sort-buffer`, no batch lost or repeated by a retry, and the command must
  end with `--to`.
* **bulk commands**: bounded channels, semaphores, workers that stop on errors.
  No key may be lost between goroutines, success must mean that everything was
  done, the limits must hold and the command must end.
* **deployment**: a dozen API calls, each of which may fail, and a signal at any
  point with a second goroutine that cleans up meanwhile. A failure must leave
  neither a new service nor its ID behind, unless its version is active; an existing
  service must never be touched by the clean-up; "Deployed package" must be true of the package and of all
  that `[setup]` asks for, also when an earlier attempt left a store behind.
* **local server**: a restart, the end of the server, a signal and file events
  race for unbuffered channels; no process may outlive the command, a change must
  be rebuilt and served, and Ctrl-C must end the command.
* **configuration, tokens, login**: several CLI processes and crashes around a file
  that is truncated and rewritten; one profile is the default, no profile or
  refresh token may be lost.
* **versions and account objects**: another client may activate, lock, clone or change between a
  selection and an edit. No edit may be lost, the checks must miss no frozen version, and a
  command that refuses must not have changed anything yet.

The full list, each at its line, is `hazards` in `PROJECT.json`.

## 2. Plan

Done, in this order: `SortBuffer`, `LogTailOutput`, `LogTail`; `KVDeleteAll`,
`ConfigStoreDeleteAll`, `KVUpload`; `Deploy` with the resources of `[setup]`;
`CommandSteps` with the tables `LoggingCommands`, `ServiceCommands`,
`StoreCommands`, `AccountCommands`, `NgwafCommands` and the modules that run them,
`ServiceVersions` and `AccountObjects`; `Serve`; `Configuration`.

Every invariant and action property of the passing runs is proved as a theorem of its module, and so is
the refinement of `SortBuffer`. What is left to TLC is termination (section 5).

Modules that could follow: the error log and the asynchronous update check, each
as a file shared by several processes; the order of the build scripts.

## 3. Modules

### Log tailing

`LogTailOutput` is `outputLoop`. A slice of logs that is always sorted before it
is read is a set; `receives`, which the code indexes and slices, stays a
sequence. `Receive` is the whole case of `batchCh`: the split by request, the
append and sort, the receipt of a batch that raises the high sequence of the head
receipt, and the timer of a request that has none. `Fire` is the whole case of
`tdCh`: the split at the timer's sequence number, printing with the
`--stream` filter, and the successor timer. The clock ticks by itself and a timer that
has run out need not be served at once, as with `time.AfterFunc` and an
unbuffered channel. `at`, the time a log was received, is a history field: the code
does not keep it.

`SortBuffer` is the abstract promise: per request a set of held logs, from which
any downward-closed part may be released at a step, and the wanted ones of it
printed. `LogTailOutput` implements it under `held <- logs`.

`LogTail` adds `tail` (window, last batch, path, the scan of a response) and the
`select` of `Exec`. The stream server is external and answers as `tail` expects:
a window's batches from the requested one on, and a link to the next window. It
may be busy, refuse, break off, send a line that does not parse, a batch without
an ID, a link without a time or none. The last one makes `getTimeFromLink` index
out of range (`LinkPanic`). A batch is named by its window and its place there, so that the order of
the stream is an order of pairs (`Earlier`) and `InOrder` needs no concatenation of windows.

### Bulk commands

`KVDeleteAll`: the lister, `keysCh`, a pool, `errorsCh` and `wg.Wait`. Channels
are sets because no property depends on their order. A call that fails may have
been applied. `ConfigStoreDeleteAll`: the loop that cuts batches (`End` is the
code's bound), one goroutine per batch, the semaphore, the two deferred calls in
the order in which they run (`Done`, then `Release`). `KVUpload`: one goroutine per file,
the retry after a lost connection, and the deferred `wg.Done`, send to
`processed` and release of the semaphore in the order in which they run. A lost call may
have been applied. The count, which is only shown, is left out.

### Deployment

`Deploy` has the main goroutine and the monitor, each with a place in `pc`. Every
API call, prompt and file operation is an action with a failing branch; a call for a
service that has gone fails by itself, without a fault being charged. `manifest`
is the service ID in `fastly.toml`, and `"torn"` while the file is truncated and not
yet written: both goroutines may be there at once. `serviceID` is the variable
of `Exec` that the pushed function reads when it runs. `Undo`, `DeleteService`, `Clear`,
`Blank`, `ClearFails` and `Finish` take the goroutine as a parameter: `RunIfError` of
the main goroutine and `Unwind` of the monitor run the same function, and
whichever ends first ends the process. `DeleteService` deactivates nothing, and the API
refuses to delete a service with an active version (`service/delete.go` deactivates it first): once
`ProcessService` has set `serving` (`Activated`), the clean-up fails at this call. A call for a
deleted service leaves nothing there (`Left`). `Killed` is a second signal or SIGKILL.

The resources of `[setup]` are those of a new service: backends, then a store that is
created or, if its name is taken, retrieved or replaced by one of another name
(`NamesOffered`, decided in `Configure`, long before the calls), filled, and linked
to the version. KV, config and secret stores go through the same three steps, so
one store stands for them. A store belongs to the account: calls for it
succeed after the monitor has deleted the service, and `Init` has the leftovers of
an earlier attempt.

### Versions of a service

`CommandSteps` names the steps commands are made of. `LoggingCommands` (175 rows) and
`ServiceCommands` (66 rows) give every command that selects a version as a
sequence of steps, in the order of its `Exec`: what it demands of the version
(active, locked, staging, with or without `--autoclone`), where flags may be refused, the
calls it makes. `ServiceVersions` is the service at the API (versions, the active, staged and
locked ones, the edits in each) and clients that run any of these
rows. `SelectPlain`, `SelectAutoclone`, `SelectForDeploy` and `SelectNothing` are
`argparser.ServiceDetails` with the values of `--version` ("unset" is
a command run without it); the clone that follows is a step of its own,
because the listing is stale by then. `strayed`, `calm`, `base`, `seen`,
`promised` and `touched` are history: what a client could not have known, and what the
properties compare with. An edit is a change added to a version; what an update sends for the flags that are not
given, and with it whether an update resets another client's setting of the same resource, is not modelled.

### Objects of an account

`StoreCommands` (40 rows), `AccountCommands` (93) and `NgwafCommands` (130) give the commands
that select no version. `AccountObjects` runs them against one object, which commands change in three ways:

* most send a change that the API applies to the object as it is (`MakeEdit`);
* the commands for the items of a dashboard read the dashboard, change it in memory and write it back
  (`Replace`): they lose what another client changed in between (`lost`);
* eighteen rows send the object, or a part of it, as a whole without having read it (`Overwrite`): the updates of
  domains, service alerts, TLS subscriptions, and of rules, lists, workspaces, Datadog and Jira alerts of the
  Next-Gen WAF. Whatever was in that part is gone (`overwritten`). Which part that is depends on the flags, so
  `Overwrite` keeps any subset of the object.

### Local server

`Serve` is `Exec` of `compute serve` with its goroutines: for every call of
`local()` a monitor of signals (`Streaming.MonitorSignals`), the one that sets up
the watcher and the debounced handler of a change; and the goroutines of
Pushpin. Unbuffered channels are rendezvous (`ReceiveRestart`, `TellMonitor`, `TellNobody` when the
one-second timer gives up); `s.SignalCh` holds one message.
`known` is `s.Process != nil`: until it is set a signal is dropped. `source`, `compiling`, `binary` and
`serving` count the changes that each stage has seen. A signal reaches the server
too if it comes from the terminal. SIGINT and SIGTERM go to every goroutine that asked for them (`Signal`);
SIGHUP and SIGQUIT only to the one that cleans up after Pushpin, since the monitors ask
for the first two (`HangUp`): Pushpin ends and the command goes on. Without Pushpin they
kill the command, like any signal it does not catch.

### Configuration

`Configuration` has processes that each hold a copy of `config.toml`: `Read` (with
the renewal of an old file and the migration of a legacy user), `Truncate` and
`Encode` as separate steps of a write, and `Kill` between any two steps. A process
may find the file empty while another is writing it. The commands are those that
write: `profile create`, `switch`, `update`, `delete`, `sso`, a setting, and "use", any
command that needs a token, with the refresh of an expired one
(`Refresh`, `Validate`). A refresh spends the old refresh token at the
authority; `Listen`, `LoggedIn`, `Authorized` and `Unauthorized` are the
login through port 8080, which two processes may compete for. `target` is the profile a command is about and
`loginFor` the one whose tokens its login replaces: `identifyProfileAndFlow` lets the `profile` of
`fastly.toml`, or `--profile`, win over the name given to `profile create`, `switch`, `update` or `sso` (`LogInFor`).
`mishaps` records what the code does not protect from (an outdated copy
written, a process that ended between refresh and write, a question
answered with no), so that the invariants can be stated of everything else.

## 4. Runs

| run | instance | shows |
|---|---|---|
| `log_output` | two requests, four sequence numbers, sort buffer 1, clock to 3, three receipts | types, one timer per request, receipts cover what a timer leaves behind, no log overstays, every log leaves, refinement of `SortBuffer` |
| `log_tail` | two windows of two batches out of sequence, `--from`, `--to` and padding, two faults of any kind | no batch skipped or repeated unless a line or link is unreadable, no log lost or invented, the command ends |
| `kv_delete` | four keys, two workers, `keysCh` of 2, one error accepted, pages of up to two | no key forgotten, success after a complete listing means an empty store, no failure hidden, the command ends unless every worker has stopped |
| `config_delete` | five items in batches of two, two slots | batches cover the items once, leftovers are named, the command ends |
| `kv_upload` | four files, two at a time | every file told of, the command ends |
| `deploy` | three faults, two ticks of status check, a signal anywhere; services, stores, manifest and flags in every starting state (0.4 million states) | types, success serves package, backend and filled store, failures and interrupts clean up until the activation and keep service and ID together after it, an existing service is kept, the command ends |
| `service_versions` | two clients, all 241 rows, three versions, two edits, three commands (2.0 million states) | no edit is lost, commands build on what they selected, a conflict needs a race, a refusal comes before any change |
| `account_objects` | three clients, all 263 rows, three changes, three commands (92 thousand states) | a change is undone only by an outdated copy or by an update that sends the whole unread, a refusal comes before any change |
| `serve` | `--watch`, Pushpin, `--skip-build`, `--watch --skip-build`; one change, two signals, one server that ends by itself (364 thousand states) | no process left behind, only signals stop the command, no monitor left listening, Ctrl-C ends the command, a change is served |
| `configuration` | two processes, two names, three first files, `fastly.toml` naming any profile, three commands, one kill (5.5 million states) | one default profile, no default lost, no token lost but of the profile a command is about or logs in for, no refresh token lost, but through the mishaps |
| `kv_delete_stuck` | violation, five keys and a `keysCh` of 1 | the command hangs once all workers have stopped |
| `deploy_dangling` | violation, no fault at all | a signal may leave the ID of a deleted service in `fastly.toml` |

**Bounds.** Two requests and two workers are the least that interleave; four
sequence numbers over two windows give a request several batches, out of order, and so
several receipts; a queue smaller than the keys makes the lister block; five items in batches
of two leave an uneven last one; four files for two slots make goroutines wait;
three faults let a step, its clean-up and the other goroutine's clean-up all fail.
Three versions let a client clone the version another client has just cloned, and three
commands let one client run a command between two steps of another and a third after both. Three
clients and three changes let an outdated copy of one client overwrite a second one's
change after a third has read it. One change, one exit and two signals
make a third `local()` whose predecessors' monitors may still be there. Two
processes and a kill tear the file in the middle of a write that the other reads.
The clock, the receipts, the faults, the status check, and in the later modules versions,
edits, commands, changes, signals, exits and kills are bounded by named
constants (`Horizon`, `MaxReceipts`, `MaxFaults`, `Timeout`, `MaxVersions`, `MaxEdits`, ...).
`Overrides`, the profiles that `fastly.toml` or `--profile` may name, are all names.

**Symmetry** is declared over the clients of `ServiceVersions` and `AccountObjects` and over the processes of
`Configuration`: nothing in these modules tells them apart, and their runs check invariants and one action
property, no liveness.

**Deadlock.** `CHECK_DEADLOCK FALSE` is set where the system really stops: the
commands of `LogTail`, the bulk modules and `Deploy` end; in `ServiceVersions`, `AccountObjects` and
`Configuration` the commands that may be started run out, or a login waits for a page
that never comes; in `Serve` the command ends or waits for a signal that nobody sends.

**Fairness.** Goroutines that can run do (the Go scheduler), timers run out and
API calls and the stream server answer, successfully or not. In `Deploy` only the
main goroutine is assumed to run; that nobody sends a signal is allowed. In `Serve`
the command, its goroutines and its timers run; files need not change, signals need not come and
a server need not end by itself. No fairness is assumed of faults or of a user, and none is strong.
`BatchesEnd` and `UploadEnds` need a weak fairness of "some goroutine" only, as
a semaphore gives it. `ServiceVersions`, `AccountObjects` and `Configuration` state safety
only: what ends a command there is an API or a browser.

## 5. Proofs

Eight modules, one per component, prove safety for every value of the constants under the named
assumptions of the modules: `LogTail_proof`, `KVStoreEntry_proof` (deletion and upload),
`ConfigStoreDeleteAll_proof`, `Deploy_proof`, `AccountObjects_proof`, `ServiceVersions_proof`,
`Serve_proof` and `Configuration_proof`. Each property has an inductive invariant, shown to hold
initially and to be kept by every action. Type correctness is part of these invariants. No theorem uses
the bounds of the runs: clocks, faults, edits, kills and the like are any numbers.

* **LogTailOutput**: any requests, sequence numbers, batches, sort buffer and
  bounds. The invariant adds to `OneTimerPerRequest` that the receipts of a request
  are in the order of their times, that a buffered log lies below the high sequence of a receipt
  no younger than itself (`LogsCovered`), and that the timer of the head receipt is
  due no later than that receipt's time plus the sort buffer or now. Without the
  cover, `NoLogStranded` is not inductive: nothing would say why `receives[1:]`
  is not empty when logs are left behind. `Refinement` shows that every step of the loop is a
  step of `SortBuffer` or a stutter. `SeqNumsAssumption` says that a non-empty set of
  sequence numbers has a highest one, as Go integers do.
* **LogTail**: any stream (`PublishedAssumption`: windows of batches), any faults. `LogsConserved` is
  inductive once it is said that what `tail` scans and has sent are batches of the stream (`StreamTyped`).
  `NoBatchSkipped` is not: nothing in it says where `tail` stands in the stream. `SentInOrder` says that exactly
  the batches up to `lastBatchID` of the current window have been sent, and `ReadsOn` that the path
  asks for what follows, and that the lines still to be scanned are what follows, but for one
  without an ID, up to the end of the window if the connection has not broken (`Follows`). Both hold as long as
  lines parse and links lead on. The hypothesis `From >= 0` excludes a `--from` below
  `--search-padding`: counted up from a negative window, the window passes 0, and a path for window 0
  names none (`makeNewPath`). `OutputOfTail` and `TailRefinement` compose the two modules: what `tail`
  does to the output loop is a step of the loop (`TailDrivesLoop`), so that the theorems about the loop
  hold of the whole command, without `MayReceive`, the bound of the loop's own run.
* **KVDeleteAll**: any finite set of keys and any workers, capacity and page
  size. The invariant adds that an ended listing leaves nothing pending, that one
  that ended as complete leaves nothing to be listed, that
  drained workers left `keysCh` empty, and that a stopped worker or a dropped key left an error
  behind it if any is accepted. `FailuresShow` assumes `MaxErrors > 0`: the
  code reports a success over a dropped key with `--max-errors 0`.
* **KVUpload**: any files and any concurrency. A file whose goroutine has finished is in the store or among the
  errors, and the outcome is that of goroutines which all have (`FilesDone`).
* **ConfigStoreDeleteAll**: any number of items, batch size and semaphore. A batch lies within `BatchSize` of the
  item it starts at, behind the loop (`Blocks`), and batches start that far apart (`Apart`): so an item belongs
  to one goroutine, and deleting or failing a batch settles its own items only. `BatchAssumption` asks for a
  positive batch size; 0 spawns goroutines for ever.
* **Deploy**: any number of faults and any timeout. The invariant says of each
  place of the main goroutine and of a clean-up what is known there of the service,
  the ID, the store and the package: from `upload` on a new service has its backend and, if
  `[setup]` asks for a store, its link to a filled one (`Equipped`); at `activate` the package is in the
  version; at `delete` there was no service before. A filled store stays filled because
  no step empties one. `ExistingServiceKept` follows for every step. `OneFailureCleansUp` needs to know of each
  place what the service, the version and `fastly.toml` are while no signal has come and nothing, or one thing, has
  failed (`FailureKnown`): the clean-up is reached with the ID that `NewService` returned. Before the
  activation its own steps do not fail, and service and ID go; after it the delete is refused, and both stay. For
  `SignalCleansUp` it is the monitor's place that decides (`SignalKnown`): while nothing fails and no version is active,
  the service is gone exactly from its `clear` on and the ID from its `cleaned` on, wherever the main goroutine
  has got to; the main goroutine can then only fail at the deleted service, and has nothing to add. If the version
  was activated first, no clean-up gets past `delete`.
* **AccountObjects**: any clients and any commands. `ChangesAreKept` needs a rule on the
  order of the steps of a command, `ReadsFirst` (what is written back was read after the command's last
  change), and the invariant that what a client is about to write back is current, outdated by somebody
  else, or still to be read (`CopiesCurrent`). An `Overwrite` needs no rule: what it replaces is recorded, and it
  outdates every copy. `RefusalsLeaveUntouched` needs `ChecksFirst`
  (no check after a change), and the invariant that a client which has changed something has no check left to do.
* **ServiceVersions**: any clients, commands, versions and edits. `EditsAreKept` needs no rule
  at all: a client that has seen the highest version works on that one (`SeenIsChosen`).
  `BuildsOnWhatWasListed` needs `SelectsFirst` (no selection after an edit) and
  `RefusalsChangeNothing` needs `ChecksFirst`; both rest on the lemma that such an order of steps is
  kept by what a selection puts in front of the steps that are left (`Advanced`, `OrderKept`).
  `ConflictsAreRaces` needs `FreezesLast` (a command that activates, locks or stages neither edits nor
  selects afterwards), and the invariant that a client whose version nobody froze meanwhile works on one that
  is not frozen, clones it before the next edit, or has no edit left (`VersionsFit`).
* **Serve**: any flags, changes, signals and exits. Each property is about another order of the goroutines:
  which processes a place that returns has behind it (`Alone`), who may have killed the server while nobody has
  sent a signal (`Silent`: somebody is waiting to say why), which monitors a run leaves (`AllTold`). `RunsCounted`,
  that there are no more runs than changes and exits cause, keeps the runs within the range over which the
  specification records monitors.
* **Configuration**: any number of processes, names, commands and kills, and any first file. A step of a process is
  one of eight kinds (`Steps`), and every part of the invariant is proved along these. `Shape` says
  what a process knows of its profile by where it stands, and that a file which parses holds what was saved last.
  `OneDefault` is not inductive, as a file is written from a copy: `OnePlace` says the same of every copy, and that a
  legacy user is only found beside no profiles. For the tokens, a spent one on file has a process that holds its
  successor, and one in an up-to-date copy has another process that does (`Held`). An up-to-date copy has the tokens that were
  saved, but for the profile its command is about and the one it logs in for (`CopiesKept`). Profiles without a default, on file or in
  such a copy, are the doing of an update that has still to write or to ask (`DefaultsKept`).
  The assumption on the first files (`OneOf`) does not exclude the file which has profiles and a legacy user.

The rules on the order of steps are hypotheses of the theorems, not assumptions of the modules. The rows of the
tables keep them: TLC evaluates `SelectsFirst` and `FreezesLast` of all 241 rows (`RulesAssumption` of
`MCServiceVersions`), and what `ChecksFirst` and `ReadsFirst` are for, the properties `RefusedUntouched` and
`ChangesKept`, is checked of the rows themselves.

**Only model-checked**: termination (`EveryLogLeaves`, `TailEnds`,
`StopsWithAWorker`, `BatchesEnd`, `UploadEnds`, `Ends`, `SignalEnds`, `ChangeServed`), since liveness under
fairness and ENABLED are beyond the prover.

## 6. Where the code and its texts disagree

The violation runs above each refute a sentence of the repository, quoted in
`findings`. Further divergences met while modelling shape the properties, and no run is spent on them.

Log tailing, bulk commands, deployment:

* `logtail/root.go:226` says that an unparsable line leads to a new request from
  the last batch; the path is overwritten when the scan ends, and the batch is lost.
  `NoBatchSkipped` is therefore stated of streams without such lines.
* `logtail/root.go:155`: with `--to`, `Exec` returns as soon as `tail` is done; what waits in
  the sort buffer is never printed. `LogsConserved` bounds what is lost to that.
* `kvstoreentry/delete.go:160`: with `--max-errors 0` the key that failed is recorded
  nowhere and the command reports success. `NoFailureHidden` is checked and
  proved for one accepted error or more.
* `kvstoreentry/delete.go:177`: a page that cannot be listed ends the listing like the
  last page, and "Deleted all keys" is printed. `CompleteListingEmpties` is stated of complete listings.
* `kvstoreentry/create.go:272`: `wg.Done` runs before the file is counted; the
  number printed may be short, and wrap around when failures are subtracted.
* `compute/deploy.go:382`: an error of the lookup by name is not handled: the command
  goes on as if there were no service and offers to create one.
* `compute/deploy.go:602` skips the error of saving the service ID "if --package flag
  is set"; `Setup` always sets the path tested (line 392), so it is skipped always.
* `compute/deploy.go:208`: the clean-up knows the new service only once
  `NewService` has returned; a signal before leaves it. `InterruptCleansUp` is
  stated of signals that find the ID.
* `compute/deploy.go:716` (`CleanupNewService`) does not deactivate the version it undoes: a failing `ListDomains`
  (line 305) or a Ctrl-C in the status check (lines 310-312) comes after the activation, the API refuses
  the delete (as `service/delete.go:35,63-96` knows), and the service and its ID stay. Both clean-up properties say so.
* `compute/setup/domain.go:196`: the error has been wrapped when its type is tested, so a domain
  taken "by another customer" is never asked for again: the deployment fails.
* `undo/undo.go:62` says FIFO; functions run last to first, and `RunIfError` and
  `Unwind` do not pop.

Objects of an account:

* Updates that overwrite what they have not read: `domain/update.go:39,49` ("omit to unset": an update of the
  description unlinks the service), `service/alert/update.go:105-118` (integrations and dimensions are
  sent empty unless given), `ngwaf/rule/update.go:81-207` (the rule comes whole from a file), and their likes
  (section 3). `ChangesKept` is stated of everything else.
* The items of a dashboard are written back from a copy: of two clients at once, the later write undoes
  the earlier one.

Local server:

* `exec/exec.go:163`: a Ctrl-C before the process is known is dropped, and the server starts.
* A change before the process is known blocks its handler on the restart
  channel; a Ctrl-C later is then taken for that restart.
* Two signals on top of each other fill `s.SignalCh`, and `local()` hangs if it wants to
  tell the monitor something at that moment. `SignalEnds` leaves that case out.
* A change made while the project is rebuilt is not noticed.
* Pushpin's configuration file stays behind if its routes file cannot be written; a command that dies
  of a signal it does not catch leaves Viceroy running; a server that ends by itself leaves
  a monitor listening (`exited` in `MonitorsTold`).
* With Pushpin, SIGHUP and SIGQUIT end Pushpin only (`serve.go:974`), and the server goes on without it.

Installation: `commands/install`, when it has to copy the binary, leaves out the `chmod` with which
`commands/update` (`update/root.go:142`) makes the copy executable.

Configuration, profiles, login:

* An empty file, torn by a crash or read in the middle of a write, is taken for a valid one, and
  written back without a profile. `OthersKept` does not speak of a process that read it.
* If a file is not TOML at all and the user accepts a new one, `f = &staticConfig` changes
  only the local pointer, and `NeedsUpdating` then panics. If it is TOML but no configuration, the embedded
  one is written, without the profiles, and the command goes on (what had been decoded is dropped by the model).
* `sso/root.go:230`: with a `profile` x in `fastly.toml` (or `--profile x`), the login of `profile create --sso`,
  `switch`, `update` or `sso` for y replaces the tokens of x and makes x the default, while the command
  reports y; `profile create --sso` then creates no profile. `OthersKept` therefore names both profiles.
* Of two processes at once the later write undoes the earlier (`"stale"`).
* `config/config.go:340` means to "avoid overriding the default"; a legacy user beside existing
  profiles leaves two defaults, and overwrites a profile called "legacy". `OneDefault` excludes
  such a file (`"hybrid"`).
* `profile update`: for a static token, no to the question leaves the default profile
  without that mark; for SSO it becomes the default whatever the answer.
* `sso` without any profile fails with "profile 'user' does not exist", although
  `identifyProfileAndFlow` has a flow that creates one.
* A token check that fails after `RefreshAccessToken` loses the new refresh token
  (`"unsaved"` in `TokensAccepted`).
* `sso/root.go:152`: of two logins at once the second, whose port is taken, may wait for ever, and its page
  makes the first one fail.

## 7. Not modelled

Every part is in `components` with its reason. In short:

* `commands/alias`: some 300 deprecated names, each a notice and a call of the command it renames.
* Compute build, publish, init, pack, validate and metadata: scripts and files one after another; the
  toolchains are external programs. `Serve` has the build as one step that may fail.
* The manifest file beyond the service ID, the error log, updates and installs: sequential work
  on a file, without a property that a test would not reach.
* `stats realtime`, an endless loop of one request; `--file` of `compute serve`; the contents of what the API calls send.
* Registration and parsing of flags (`commands.go`, `pkg/app`), help texts, terminal
  input and output, spinners, API types, test doubles and packaging carry none of the behaviour above.
