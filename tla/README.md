# A verification project for clash-web

clash-web is a web panel for the mihomo proxy core. An unprivileged **server**
(`internal/app`) talks to browsers, keeps profiles and sessions in SQLite, and
asks a privileged **helper** (`internal/helper`) to validate configurations, to
install them and to run the core. This directory holds TLA+ models of the
program, the TLC configurations that check them and TLAPS proofs about them.
`PROJECT.json` lists runs, mutants, hazards and the source lines behind every
definition.

## 1. Inventory

| Component | State | Operations | Who it meets | Module |
|---|---|---|---|---|
| Core supervisor (`helper.go`: `manager`, `Run`) | `m.cmd`, `m.done`, the core processes, delayed restarts, the helper's context | `start`, `stop`, `wait`, `action`, restore at boot, shutdown | every handler that changes the core | `Supervisor` |
| Configuration switch (`helper.go`) | `candidate.yaml`, `active.yaml`, `active.previous.yaml`, `overrides.yaml` | `activate`, `updateCurrentConfig`, `patchConfig`, `activatePrepared` | the supervisor; the core, which validates and reads the files | `ConfigSwitch` |
| Cores and GeoData (`maintenance.go`) | installed binaries, `selected-core`, GeoData files, `maintenanceMu` | `updateCore`, `selectCore`, `updateGeoData` | supervisor, active file, GitHub | `Maintenance` |
| Profiles (`server.go`, `store.go`) | `profiles` rows, one with the active flag | create, refresh, update, activate, delete | helper over IPC, subscription download | `Profiles` |
| Sessions (`auth.go`, `server.go`, `store.go`) | administrator row, `sessions`, the initial password file | first start, login, logout, change and reset of the password | browsers, the operator's `reset-password` | `Sessions` |
| Login limiter (`server.go`) | attempts per address | `allowLogin`, `recordLogin` | login | `LoginLimiter` |
| Merging and provider paths (`helper.go`, `server.go`) | none (pure) | `mergeMaps`, `mergeConfigMaps`, `prepareDocument`, `sanitizeProviderPaths`, `currentSettings` | the configuration switch, the status | `ConfigMerge` |
| Settings page (`ui/src/App.tsx`, `server.go`: `status`) | the form, the last status, a save under way | poll, edit, save | server, core, helper | `Settings` |
| Live streams (`ui/src/App.tsx`: `useLiveStream`, `server.go`: `websocketProxy`) | sockets, timer and effect in the page; two connections per handler | connect, relay, close, reconnect | browser, mihomo, status | `Streams` |
| Downloads, server configuration, the rest of the web UI, read-only endpoints, IPC listener, static assets, packaging | - | - | - | not modelled (section 6) |

What is hard in it:

* **Concurrency.** The helper serves every request on its own goroutine.
  `manager.mu` covers only `start()`, the first half of `stop()` and the second
  half of `wait()`; nothing covers a configuration request; `maintenanceMu`
  covers maintenance only. Delayed restarts run beside all of them. The server
  calls the helper with a five minute limit and may retry while the first
  request is still at work.
* **Failure.** The core may exit at any time, refuse its configuration, ignore
  SIGTERM; exec and writes may fail; errors of backup and restore are ignored.
* **Crashes.** Helper and server may end between any two file operations; the
  files and the database stay.
* **Staleness.** Values are read before a slow operation (validation,
  download, the five second stop) and used after it; the page works on a
  status that is up to five seconds old and may be put together from failures.
* **Independent ends.** Core, server and page come and go by themselves; a stream
  between them is closed by each at a time of its own.

What makes each component correct:

* *Supervisor*: no core lives that the manager does not know of; what it calls
  running is; a stop does not bring the core back by itself; a stopped core
  goes; a core that fails comes back.
* *Configuration switch*: only what the core accepted becomes active; a failed
  activation leaves the previous configuration; what runs is what is active;
  saved settings stay in force; every request is answered.
* *Maintenance*: the selected core exists and accepted the active file; a failed
  update leaves the old core; GeoData is of one release.
* *Profiles*: at most one marked active, the one the helper runs; a deleted
  profile stays deleted.
* *Sessions*: nobody is locked out; a password nobody chose has to be changed, and
  the file holds it until then.
* *Login limiter*: failures in a window are bounded although admission and record
  are not atomic; a lock ends.
* *Merging and settings page*: what the helper fixes stays fixed; what was saved
  stays saved and in force through every later merge; a save changes what the user
  changed and what the form cannot show; a poll does not take away what the user enters.
* *Live streams*: one socket at a time, none after the page is left; data comes back
  when everything is up again; no handler outlives its browser.

The full list of hazards, each with its line and the property that covers it or
the reason why none does, is `hazards` in `PROJECT.json`.

## 2. Modules

### Supervisor

The manager and its processes. `cmd` is `m.cmd`; `m.done` needs no variable: it
is set and cleared with `m.cmd` and is closed exactly when the process's slot is
`"done"`. Each `exec.Cmd` is a slot of `Procs`, used again when no goroutine
refers to it, so a run bounds how many processes exist *at once*, not how many
there ever are. `proc` joins the process and its `wait()` goroutine.

| Action | Code |
|---|---|
| `StartOK` / `StartError` | `start()`, one critical section; `ExecMayFail` allows `cmd.Start()` to fail |
| `StopTake`, `StopTerm`, `StopDone` / `StopKill`, `StopNothing` | `stop()`: take `m.cmd` under the lock, signal, wait for `done` or five seconds and kill |
| `Wait` | `wait()` after `cmd.Wait()`: close `done`, forget the process *if it is still the tracked one*, arm a restart |
| `RestartFires` / `RestartCancelled` | the goroutine that restarts a second later |
| `Request`, `ActionStart`, `ActionStop` | `POST /v1/core/{start,stop,restart}` |
| `Restore` | what `Run` does before `Serve` |
| `Cancel`, `CloseListener`, `Drain`, `ShutdownStop` | the signal context and the shutdown goroutine |
| `HelperExits`, `HelperCrashes`, `Boot` | the helper ends while that goroutine may be anywhere; it starts again |
| `CoreExits` | external: mihomo exits |

`Boot` assumes that no core of the previous helper is alive: systemd kills the
unit's control group, and in the container image the helper does not come back
without the container. Times are abstracted to order: a timeout may fire
whenever its goroutine waits.

### ConfigSwitch (extends Supervisor)

The requests that change the configuration, run by goroutines `Others` (here
`Editors`) over the supervisor's own `start` and `stop`. Every file operation is
a step, `os.WriteFile` two (truncate, write), and an open file follows a rename
as it does on Unix (`fd`). A configuration is a document and the values of the
settings overrides can hold; nested maps are flattened to keys. `Torn` stands for a
truncated file, which the core refuses (mihomo refuses an empty one), but which
`readYAMLMap` reads as an empty map without an error: a patch goes on from there with
the overrides alone (`Found`). The core
reads `active.yaml` some time after it is started (`CoreLoads`); `loaded` is what
it read. `job` holds a handler's locals and, for one property, what was active
when the request came.

The code ignores some errors, and a request may be cut short. The history variable
`trouble` records what that leaves behind, until it is made good: `"backup"` (the last
backup failed), `"restore"` (a restore was cut short or had no good backup),
`"unsaved"` (settings took force and were not saved to the overrides), `"late"` (a core
was started between a failed start and the restore, and still runs). A backup that
works clears the first; an activation that works, whatever it was prepared from, has
the overrides merged into it and clears the next two; the exit of the core, the last.
So the properties hold through every failure that is not in the set, and again
after what makes it good.

| Action | Code |
|---|---|
| `Upload`, `Patch`, `MergeActive` | `activate`, `updateCurrentConfig`, `patchConfig` up to `activatePrepared` |
| `OpenCandidate`, `WriteCandidate`, `Validate` | write and test `candidate.yaml` |
| `OpenBackup`, `WriteBackup`, `RenameCandidate` | the backup, its error ignored, and the switch |
| `StopCore`, `StartCore` | `stop()` and `start()` |
| `OpenActive`, `OpenActiveFails`, `WriteActive`, `StartAgain` | the restore, its errors ignored |
| `WriteTmp`, `RenameTmp` | `atomicWrite` of the overrides |
| `Manager`, `Ends`, `CoreLoads` | the steps of `Supervisor`; the helper ends; the core reads its file |

Left out: requests refused before they touch a file; the other goroutine's
half-written `overrides.yaml.tmp` (its writing is one step); removal of settings,
which the code does not have.

### CoreService (abstract)

What the supervisor promises, without its lock, channels and timers: a `current`
core or none, and a set of cores that are `leaving`. `Appoint`, `Dismiss`, `Lose`, `Gone`
and `End` are its steps. `Supervisor` implements it with `cmd` as `current` and every
other uncollected process as `leaving` (both empty while the helper is down):
`ImplementsService` is that refinement with the fairness of `Gone`. It excludes that
a core which was told to go becomes current again, that a second one is
appointed beside the first, and that one disappears from both places.

### ConfigService (abstract)

What the configuration handlers promise together: one configuration is `current` and
some settings are `saved`; an upload or a patch replaces the configuration in one step
or not at all, always with the saved settings in it. `ConfigSwitch` implements it for one
editor whose writes work: `current` is `active.yaml`, but what was before while the
editor that renamed the candidate has not yet been able to start its core (or save
its settings) or to undo it; `saved` is `overrides.yaml`.

### Activation (abstract)

What an activation is to the rest of the helper, which reads `active.yaml` at times of its
own: the core accepts a candidate, the candidate takes the file's place by a rename, and it
stays or what was active comes back. `ConfigSwitch` maps a file that a restore is writing
to what will be in it (`ImplementsActivation`, `SwitchActivates` in section 4). `Maintenance`
instantiates the module for all that happens to the file beside its own handlers: what is
assumed there is this module itself, word for word what the switch was shown to implement.

### ConfigMerge and Settings

`ConfigMerge` has configurations as maps of leaves and maps, two levels deep, as deep as
the settings of the panel go, and the functions on them. `Settings` is the page over
them:

| Action | Code |
|---|---|
| `Poll`, `Answered`, `PollFails` | the status query and the server's `status`: the core's answers, and the helper's settings merged over them unless that request fails |
| `Edit`, `StartSave` | the fields; `saveCore`, which sends all of them and what the seen configuration has beside them in `tun` and `dns` |
| `SaveArrives`, `OthersPatch` | `patchConfig` up to `activatePrepared`: reads both files and merges, for the page or for another client |
| `Upload` | `activate`, `updateCurrentConfig` up to the same point: reads the overrides and merges them in |
| `UploadInstalls`, `PatchInstalls` | `activatePrepared` succeeds |
| `WriteOverrides` | the last write of `patchConfig`, and what the page does with its answer |
| `JobFails`, `SaveFails` | the request is refused, fails or is cut off; its answer is lost |

`Answered` fills the form again only if the configuration differs from the one before:
the query library keeps the old object when an answer is structurally equal, and the
effect depends on the object. `Shown` and `Sent` are what a field shows of a value and
what a save makes of what it shows (`String(v || '*')`, `Boolean(v)`, `Number(v || 7890)`): neither
gives back every value it gets. In the run an empty bind-address shows as `*`, and the next save of
any other field writes that, which `SaveKeepsRest` says.

The `Handlers` of the helper are not locked: one reads the files and merges, installs the
result seconds later, and writes the overrides after that, while another does the same, so that
a setting the other has saved meanwhile can be lost. The reads before the merge
are one step here, and an installation is one that works or changes nothing: what is between its
steps is `ConfigSwitch`'s subject. `Accepts` stands for the core, `CoreAnswers` for what it says of
itself. A path is inside the runtime directory or outside; cleaning of paths and YAML are
left out.

### Streams

One use of the hook `useLiveStream`, the handlers of `websocketProxy` that serve it, the
polled status that enables it, and the lives of core, server and page. An effect's
`closed`, `timer` and `socket` are those of the closure; effects and connections are slots,
used again when nothing is left of them, so a run bounds how many exist at once.

| Action | Code |
|---|---|
| `RunEffect`, `Cleanup` | the effect and the function it returns |
| `TimerFires`, `Opens`, `Closes` | `connect` again; the socket's events |
| `Admit` | `authenticate`: a handler is let through, or answers 401 and ends |
| `Dial`, `Accept`, `Relay`, `Lost` | `websocketProxy`: dial the core, accept the browser, copy until a read or a write fails |
| `SessionChanges` | the session expires or is ended, or the user logs in again |
| `Polls`, `Answered`, `Shows` | the status, which needs the session too, says late whether the core is there; the user opens, leaves, pauses |
| `CoreStarts`, `CoreEnds`, `ServerStarts`, `ServerEnds` | either ends and starts at any time |

The first write after the browser has gone still works, the next one fails. A handler once
admitted does not ask for the session again. Messages have no content. One topic is modelled; the second differs in its name.

### Profiles

The `profiles` table and the handlers of `server.go` that write it. The store has one
connection, so each statement and the transaction of `ActivateProfile` is a step;
between two of them a handler downloads or waits for the helper, for any time.
`local` is the `Profile` a handler has read. Of the helper there is whose configuration
`active.yaml` (`running`) and `active.previous.yaml` (`previous`) hold, and `edit`, what another client
is about to install there.

| Action | Code |
|---|---|
| `Create`, `Delete` | one statement each |
| `UpdateRead`/`UpdateWrite`, `RefreshRead`/`RefreshWrite` | read the row; save it by id after the body or the download has arrived |
| `ActivateRead`, `Send`, `Flag` | read the row, ask the helper, set the flag |
| `HelperSwitches`, `HelperRefuses`, `HelperFails` | `activatePrepared` works; ends before its rename; fails or is cut off after it |
| `GivesUp`, `Restart` | the client's five minutes; the server ends and starts: what the helper was asked goes on |
| `EditBegins`, `EditEnds` | `PUT /current-config`, a configuration that is no profile's, or `PATCH /config`, the same profile's with other settings |

`FailsAfterRename` is the answer that leaves something else than it found: without a
backup the new file stays, and a backup or a restore whose copy fails leaves an older file or
half of one; the server sets no mark in any of these cases. What two requests at the helper at
once do to each other is `ConfigSwitch`'s subject; here they are only on record in `parted`.
Names, time stamps and requests refused before they reach the store are left out.

### Sessions

The administrator's row, sessions and the `bootstrap-password` file, under three kinds
of process: the server's start (`FirstStart`, `WriteBootstrap`, `LaterStart`), its requests
(`Login`, `OpenSession`, `CloseSession`, and a password change in three steps: the
gate, `ChangeEnters`; reading and verifying, `ChangeVerifies`; the `UPDATE`,
`ChangeSaves`) and the command `reset-password` (`ResetWrites`, `ResetEndsSessions`,
`ResetShows`). A hash stands for the password it verifies; `known` is a history variable:
the passwords somebody chose, was shown or can read. One `reset-password` runs at a
time, and its `UPDATE` with the `INSERT` for a missing user is one step. Cookies, CSRF
tokens and the gate in front of other requests change no state and are left out.

### LoginLimiter

`loginAttempts` of one address (addresses are independent) as slots with ages in
place of times. `Admit` / `Refuse` are `allowLogin`, which prunes in either case, `Fail` is
`recordLogin`; other logins come between, while a password is verified.

### Maintenance

The three handlers under `maintenanceMu` and the functions they share. A handler's
`pc` names what it does next, `job` its locals; `installed`, `previous` and `tmp` are
`cores/<tag>/mihomo` and its two neighbours, `selected` the file `selected-core`.

| Action | Code |
|---|---|
| `UpdateEnters`, `WriteTmp`, `TryBinary`, `TryActive` | `updateCore` up to its first rename: download (an outcome), write, `-v`, `-t` |
| `MoveAside`, `Publish`, `UndoRename`, `Answer`, `Tidy` | the renames, their way back, and the end |
| `UndoStop`, `Remove`, `UndoRename`, `LastStart` | the new core could not be selected |
| `SelectEnters`, `Choose`, `SelectStop`, `Record`, `SelectStart`, `Unrecord`, `StartBefore` | `selectCore`, alone or at the end of an update |
| `GeoEnters`, `WriteGeo`, `GeoStop`, `LastStart` | `updateGeoData` after its downloads |
| `OthersStart`, `OthersStop` | delayed restarts, core actions, activations, a core that exits |
| `EditAccepted`, `EditRenames`, `EditEnds` | the steps of `Activation`: validation, rename, and restore of the backup or not; one whose rename fails ends before it |
| `Ends`, `Boot` | the helper ends anywhere and starts again |

Every file operation, every test run and every start may fail. The manager is
reduced to what `CoreService` shows of it: `start()` and the effect of `stop()` on
`m.cmd` are single steps (`EditorsKeepService`: handlers that call them beside each other do not
change that). An activation is `Activation`, whose steps are those of its actions, and only one is
under way at a time: two at once are `ConfigSwitch`'s subject. The removal of a refused `mihomo.tmp` always works (the
next update writes it over), and a test run ends: `-v` has no time limit in the
code, which is listed as a hazard. Archive, checksum and the choice of the asset are
the input of `UpdateEnters`.

### History variables

Some properties hold only until something the code does not guard against has
happened. Rather than forbid it, the models let it happen and remember it:
`trouble` in `ConfigSwitch` (above); `parted` in `Profiles` (requests overlapped at the helper, an
activation was interrupted or lost its mark, or a failed start was not undone), which an activation
that succeeds and is marked, and beside which nothing was at the helper (`alone`), clears;
`apart` in `Settings` (handlers were at work at once, or settings took force and were not
saved), which a handler that has done its work with no other beside it (`alone`) clears;
`trouble` in `Sessions` (a failure half way, an
overlap; `reset-password` clears it) and in `Maintenance` (`"core"`: an error was ignored
or the helper ended half way; `"geo"`: the same for GeoData; `"edit"`, `"overlap"`: an
activation is under way, or ran beside maintenance; an activation or a GeoData
update that nothing disturbed clears its part; `"start"`: the core was started in the
middle of a selection). `fresh` in `Settings` marks an answer, and a save made from it, while the
helper's part of it is what the active configuration holds; a save also records which fields
showed something else than that configuration. `job.force` and `job.spoiled` in `Maintenance`
and `prior` in `ConfigSwitch` record what a request found and whether it ignored an error.
No guard reads any of them.

`MCSupervisor`, `MCConfigSwitch`, `MCMaintenance`, `MCProfiles`, `MCSessions` and `MCSettings` give
values to the constants and define the symmetry sets; `LoginLimiter` and `Streams` need none.
`SupervisorProofs`, `ConfigSwitchProofs`, `MaintenanceProofs`, `SettingsProofs`, `StreamsProofs`,
`ProfilesProofs`, `SessionsProofs` and `LimiterProofs` hold the proofs.

## 3. What the runs check

| Run | Instance | Properties |
|---|---|---|
| `supervisor` | two core actions, three processes, with and without an active file, crashes, fair | `SupTypeOK`, `NoStrayCore`, `TrackedIsLive`, `NoRestartOfStopped`, `StoppedCoreDies`, `CoreRevived`, `ImplementsService` |
| `switch_crash` | one editor, two documents of which the core refuses one, a setting with two values that every accepted document sets (`EmptyDoc` is the accepted one); exec and writes may fail, the helper ends anywhere | `ConfTypeOK`, `ActiveIsAccepted`, `OverridesInForce`, `FailureKeepsPrior` |
| `switch_exec` | one editor and one core action, exec may fail, fair | `StaleCoreIsReplaced`, `ImplementsConfigService`, `ImplementsActivation`, `RequestsEnd` |
| `switch_race` | two editors | violates `ActiveIsAccepted` |
| `overrides_race` | two editors | violates `OverridesInForce` |
| `maintenance` | two maintainers, one tag, three binaries of which one does not run, two configurations, two GeoData files and releases | `MaintTypeOK`, `InstalledHasRun`, `FailureKeepsCore`, `CoreTakesActive`, `GeoIsLoaded`, `SwitchedIsRunning` |
| `settings` | one page and another client, two handlers at once; a plain setting and a map with a field and a hidden part, a fixed key, a provider | `ActiveIsPrepared`, `OverridesApplied`, `SavedIsInForce`, `SaveKeepsRest`, `EditSurvives`, `SavedStaysSaved` |
| `streams` | one hook, two effects and two connections at once, a session that comes and goes, fair | `OneStream`, `StreamRecovers`, `HandlersEnd` |
| `profiles` | two requests of any kind and one edit at once, two profiles ever, restarts, lost answers, failing starts and copies, a failing store | `ProfTypeOK`, `AtMostOneActive`, `DeletedStaysDeleted`, `FlagMatchesHelper` |
| `sessions` | two requests and `reset-password`, four passwords; processes end and writes fail anywhere | `SessTypeOK`, `ForcedUnlessChosen`, `PasswordKnown`, `BootstrapOpens` |
| `first_password` | failures | violates `FirstPasswordInFile` |
| `limiter` | two logins at once, limit 2, window 3, four slots, fair | `FailuresBounded`, `LockLifts` |

The three violations are disagreements between the code and what it says of
itself; `findings` quotes both sides. In short: the first password is lost when the
server ends before it has written it; and the switch of a configuration is correct for
**one editor at a time**, and the code does not enforce that (`switch_race`,
`overrides_race`). Smaller gaps, which no document denies, are exceptions written into the
properties and listed under `hazards`: among them that a selection may answer that it
has switched while a restart in its middle has started the core before, that a first
activation whose core cannot be started stays active and unmarked, and that a save writes the
default a field shows in place of an empty value. That two patches at once lose each
other's settings is the same disagreement as `overrides_race` shows for a patch and an upload.

**Bounds and why they are enough.** Two callers beside the timers and the
shutdown goroutine show every pairwise race for `m.cmd`; three processes let an
old one be collected, one be in the hand of a stop and a third be tracked. One
accepted and one refused document separate validated from unvalidated files; one
setting with two values tells stale overrides from current ones. Two maintainers
are one that holds `maintenanceMu` and one that waits, or comes after it; one tag
makes them meet at the same files; of the binaries one does not run and one
refuses a configuration, and the bundled core refuses the other. The optional GeoData file is
absent from the run (`Optional` is empty; the proof has it). `MaxId`
bounds how many profiles are ever created: of two, one can be marked or deleted while the
other is created or activated, each may be in force or in the backup, and two requests show every
pairwise interleaving of handlers. Four passwords let a first, a chosen and two reset ones differ, and two
tokens bound sessions open at once. The limiter's limit (8 in the code) is two and
its window (ten minutes) three; one slot more than its bound allows is always
there, so no failure goes unrecorded. The `settings` run has one key of each kind the code
treats differently: a leaf the form shows, a map with one part the form shows and one
it does not, a fixed key, a key with paths; one of its values is shown as another. Users upload a
full document and one with a forbidden path, the other client sends a part of a map and such a
path; two handlers show every pairwise interleaving; the core always answers, and always the same,
since a failed answer only disables the button. In `streams` the second effect begins while the socket of
the first is still closing, and the second connection while a handler of the first still
runs. What a bound might hide is proved without bounds for most of the safety
properties (section 4).

**Fairness.** Weak fairness for each goroutine's own steps (the Go scheduler runs
what can run, `time.After` fires, validation is bounded by its 90 seconds), and
for the exit of a process that was sent SIGKILL. None for requests, for the exit of a
process that got SIGTERM only, for what the core does, or for the end of the helper. In
`LoginLimiter` time passes, and nothing else is assumed. In `Streams` timers fire, events
arrive, polls go on, goroutines run, and an open stream carries another message
sooner or later: mihomo sends traffic every second, but logs only when there are some, so that
`HandlersEnd` says nothing of the handler of a log stream that stays silent. Nothing is
assumed there of the user, of the session or of the lives of core and server;
`StreamRecovers` speaks of behaviours in which they come to rest.

## 4. What is proved

`SupervisorProofs` proves for all `Calls`, `Others`, `Procs` and `Configs`, from
`ThreadsAssumption` (the sets of goroutines are disjoint, `Nil` is neither a
process nor a file's contents):

* `TypeCorrect`: `SupSpec => []SupTypeOK`
* `NoCoreEscapes`: `SupSpec => []NoStrayCore`
* `StatusIsHonest`: `SupSpec => []TrackedIsLive`
* `StopArmsNothing`: `SupSpec => []NoRestartOfStopped`
* `ServiceImplemented`: `SupSpec => Service!SvcSpec`, the refinement without fairness

The invariants are not inductive one by one. That `wait()` may forget the
tracked process needs `TrackedIsLive` (nobody else holds it), and that a launch
does not disturb an armed restart or a goroutine inside `stop()` needs the slot it takes
to be nobody's. `SupInv` adds two facts: an armed restart belongs to a process that
has been collected (`ArmedIsDone`), so the tracked process never has one, and a
helper that is down has no manager state (`DownIsEmpty`), so a boot starts from
nothing. The proof has one lemma for `start()` (`StartKeeps`), one for `stop()`
(`StopKeeps`) and one for steps that touch neither, all independent of the
caller, and one step per action above them.

The lemmas are stated over `ManagerInv`, the part of the invariant that does not speak of
the callers' labels, so that they hold beside the editors of `ConfigSwitch` too.

The refinement needs the same invariant and follows the same cut: one lemma for what
`start()`, `stop()` and `wait()` do to `current` and `leaving`, one step per action.

`ConfigSwitchProofs` proves for all documents, settings, processes and callers, from
`ContentsAssumption`, and for **any number of editors** with every failure and crash:

* `SwitchTyped`: `ConfSpec => []ConfTypeOK`
* `NoCoreEscapesEditors`: `ConfSpec => []NoStrayCore`
* `EditorsKeepService`: `ConfSpec => Service!SvcSpec`: editors are callers of `stop()` and
  `start()` like any other, so that a module that is not about the manager may take it for
  `CoreService` (`ManagerKeptByEditors` adds `TrackedIsLive` and `NoRestartOfStopped`)

and for one editor (`OneEditor`), with every failure and crash:

* `ActiveStaysAccepted`: `ConfSpec => []ActiveIsAccepted`
* `NoStaleCore`: `ConfSpec => []StaleCoreIsReplaced`
* `SettingsStayInForce`: `ConfSpec => []OverridesInForce`
* `FailureUndone`: `ConfSpec => FailureKeepsPrior`

and if moreover writes work and the helper ends only between requests (`Reliable`):

* `SwitchIsAtomic`: `ConfSpec => ImplementsConfigService`
* `SwitchActivates`: `ConfSpec => ImplementsActivation`

The invariant follows what is active through the labels of the editor, one part per
question: which file it has open at each label (`Phases`), that the candidate
was accepted from its test to its rename (`AllSafe`), that the core has loaded what is
active (`Fresh`), what the backup holds and what was there before (`AllUndo`), what the
new configuration is made of (`AllMade`), that a request found a whole file unless a cut-short
restore is on record (`AllWhole`), and that the saved settings are in both of them (`AllOver`). Each part has a lemma for the editor's steps, which are split by label, and
shares one for the steps of everybody else (`Bystands`). That two editors break it is
what `switch_race` and `overrides_race` show.

`SettingsProofs` proves for all maps, keys, uploads, patches and answers, from `MergeAssumption`,
`SettingsAssumption` and `NilIsNoRecord`: `SettingsWellTyped` (`SettingsTypeOK`), `AlwaysPrepared`
(`ActiveIsPrepared`), `AlwaysApplied` (`OverridesApplied`), `NothingSavedIsLost` (`SavedStaysSaved`),
`SavesTakeForce` (`SavedIsInForce`), `SavesKeepTheRest` (`SaveKeepsRest`) and `EditsSurvive`
(`EditSurvives`). They rest on lemmas about merging: what a patch sets is in the
result, what was set stays set, and merging in either of the two orders the code uses puts
the overrides last. `PageInv` says that a fresh answer, and a save made from one, agree with
the active configuration, value by value as the form shows them; `WorkInv` what each handler
holds: what it has merged is still based on the files as they are while nobody has been
beside it (`AloneHolds`), and has its own overrides in it whoever has (`JobsReady`). `NothingSavedIsLost`
speaks of every patch that no other request was beside, whatever happened before; two at once
do lose settings, and the theorem excludes exactly those.

`StreamsProofs` proves `StreamsTyped` and `AlwaysOneStream` for any number of effects and connections.
`OneStream` is inductive with three facts more: one effect runs at a time (`OneRuns`), a live socket
is the last one of its effect, which is what lets the cleanup find it (`LastSocket`), and a
closing one belongs to an effect that was cleaned up (`Closing`).

`LimiterProofs` proves `LimiterTyped` and `FailuresStayBounded` (`FailuresBounded`) for any limit, window and
number of logins: failures on record and those that logins under way may still add stay
below the limit and the number of logins together (`FailuresToCome`).

`ProfilesProofs` proves for all `Requests`, `Docs`, `Urls` and every `MaxId`, from
`ProfilesAssumption` (`Nil` is no row, document or url):

* `ProfilesTyped`: `ProfSpec => []ProfTypeOK`
* `OneActive`: `ProfSpec => []AtMostOneActive`
* `DeletionIsFinal`: `ProfSpec => DeletedStaysDeleted`
* `MarkFollowsHelper`: `ProfSpec => []FlagMatchesHelper`

The first three rest on `TableStep`: whatever a step is, it writes the table in one of
three ways (no new row and no flag changed; at most the next id's row new and
unmarked; one row marked and all others not). The fourth needs two inductive facts
more: ids in use are older than `next`, so that a new row is not taken for what
runs (`IdsAreOld`), and between the helper's switch and the mark of an activation that is
alone it is the profile to be marked that runs (`AloneInv`, `MatchInv`). `FailedIsUndone` is the
step the property hangs on: a failed start either brings back whose configuration was active, or
is on record.

`SessionsProofs` proves for all `Requests`, `Passwords` and `Tokens` `SessionsTyped`,
`UnknownIsForced` (`ForcedUnlessChosen`), `NobodyLockedOut` (`PasswordKnown`) and
`BootstrapIsCurrent` (`BootstrapOpens`). All rest on `AdminStep`, the three ways a step
writes the user. The last two are inductive once the goal "known" or "in the file" is
widened by "about to be, by the process that set it": `KnownOrComing`, `FileOrComing`.

`MaintenanceProofs` proves for all sets of maintainers, tags, binaries, configurations and
GeoData files, from `MaintenanceAssumption`:

* `MaintenanceTyped`: `MaintSpec => []MaintTypeOK`
* `InstalledCoresHaveRun`: `MaintSpec => []InstalledHasRun`
* `GeoDataIsLoaded`: `MaintSpec => []GeoIsLoaded`
* `SelectedCoreRuns`: `MaintSpec => SwitchedIsRunning`
* `FailedMaintenanceKeepsCore`: `MaintSpec => FailureKeepsCore`
* `ActiveIsTaken`: `MaintSpec => []CoreTakesActive`

All of them rest on mutual exclusion: who holds the lock is the only one at work
(`Exclusive`). Beyond it, each has an inductive part of its own:

* *Installed cores*: what has passed the `-v` test is still what lies in `mihomo.tmp`
  (`Tested`), and `mihomo.previous` has run too.
* *GeoData* (`GeoInv`): an update half way has written files of its own release only; at any
  other time all files are of one release and are what the running core has loaded, unless a
  failure is on record.
* *Selection* (`RunInv`): between the stop and the record nothing runs, and after it only the
  core in force, unless a start in between is on record.
* *Failures* (`WayBack`): at every label a handler knows a way back, a function of what it
  has set aside: the files it would leave (`FilesBefore`), the choice (`ChoiceBefore`), and
  the core these put in force (`CoreOf`), which is the one it found when it came
  (`Returns`). `Locals` says what lies where at each label. A step either leaves the way back
  as it is, or ignores an error and is spoiled.
* *Core and configuration* (`FitsInv`): what a handler has tested since the last activation,
  and what an activation has tested since the last handler, still fits what each of them will
  put in force. It has a part for when nobody is at work (`IdleFits`), one for each side
  (`WorkFits`, `EditInv`), and lemmas by who moves and whether a handler comes, goes on or
  leaves.

TLC checked these inductive invariants on the instance of the run `maintenance` before they
were proved.

Only model-checked: liveness and the fair part of the refinements (TLAPS does not
reason about fairness here), that is `StoppedCoreDies`, `CoreRevived`, `RequestsEnd`, `LockLifts`,
`StreamRecovers`, `HandlersEnd` and `WF` in `ImplementsService`. Every safety property that a
passing run checks is also a theorem; those of the configuration switch that speak of
`active.yaml` are theorems for one editor, because two editors violate them.

## 5. Plan

1. `Profiles` over `ConfigService` instead of the helper's outcomes, with the proof that the
   outcomes modelled now are those of `ConfigService`.
2. Weaker conditions than `Reliable` for `SwitchActivates`: which failures and crashes leave
   `active.yaml` with something that `Activation` does not know.

## 6. Not modelled, and why

* **Download of releases, download of subscriptions.** One HTTP request after the other,
  checksums, and a filter of addresses: no state, nothing concurrent. What they return is an
  input of `Maintenance` and `Profiles`.
* **Server configuration** (`config.go`). One pass at start: defaults, then the file, then the
  environment. It has no state and no order a unit test does not reach.
* **Requests forwarded to the core's controller.** The server keeps nothing of them.
* **The rest of the web UI.** Pages that show what they query.
* **Read-only endpoints, IPC listener, static assets, security headers.** Plain I/O.
* **Packaging and CI.** Shell and systemd files; that systemd kills a unit's processes before
  it starts it again is an assumption of `Boot`.
