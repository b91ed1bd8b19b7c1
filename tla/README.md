# Verification of mahoquot's desktop and its agents

TLA+ modules, TLC configurations and TLAPS proofs for the stateful parts of
this repository: the Tauri desktop (`crates/monitor-ui`) that runs a local
gateway for the user, and the profile agent (`scripts/omo-profile-sync`).  The
gateway itself is the submodule `mahoquot-proxy`; its code is not here, and it
appears only as the party at the other end of a call.

Run from this directory: `tlc -config SupervisorApp.cfg GatewaySupervisor.tla`
(each configuration's module is in `PROJECT.json`) and
`tlapm GatewaySupervisorProofs.tla`.  `PROJECT.json` also maps every definition
to the lines it models.

## 1. The system

| Component | State | Operations | What is hard | What makes it correct |
| --- | --- | --- | --- | --- |
| **Gateway supervisor** (`main.rs`, `gateway_process.rs`) | the gateway child; `GatewayProcess` (pid, `stop_intended`, `last_failure`), the mirror `GATEWAY_CHILD_PID`; one watchdog thread per lifecycle with its failure count | start, stop, restart, update, exit, SIGTERM; crash, backoff, respawn, give up | threads and commands share atomics without a lock; timeouts; exit in the middle of anything; pids reused by the system | one gateway, tracked; an outage ends or is explained; a stop stays; no signal to a stranger's pid |
| **Codex instances** (`codex_launcher.rs`, commands in `main.rs`, `CodexInstancesCard`) | map of owned processes; reservations at the gateway; instance homes | launch, stop, list, stop all | awaits between reservation, launch and release; lost answers; lists beside launches | a running session keeps its account; no two share one; what ends is released |
| **CLI configuration** (`cli_config.rs`) | agents' configuration files, a backup and a record for each | configure, adopt, restore | several file-system steps; the user and the agent write the same files; crashes | the user's text survives; a record has its backup; restore undoes configure |
| **Profile agent** (`sync.ts`, `merge.ts`) | `models.json` files, `state.json` (etag, applied hashes), lock, backups | a run per minute or by hand: fetch, merge, write, roll back | the user edits the files meanwhile; crashes between files; overlapping runs | own edits are kept; a clean etag means synced; runs converge |
| **Profile agent installer** (`install.ts`) | launchd, systemd or Task Scheduler entries | install, uninstall | - | one service, every minute |
| **Management key and secrets** (`gateway_process.rs`, `secrets.rs`) | gateway config file, dedicated keychain entry, UI profile's key; the key the console was given | provision, adopt, verify before each start | stores that must agree, with a crash between two of them; the user and the gateway write the same file; a second app | the key in use is never lost; the console's key opens the gateway; the user's text stays |
| **Connection settings** (`useConnectionSettings`, handlers of `App.tsx`, `connection.rs`, `bootstrap.rs`) | the form's latches, its status outside React, reads and saves in flight | read, retry, save, drop the latch | reads that outlive their effect; a gate that asks a status set in five places | nothing but a gateway's own values is saved to it |
| **Polling** (`useGatewayPolling`) | what is shown, generation, load state, the chain's timer | poll chain, manual refresh, focus, visibility, switch of gateway | answers that arrive late, out of order or for the old gateway | what is shown is the current gateway's and never goes back; polling never stops |
| **Overview analytics** (`useOverviewAnalytics`) | rows, cache by range and dimension, generation, loading | a round per range, dimension, connection and minute; rebuild on metric and accounts | supersession; a cache and a memo of what was built | rows fit the controls and the gateway; loading ends |
| **Sign-ins and models panel** (`App.tsx`, `ProviderModelsPanel.tsx`) | the session shown, `settledAuthStates`, the busy slot; the panel's table, its reads and saves | begin, poll, check, leave a sign-in; open, close, toggle | reads by a timer and by the user that overlap; optimistic toggles that each save the whole table | an outcome is applied once and noticed; the panel shows the gateway's table |
| **TOTP vault** (`totp-vault.ts`, `useTotpVault`) | encrypted vault, queue of writes, load generation | load, add, edit, remove | a failed load | no entry lost; no write from an empty load |
| **Tunnel** (`tunnel.rs`) | cloudflared child, pid file, binary | install, start, stop, reap | install cut short; a stop that fails | one child, findable |
| **Notch, tray, platform** | window geometry, hover generation | expand, collapse after a delay | a collapse that outlives its hover | an expanded notch is not collapsed |
| **OS integration** (`os_integration.rs`) | last state seen for each kind | observe a snapshot | duplicates | one notification for each change |
| Statistics, certification, console library, surfaces, site, QA and release tools | none that outlives a call | | | functions of their arguments |

How they meet.  Tauri runs the synchronous commands one after another on the
main thread; the async ones (`install_update`, the Codex commands, the
downloads) run beside them and beside each other, and so do the watchdog
threads.  In the console polling owns the connection's load state; the settings form follows
it, analytics follows the connection and the accounts polling shows, and handlers of
`App.tsx` move polling and the form at once.  The console calls the commands through `lib/native.ts` and the
gateway over HTTP; the supervisor and the console meet in the lifecycle status
and `last_failure`.  `cleanup_on_app_exit` stops the notch, the tunnel, the
Codex instances and the gateway in this order.  `cli_config.rs` writes the
gateway's address into files that the agents, and their users, write too.  The
profile agent is a process of its own and meets the rest only in `models.json`
and the gateway's profile.

`PROJECT.json` lists the hazards, each at its line, with the properties aimed
at it, or the reason none is.

## 2. The modules

### GatewaySupervisor

State: the children (`proc`, `orphans`), the atomics of `GatewayProcess` (`pid`,
`stop_intended`, `last_failure`) and the mirror of the pid that the exit
handler uses, the watchdog threads (`wpc`, `wchild`, `wfails`, `waged`), the
two callers (`cpc`, `after`, `target`, `fresh`, `reply`): the main thread, and
the updater beside it.  Every load or store of a shared atomic is one action.

What is abstracted.  There is no clock: a timeout may fire whenever what it
waits for is false, a backoff may end at any time, and an uptime of
`HEALTHY_THRESHOLD` is the action `Age`.  SIGTERM and SIGKILL are one step. The
port probe of a stop that finds no pid is merged with that load.  A child is
named by the number of its launch, so a pid is never reused; `NoRecycledPid`
says when the cells could name one that the system may reuse.
`ZombieIsRunning` tells Unix (`kill(pid, 0)` finds an exited, unreaped child)
from Windows.  While reading: `gateway_process.rs:271` speaks of an
"exponential backoff with jitter"; there is no jitter, and with five failures
allowed the cap `MAX_BACKOFF` is never reached.

| Run | Shows | Bounds |
| --- | --- | --- |
| `supervisor_app` | `OutageIsExplained`, `NoRecycledPid`, `ForgottenOnlyWhenDead` with every command; `SingleGateway`, `OwnGatewayIsTracked` and `ImplementsService` until a start or restart | 2 launches, 2 watchdogs, 2 boots, 2 rapid failures |
| `supervisor_live` | `OutageEnds`, `CommandsAnswer` | 2 launches, 2 watchdogs |
| `stop_in_backoff` (violation) | a stop during the backoff finds no pid, answers Stopped, and the watchdog starts the gateway again | |

Two launches and two watchdogs are what the races need: an old thread or stop
that holds an old pid, and a new child.  Two boots cover what one run of the
app leaves to the next, and two rapid failures let a watchdog respawn once and then
give up as the code's five do.  The last three properties hold until a start or
restart, which may meet a watchdog that is still at work (section 4): the history variable
`respawned` says whether the app has been asked for one.  No property says that a recorded
failure is final: `main.rs:61` promises it and the code does not keep it (section 4).  `CHECK_DEADLOCK FALSE` in
`supervisor_app`: the app may have ended for good.

`SupervisedService` is the promise of the whole in thirteen actions without threads,
pids or atomics: one gateway at a time, which after an exit is launched again, unless
the stop was asked for or it was the last of `MAX_RAPID_FAILURES` exits in a row that
no healthy run interrupted; and nothing is launched once supervision has ended.  The
refinement maps `phase` to where the thread started last is while no gateway runs (a
start or restart maps to the phase "free", after which nothing is promised, and the
application's end to "closed"), `failures` and `healthy` to that thread's policy, and
`stopping` to `stop_intended`; the pid cells, the updater and the ports are hidden.

Fairness: each watchdog thread, the main thread's command and the updater's
stop are weakly fair, since threads and the event loop are scheduled and every
wait in them has a timeout.  Children, ports and users promise nothing.

### CodexInstances

State: the gateway's reservations (`reserved`; `lost` remembers ids for which
a call went wrong), the launcher's map (`held`), the processes and their homes, the
launch or stop under way, the lists under way and the card's last answer
(`shown`).  A step ends at every await and every release of the launcher's
mutex.  The scheduler's calls succeed, fail, or succeed and lose the answer.
Reading the map in a list is one step, `ExitStops` stops one id whole, and an id is
used once because it is a fresh UUID.

| Run | Shows | Bounds |
| --- | --- | --- |
| `codex_sessions` | `SessionKeepsItsBinding`, `OneSessionPerAccount`, `ReleasedAfterExit`, `ImplementsAccountPool` | 3 sessions, 2 accounts, 1 list besides a launch's own |

Three sessions over two accounts allow a running, a stopping and a starting
one, two of them on one account.  Deadlock is off: ids run out, and the app
may be gone.

`AccountPool` is what the rest of the program may rely on: accounts are withheld,
lent to a session that begins once, and given back only while no session uses them.
The refinement maps `using` to the running processes with their accounts and
`withheld` to the reservations at the gateway; commands, the map and lists are hidden.

### CliConfig

State: files at the paths an agent may use, the backup and the record, the job
under way with its program counter, and `trouble`, what has gone wrong while it
ran.  A file is the base text and the patch of the gateway's settings on it, a hash is the
content.  Every file-system call is one action, and a failing call or a crash may
follow each.  Permission bits and Windows's swap file are left out; the
commands themselves are serial on the main thread.

| Run | Shows | Bounds |
| --- | --- | --- |
| `cli_config` | `UserSettingsKept`, `NoStrandedFile`, `BackupOutlivesRecord`, `RestorePutsBack` | 2 paths, a good and a malformed text |

A missing file, the text, and the text with the settings already in it are
three different originals, so one good text is enough.

### ProfileSync

State: the gateway's profile and what was ever published; the target files
(whole, bare of the provider, broken or missing) and which units are the user's
(`hand`: what merge takes from the profile is not, what it writes back as it was is); `state.json`; the lock with the process that made it and what it holds;
for each process its place and memory (`job`).  The hash of a unit is its text.
One action for each access to the lock, the reading of targets and state, the fetch, each
target's backup and write, each roll-back, the write of `state.json`.  `merge` and
`aggregateUnits` are the operators `Conflicts`, `Merged` and `AggregateUnits`.

Left out: dry runs and `--export-seed` (no effect), duplicate ids within a
file, two targets that are one by a symlink, the log, the pruning of backups.

| Run | Shows | Bounds |
| --- | --- | --- |
| `sync_runs` | `OwnTextKept`, `CleanMeansSynced` with a user's runs beside the service's | 1 file, 1 unit, 2 texts, 2 revisions, 1 edit, 1 fault; 1 run started by hand (`MaxStarts`), any number of the service's |
| `sync_live` | `Converges` with the service alone | 2 files, 1 unit, 2 texts, 2 revisions, 1 edit, 2 faults |

Units meet in "no conflict anywhere", which two files exercise as well as two units, and
in the file: one to change carries the others, in conflict, back as they were read.
The runs' single unit leaves that out and `CleanIsSynced` covers it, for any number of
units (§3).  Two revisions let a slow run carry the old one past the new one.
Overlapping runs are reachable although `README.md` of the agent promises
"pid lock so runs never overlap" (the file exists before its pid is in it, and
a run unlinks whichever lock is there by then); `overlapped` records it, and
`CleanMeansSynced` is what holds until then.  A run stores its own old etag and
hashes when it ends, which heals most overlaps, but not one in which the older run's
file write comes last and its state write does not.

Fairness: the timer starts the service again and again, a process that runs is
scheduled, and the fetch has a timeout.  Faults are bounded by `MaxFaults`: liveness
says what happens once they stop.

### GatewayPolling

State: the connection (`clients`, numbered), what is shown of which connection and
how recent it is (`stats`, `inventory` for credentials and models, `tail` for logs and
registry), the edit that a handler has put on top of the inventory (`patch`), the rounds in
flight, the chain's timer (`tick`), the handlers that await something before they refresh
or write to what is shown (`awaiting`), the gateway and its data.
A step is what JavaScript runs up to an await; a handler's state updates are
rendered, and the effects of that render run, before the next handler.  The
generation is abstracted to the one bit that is ever asked of it, whether a
round is the last begun.  The clock is left out: timers fire at any time.

The handlers of `App.tsx` that write to the hook's state are part of the module.  The switch
and the retry of the gateway set its status (`GatewayStopped`, `GatewayStarted`; a local
`saveConfig` ends as the retry does).  Disabling or enabling an account patches the
inventory and then refreshes, enabling after a usage pass; a new order patches it and does
not refresh (`EditAccount`, `DisableShown`, `EditShown`).  The status read of `App.tsx:912`
is sent once and may be answered late: `StatusRead` lets its answer come as often as events
allow, which is more than the code does.  A click on an edit and its save at the gateway
are one step, its answer another.

| Run | Shows | Bounds |
| --- | --- | --- |
| `polling` | `ShownIsOfTheConnection`, `NothingStepsBack`, `DisabledStays`, `SettlesOnCurrent` | 2 connections, 2 rounds at once, 2 changes of data (edits included), 1 failure, 2 events of the user |

Two rounds are what overtaking needs; two events are a handler that waits and the change of
connection or the edit it meets, and two changes an edit and what the gateway does after it.
The three safety properties are proved without these bounds (section 3).  `strayed` marks
how something of the old gateway can be shown: a handler that was awaiting when the
connection was replaced begins a round with its old connection, which becomes the newest,
or shows its edit.  Deadlock is off, since a hidden console with
nothing in flight waits for its user.

Fairness: a timer that is armed again and again fires, a request ends in an answer or in
the timeout of `lib/api.ts` (weak, for each round), and native commands return.
`SF` on the tick and the handlers: a step waits for a free slot, which is a bound of the
model and not of the code, and slots are free again and again.

### ConnectionSettings and Console

`ConnectionSettings`: the form knows of which gateway its values were read (`form`,
`provs`; 0: defaults).  `Rendered` is what the hook's three effects do after
a handler: the transition effect drops the latch, and the read effects start or
abandon reads.  `Console` extends `GatewayPolling` and instantiates `ConnectionSettings` over
its connection and load state: a step of polling and the effects of its render are one step,
and the handlers of `App.tsx` (switch, connection, key, configuration) move both.  The
specification of the two together is `ConsoleSpec`.

| Run | Shows | Bounds |
| --- | --- | --- |
| `console` | `OnlyOwnValuesSaved` | 2 connections to up to 2 gateways, 2 rounds at once (symmetric), 2 events, 1 failed poll, 1 failed read; any number of reads |

Another key is another connection to the same gateway, and the application drops no
latch for it; this is the case in which reads of two connections of one gateway overlap.

### ManagementKey

State: `config.yaml` as the state of its secret (none, plain, hashed), the key and the
version of the rest; the keychain's dedicated entry; the UI profile's key; for each
application its call of `provision_management_key_from_profiles` and the key its console
was given at launch.  One action for each access to a file or the keychain; any of
them may fail, and an application may die between two.  bcrypt is a hash that tells
keys apart.  The user edits the file and enters keys, the gateway hashes a plain secret.

| Run | Shows | Bounds |
| --- | --- | --- |
| `management_key` | `NotLockedOut`, `ConsoleKeyOpens`, `EditsKept` | 2 applications, 2 keys of the user's, 2 edits, 1 fault; launches, starts and deaths without bound |

Each property names what the code does not exclude: `overlapped` (two applications
provision at once and can lock each other out), `late` (an edit between the second look
and the rename is overwritten), `edited` (a console that lived through an edit of the secret
keeps its old key).

### OverviewAnalytics

State: the hook's arguments, the cache, the generation with the rounds in flight,
`isLoading`, what is shown and of which inputs it was built (`shown`, `lastBuild`), the
error.  A key is a range with a dimension.  A round makes two requests, one after
the other; what React adjusts in a render is part of the step that caused it.

| Run | Shows | Bounds |
| --- | --- | --- |
| `analytics` | `ShownFits`, `LoadingEnds` | 2 keys, 2 metrics, 2 connections, 5 generations, 1 change of accounts |

Five generations allow three rounds in flight and a superseded one on either side of
a change of connection.  The hook is fair to answers only (a request has a timeout): with
the rounds bounded by `MaxGeneration`, `LoadingEnds` says that loading ends once no newer
round comes; the code relies on two requests being over within the timer's minute.

### Authorization, ModelsPanel and AppDialogs

`Authorization`: the sessions at the gateways (`granted`, `home`), where `beginOnboarding`
is with each (`begin`), what the dialog shows, `settledAuthStates`, the status reads in
flight with their answers, the busy slot.  `Shows` sets what is shown together with the
clean-up of the poll effect, which cancels the timer's reads and not the user's checks.
`ModelsPanel`: the gateways' tables, the panel's copy (`excluded`), the reads of every
opening and the saves in the order of their toggles.  `AppDialogs` composes them: the two
drawers cover one another, what they asked goes on behind, and the gateway may change
under both.

| Run | Shows | Bounds |
| --- | --- | --- |
| `dialogs` | `ShownIsCurrent`, `OutcomeIsNoticed`, `PanelTellsTruth` | 2 sessions, 2 models, 2 connections, 2 reads at once, 1 failure, 5 events of the user |

Five events are enough to leave a session under a check and open another one, or to close
and reopen the panel under a read and toggle in it.  All sessions are with one provider and
all models are one provider's.  `strayed` marks the user's check of a session since left,
`disturbed` what can make the panel disagree with the gateway (a save that overtakes an
earlier one; one that fails after the gateway applied it, or after a later toggle carried it;
one in flight when the panel is opened; another gateway): the code excludes none of them, and
the properties hold otherwise.  Deadlock is off: the user's events run out.

Fairness: `setInterval` ticks, the gateway answers or the request times out, and an
answer is handled (weak, each as a whole: some request, not every one).

## 3. What is proved

TLAPS, for every value of the constants that the named assumptions allow
(`BoundsAssumption`, `CodexAssumption`, `CliAssumption`, `SyncAssumption`,
`KeyAssumption`, `AnalyticsAssumption`, `PollingAssumption`, `ConsoleAssumption`,
`DialogsAssumption`).  All they ask is that bounds are natural numbers, that there is a first
connection, and that "none" is not a session, an account or a key.  Each listed theorem is
about the module's `Spec` (the composition's `ConsoleSpec`), without fairness.

- `GatewaySupervisorProofs`. `TypeInv` is `TypeOK` with the few facts it needs
  to be inductive (launched children are numbered from 1, a thread that waits has
  a child).  `OutageAlwaysExplained`: a thread only retires with one of the two
  flags set, and the flags are cleared only inside `spawn_gateway`.
  `PidsNeverRecycled` and `RunningGatewayStaysTracked` rest on `IdInv`, the
  ownership of a child: each child is waited for by at most one thread
  (`OneOwner`), is unreaped while it is (`OwnedUnreaped`), is not yet in the cells
  of others while unpublished (`Unpublished`), and a cell is cleared only
  by the thread or stop whose child is dead (`SafeToClear`).  None of the parts is
  inductive alone: that a compare-and-exchange never clears a live pid needs that
  the number it compares with belongs to nobody else.
  `OneGateway` and `GatewayReachable` speak of the histories before a
  start or restart (`~respawned`).  `LifeInv` says how far each caller is then (`Place`), that
  at most one thread watches, that a live child has a thread that owns it (`LiveOwned`) and is
  in the cells or in that thread's hands (`LiveTracked`), that a stop clears the number of
  a dead child only (`DeadTargets`), and that nothing watches where a failure is on record
  (`FailureAtRest`, a step of the argument: it says nothing of a later start).
  `ServiceImplemented` is the refinement of `SupervisedService`, over `SupInv`: all of the
  above and `ServiceInv`, that only the thread started last watches (`NewestWatches`), that
  a thread which does not watch has counted nothing (`Forgets`), and that before the
  application's launch there is nothing that could be stopped (`NothingToStop`).  `MappedTo`
  is the mapping as these invariants simplify it: the phase, the count and the health are
  those of the one thread that watches.
- `CodexInstancesProofs`. `Inv` adds to `TypeOK` where the launch or stop under
  way stands (`CommandInv`), what the map says of the processes (`MapInv`), and that a list
  releases only ids it saw crashed (`ListInv`).  From it `BindingKept`,
  `OneAccountOneSession`, and, with the reservations of running sessions being distinct,
  `PoolImplemented`: each step of the launcher is a step of `AccountPool` or stutters there.
  `AccountsComeBack` needs `PendingInv`: whatever is reserved and not held as running is in
  the hands of the command or a list under way, which will release it, or was lost.
- `CliConfigProofs`. `BackupSurvives` from `BackupInv`, and `SettingsSurvive` from
  `SettingsInv`: while the user's text is `Sheltered` (no adoption was cut short
  and no edit raced a command), it is in the file, and the backup, the record and
  what the job under way holds in memory are such that every next write, rollback
  or crash leaves it there.  `FilesStayInReach` adds `StrandInv`, which follows a file the
  application has written from the write to its record, and `RestoreUndoes` adds `OwnedInv`:
  at every place of a job, the backup or the record, or what was read of them, is the text
  the file had when the application took it over.
- `ProfileSyncProofs`. `HashInv`: every hash in `state.json`, and every hash and
  profile text a run holds in memory, is a text some revision had.  It is inductive
  because `aggregateUnits` takes each hash from the profile or from the old ones,
  and it is what `OwnTextKept` needs: merge overwrites a unit only when its text is
  the recorded hash, so a text that was never published is overwritten only
  if the user put it there after the run had read the file.  Nothing in the
  argument uses the lock: it holds for any number of runs that overlap.
  `CleanIsSynced` does need that runs do not overlap.  `SyncInv` follows a run: what it read
  is still in the files but for the user's edits; once it has fetched, a file that it need
  not write, or no longer, is as listed or the user's (`DoneListed`), provided that the
  gateway is still at its etag; and when it saves nothing is left to write.
- `ManagementKeyProofs`. `LockInv` for `NobodyLockedOut`: a minted key whose hash is in the
  file was stored first (`StoredFirst`), and a call past its check still finds what it
  stored (`MintedSeen`), because one call runs at a time.  `OpenInv` for `ConsoleStaysIn`:
  what a successful call returns, what the keychain holds and what the gateway hashed stay the
  same key until the user edits the secret.  `UserEditsKept` needs neither.
- `OverviewAnalyticsProofs`. `FreshInv`: the round that counts is of the gateway and the
  key of the moment.  With it the cache belongs to the gateway (`CacheInv`), `lastBuild`
  describes what is on display (`BuildInv`), and a cached key is displayed without loading
  (`CachedShown`), whence `ShownAlwaysFits`.
- `ConsoleProofs`, the polling hook alone (`Spec` of `GatewayPolling`). `PollingInv` adds to `TypeOK` that
  at most one round in flight counts, that it is of the current connection unless it strayed
  (`FreshInv`), and that what it has seen is not older than what it will replace (`SawInv`): a
  round that counts was begun after every answer on display was asked for.  From it
  `OnlyTheConnectionShown` and `DisplayGoesForward`, for any number of rounds at once.
  `DisabledIsKept` needs two more: no save is newer than the data (`WaitInv`), and while a
  disabled account is on display as such, an inventory on its way that counts was answered after the
  save (`PatchInv`).  Showing the edit supersedes every round in flight in the same step.
- `ConsoleProofs`, the composition (`ConsoleSpec`). `ConsoleShowsItsConnection` carries what
  was proved of the hook over to the console, in which the form moves beside it and shares
  the count of events; that the composition moves the hook as it moves by itself holds by
  the shape of `ConsoleNext` and is only a lemma (`PollingMovesItself`).
  For `SavesOwnValues`, `FormInv` and `ReadsInv` say of which gateway the form's values and the
  reads in flight are, for every sequence of load states and connections that polling and the
  handlers make.
- `AppDialogsProofs`, the sign-in dialog. `BegunInv`: only a session whose page was opened is
  shown, asked about or settled, so a session that is opened was never settled.  `TimerInv`:
  the timer's reads are of the session that waits, because the effect's clean-up cancels them
  with it; so only the user's check can bring a left session back, which `strayed` records.
  Both are needed for `SessionShownIsCurrent`.
- `AppDialogsProofs`, the models panel. The saves in flight are a chain (`InStep`): undoing the
  toggle of one (`Found`) gives what the one before it saves (`After`), the gateway has taken a
  prefix of them, and the panel shows the last.  A toggle makes the chain longer, a save that is
  handled in order lengthens the prefix, one that returns leaves at its end, and a rollback takes
  the last link off, the only one no later toggle has carried (`OnlyLastUncarried`).  Chains broken
  otherwise are those `disturbed` names, or will be once a failed save is rolled back
  (`Doomed`).  While the panel loads nothing is saved, and the only read whose answer counts
  (`OneNewest`) brings the gateway's table (`Reading`).  With no saves left, the chain says
  `PanelShowsTable`.

Only model-checked: liveness (`OutageEnds`, `CommandsAnswer`, `Converges`,
`SettlesOnCurrent`, `LoadingEnds`, `OutcomeIsNoticed`), since liveness under fairness and
`ENABLED` are out of the prover's reach.  Every safety property a run checks has a theorem.

## 4. Disagreements found

`stop_in_backoff` is a run with `expect: violation` and an entry under `findings`: a stop
during the watchdog's backoff.  The models show these as well; a property that forbids
one of them is violated in the module it names:

- `GatewaySupervisor`: `start_gateway` takes pid 0 for "no lifecycle" although a watchdog may be
  asleep in its backoff (`main.rs:1356`).  It launches a second gateway, the two watchdogs
  overwrite each other's pid, and one gateway is named by no cell (`OwnGatewayIsTracked`
  without its condition `~respawned`).
- `GatewaySupervisor`: `main.rs:1390` says "The watchdog on the old process won't interfere because
  `stop_intended` is set during the stop phase", while an old watchdog asleep in its
  backoff finds the flag clear again after the new spawn and launches its own.
- `GatewaySupervisor`: `main.rs:61` says of a recorded failure "Only terminal states are
  recorded: the watchdog having given up, or a start that could not even begin", "so the
  console never reports an outage the app is already fixing".  In an ordinary start, with no
  other watchdog alive, the child crashes, its own watchdog clears the pid and backs off, the
  wait for the port ends, `stop_owned_gateway` finds no pid and leaves `stop_intended` clear,
  and `main.rs:1364` records a failure while that watchdog is about to launch again
  (`ReadyTimesOut`, then `ReportNotReady`).  A start whose spawn fails beside a watchdog in its backoff
  records one as well.
- `CodexInstances`: a stop whose DELETE fails (`main.rs:1237`) leaves the account reserved for
  a session that no list will look at again; `docs/CONTRACTS.md:57` says that bound
  accounts are unavailable "until their owned process exits".
- `CliConfig`: a crash between the write of the file and of its record (`cli_config.rs:503`)
  makes the next configure take the app's own output for the original, and restore puts
  that back; `cli_config.rs:539` calls restore "exactly the undo they asked for".
- `ProfileSync`: a unit edited by hand to what the profile then says goes on being reported
  (`merge.ts:161`); `README.md:41` says of local-edit "Keep the edit: copy it into the SOT."
- `GatewayPolling`: `refreshNow` after a change of connection shows the old gateway
  (`useGatewayPolling.ts:261`), although the reset effect's comment says that its data
  "never linger under the new gateway".
- `GatewayPolling`: `App.tsx:1373` says that after a saved order "an interleaved poll must not be
  able to resurrect a reverted order".  A poll answered before the save and landing after
  `setCredentials` does, until the next poll, because the order is not refreshed and no
  round is superseded.  Enabling an account has the same window, until its usage pass is
  over (`App.tsx:1285`); disabling has none (`DisabledStays`, which is violated when stated
  of the other two).
- `Authorization`: a check of a session the user has since left is applied to the dialog
  (`App.tsx:1896`), so the old session is shown and polled in place of the new one.
- `ModelsPanel`: overlapping toggles each save the whole table (`App.tsx:831`); a save that
  arrives late, or whose failure is rolled back after a later one carried it, leaves the
  panel and the gateway apart until the panel is opened again.  A change of gateway
  during a read leaves it loading for good (`App.tsx:811`).
- `ManagementKey`: two applications that mint a key at once can lock each other out; the user's
  edit between the second look at `config.yaml` and the rename is lost.

## 5. Not modelled, and why

- The TOTP vault: only the main window uses the hook, so its one hazard is its queue.
- The tunnel: the supervisor's process handling in a smaller form, without a watchdog.
- The secret store's legacy migration and the plain file's lock; `connection.rs` and `bootstrap.rs`.
- The rest of `App.tsx`: the onboarding forms and the mutations of accounts, keys and prices, each
  an await under a busy key with a refresh after it, as a click on Refresh has, and rendering.
- The notch and the tray (geometry), OS integration (one comparison and I/O), the profile agent's
  installer (a sequence of process calls).
- Statistics, schemas, formatting, charts, the site, the QA and release tools: functions of
  their inputs, or I/O.
- The gateway, whose source is not in the repository.

## 6. Further work

A history in `GatewaySupervisor` set only when a start or restart launches beside a watchdog
that is still at work, in place of `respawned`, which ends `SingleGateway`,
`OwnGatewayIsTracked` and `ImplementsService` at the first start of any kind.

An abstract specification of an agent's configuration (the user's own or with the
gateway's settings, and what a restore brings back) that `CliConfig` implements while no
adoption was cut short.
