# Arvectum Proxy Launcher: TLA+ models, checks and proofs

The launcher points the operating system at a local proxy and must be able to
take that back: after a failed step, a killed process, a foreign program, an
edited setting or a damaged file. While it runs it relays connections, lets the
excluded applications out directly and copes with upstreams that fail. This
directory models the parts that carry those obligations on Windows, Linux and
macOS, checks them with TLC on small instances, and proves with TLAPS, for every size,
all the safety properties the runs check, and that the Windows, Linux and macOS backends
implement the abstract protocol of evidence.

## The system

| part (source) | state | operations | talks to |
|---|---|---|---|
| Windows system proxy (`windows_system_proxy.py`) | five WinINET values, four user environment values, one backup file for each group | enable, disable, self-healing of the PAC, `NO_PROXY` synchronisation | Run entry, orphan cleanup; called by the commands, the worker loop and the GUI |
| Run entry (`recovery_autostart.py`), orphaned PAC (`windows_pac_recovery.py`), old backups (`application_filesystem.py`) | one Run value; a PAC whose backup is gone; backups of an older installation | install, classify, remove; verify twice and delete; import | part of enable and disable; GUI and `--rollback`; every start of a process |
| Linux backend (`linux_backend.py`, `linux_desktop_proxy.py`) | the proxy of every NetworkManager profile, the desktop's proxy, one rollback file | enable, disable, `sync_no_proxy` | nmcli, GSettings or KDE |
| macOS backend (`macos_backend.py`) | five settings of every network service, one rollback file | enable, refresh after a wake, disable, `sync_no_proxy` | networksetup |
| configuration storage (`configuration_storage.py`) | primary file, last-known-good copy, quarantine | load (validate, recover, migrate), save (snapshot, replace) | read by everything, written by the GUI and by migrating loads |
| commands (`application_runtime.py`), PID record (`process_supervision.py`) | listening ports, PID record | `--start`, `--stop`, `--rollback` | all of the above, routing |
| local transport (`local_proxy_transport.py`) | listeners, one thread per connection, failure counts and cooldowns, health file | serve a connection, fail over, publish health | upstreams, GUI |
| application routing (`routing_ownership.py`, `windows_windivert_controller.py`, `native/windows_windivert`) | ownership journal, one session in the service, one pipe; a decision per port | prepare, apply, mark, restore, clear; watch on the proxy process; classify and rewrite | worker, commands, service, driver |
| recovery state machine and ownership guards (`recovery_state.py`, `recovery_ownership.py`) | state, verification target, history; pinned evidence and claim | one method per transition; admit, claim, authorize | composed by `tests/test_crash_recovery.py` only; no production code calls them |

Hard about it: nothing serialises launcher processes (GUI, worker, `--stop`,
`--rollback` are separate processes over shared registry values and files);
every operation is a sequence of writes each of which can fail or be the last one
before a kill; ownership of a value is decided by comparing it with what the
launcher would write; connections, devices and services come and go under it; the
routing service keeps state of its own which only a journal file relates to the
launcher; and its two driver queues are not ordered against each other.
`PROJECT.json` lists each hazard at its line with the properties that cover it.

## Modules

**`WindowsSystemProxy`** is the core. `reg` is the nine governed values, `backup`
the two files, `call[p]` the program counter and locals of the call process `p` is
in. A step is one registry write or delete, one file replaced or removed, or one
decision on what was read. `enable_system_proxy` starts a call that goes through
`_save_backup`, `_commit_backup`, `_apply_value` (one value per step, WinINET, then
environment), `_enable_recovery_autostart`, and, on any failure, through the
restore of both halves; `disable_system_proxy` goes through `_restore_check`,
`_restore_value`, `_remove_backup` for each half, then `_finish` and `_verdict`.
`reassert_missing_owned_pac`, `sync_client_no_proxy`, `save_no_proxy`,
`clear_orphaned_arvectum_pac` and `ensure_state_ready` are the remaining operations
that write. Outside events are `Crash`, `ForeignWrite`, `Corrupt` and
`change_endpoint`, each limited by the budget `left` of a scenario. `applied`, `user`,
`drift` and `edited` are history variables: which values hold what the launcher put
there, what the user or another program last put there, which values the backup
cannot speak for (another program interfered with a call or a pending backup, the
value could not be read, the backup is an imported one), and the stores whose settings
were edited while the launcher was at work. Registry values are members of a small
set, except `NO_PROXY`, which is a set of entries because the code merges lists. A
registry read that fails is a read of `Absent`, as in the code.

**`EvidenceProtocol`** is what a backend promises about one store: a value changes
only while readable evidence of its original is held, evidence goes only when no
changed value is left, unreadable evidence is kept. `WindowsSystemProxy` instantiates
it twice (`Internet`, `Env`), `LinuxBackend` and `MacosBackend` once each for all their
values behind one rollback file. `Inherit` is an unreadable backup found at an upgrade.

**`LinuxBackend`** keeps the stored value of each profile and desktop field (`value`)
apart from the proxy each active connection really uses (`device`): `nmcli modify`
changes the first, `reapply` the second. Commands may fail without effect or time out
after it; connections go up and down, profiles are deleted, the desktop session may be
another one at disable. A desktop setting is two commands, URL and mode. `moved` is history:
the connections that last went up or down while a call was at work.

**`MacosBackend`** gives each service five settings that are on or off and remember an
endpoint. A call is a sequence of networksetup commands computed as in the code
(`EnableCommands`, `RestoreCommands`, the pulse of `refresh`), executed one per step;
setting an endpoint switches a proxy on. `Recoverable` is the list of intermediate
states the backend recognises as its own; `OffWithEndpoint` names the saved settings for which
that list has a gap.

**`PortDecisions`** has the two queues of the driver, the table `decisions` and the two
threads of the WinDivert session. `WaitTimeout` and `CommitProxyIfUnknown` are two steps
because the lock is released between them. Stopping is a sequence as well: `stop_` is set
(`StopLocked`), the driver's handles are shut down (`ShutDown`), each thread finishes the packet
or event it has in hand and leaves (`Loop`, `Leave`), and both are joined (`Join`). The path of
an excluded application's process may be unreadable, which makes it one for the proxy
(`ProcessPathMatches`). **`LocalTransport`** has one thread per
connection; an attempt, its count and its publication are separate steps, because the
code takes `_health_lock` for each; it may be started again after a stop; the upstreams a request may still try are a set of
indices that `Turn` takes in their order. Time only ends cooldowns and ages the health file.
The health file is written on Windows only, which is the platform modelled. **`DataPlane`**
composes the two: the first packet forwarded decides which listener gets the connection. That
joint is glue, not code, and no property is stated about it.

**`ConfigurationStorage`** models load and save with validation, quarantine,
last-known-good, DPAPI and migration. A file is an id with the form of its
credentials, damaged, or missing. `os.replace` makes one write one step. A scenario says
which processes there are.

**`WorkerLifecycle`** models `--start`, `--stop` and `--rollback` with the PID
record, the journal, the pipe and the service. A call of the system proxy backend
is one step here, with the outcomes `WindowsSystemProxy` allows: on, off, or partial
(a backup is left). A transition of the journal is two steps, its load and its save. `is_running`
may answer False for a worker that runs (`Overlooked`: a PAC probe that fails or takes a second, an
edited port, an identity that cannot be read), `_write_pid` may write nothing or a record without
an identity, and `_kill_pid` may refuse. `lost` is history: the workers whose record was not
written, or was replaced or removed because nobody saw them. A process name is a process identity (PID and creation time),
and a name that ends turns into `Gone` wherever it is remembered. Which of the free
names a new process gets, and which unused session id, does not matter and is chosen
deterministically; `prepare` needs an unused one, the bound on sessions. `overlap` says how many commands may be under way at a time.

**`RecoveryState`**, **`RecoveryOwnership`** and **`CrashRecovery`** model the two
library classes, method by method, and their composition by the tests, with crashes. A refused
`authorize` or `claim` pins the evidence it looked at, as in the code (`refuse`).

`MC*` modules hold values for constants, and scenarios: initial states with fault budgets.
The modules `*Proofs` hold the theorems; see Proofs. Definitions that start with `Mutant of`
in their comment are deliberate bugs; no specification uses them.

## Runs

| run | shows | bounds |
|---|---|---|
| `crash_recovery` | ACTIVE and OFF are only ever reached through their verification; OFF is never reported with the network changed; only the actor that captured the original applies; pinned evidence stays pinned | 2 actors, 2 operations, 2 scopes, bounded history, any crash |
| `windows_faults` | applied values always have a backup; the user's value is always in the registry or the backup; the launcher never takes its own state for foreign; True means True; both halves refine `EvidenceProtocol`; repeated disable recovers any interrupted enable or disable | 1 process at a time, 2 enables, and: 2 failing writes, 2 kills, 1 foreign write; or 2 edits, 1 failing read, 1 failing write, 1 damaged backup, orphaned PAC, legacy Run entry; or 2 process starts beside old backups (one good, one damaged), 1 failing write, 1 kill |
| `linux_faults` | the same of the Linux backend: nothing lost, nothing own taken for foreign, success reported only when it is true on every active device, refinement, convergence | 2 profiles and a desktop, 2 enables and a kill, and: 2 failing commands, failing file write, foreign write; or 1 failing command, 2 link changes and a deleted profile; or 2 edits, another session, a damaged file, a failing read and write |
| `macos_faults` | the same of the macOS backend, and the route never falls back to direct while armed | 2 services; 1 enable and 1 refresh with 2 failing commands, failing file write, kill, foreign write; or 2 enables with edits, failing read, damaged file; or services that come and go and a setting switched off by the system, one proxy having been off at the upstream from the start |
| `config_faults` | only corrupt files are quarantined; what save acknowledged stays current; a valid generation remains; no second plain-text copy | 1 process, 3 saves, 2 damaged files, 1 each of I/O error, DPAPI error, kill; or 2 processes, 2 saves, 2 damaged files, 1 I/O error, 1 kill (there: a valid generation remains) |
| `lifecycle_faults` | a session is always the one the journal names; a stop that reports success left no session, journal or proxy and, but for workers the launcher has lost sight of, no worker; an orphaned session ends; repeated stop converges, but for those workers | 3 processes; 2 starts, commands one after another, with any 3 of 8 faults once each (file, PID record, probe of the worker, system proxy, service, driver, kill, interrupt); or 2 overlapping commands with a PID record that may fail |
| `data_plane` | only excluded applications ever leave directly, a direct decision does not outlive its connection, the destination is settled after the first packet up to the last packet of a stop, no packet waits for good, a stop ends; cooldowns are earned, service resumes, the health shown becomes right | 3 connections, 2 of them on one port, one of them older than the session, up to 3 packets each way, a stop at any moment; 2 clients, 2 upstreams, failure limit 2 |
| `windows_race` | **violated**: with two processes a value is applied without a backup | 2 processes, no fault |
| `macos_retry` | **violated**: a restore killed between setting and switching off a proxy leaves a state every later restore refuses as foreign | 1 service with a proxy switched off at an endpoint of its own, 1 kill |
| `config_killed` | **violated**: a kill between quarantine and restore hides the last-known-good copy for good | 1 damaged file, 1 kill |
| `lifecycle_twice` | **violated**: `--start` while a worker runs ends its routing session | 2 starts, no fault |
| `port_window` | **violated**: a CONNECT event between timeout and commit splits a connection between two destinations | 1 connection, 2 packets |

Bounds. The properties of the backends relate one value, its backup and one process: two
values per store in different roles and two faults are enough for a fault, a failing
rollback of it, and a retry; two enables give an enable over an old backup. The Windows
instances use four WinINET and two environment values instead of five and four: those left
out are treated like one that is kept. Two profiles or services let one part of a restore
fail while the other succeeds. In `WorkerLifecycle` a worker and two commands are all that
can interact through one PID record, one journal and one pipe; three faults give one during
start, one during its rollback and one during stop, or a worker that is overlooked, a second one
beside it, and one more. In `DataPlane` two connections on one
port are the smallest reuse, and two threads on two upstreams let every count be overtaken;
`UPSTREAM_FAILURE_LIMIT` is 2 as is the least value that distinguishes counting from not.

What the passing runs do not claim, and what the code does there:

- Settings edited while active. `_env_state_is_owned_or_saved`
  (`windows_system_proxy.py:415`) compares with the exclusions and ports of the moment, so
  edited exclusions turn the launcher's own `NO_PROXY` into a foreign one until the old ones
  are back. `OwnStateNeverForeign` of the Windows backend excepts `edited` stores. The Linux
  and macOS backends compare with the configuration in the rollback file and need no such
  exception.
- Foreign writes. `_save_internet_backup` (`windows_system_proxy.py:167`) is content with any
  valid backup, so an enable after a refused restore or a crash overwrites what another program
  configured in between, and that value is in no backup;
  `FOREIGN_PROXY_PROTECTION_TESTS.md:26` asks to preserve it. `OriginalRecoverable` excepts the
  value written (`drift`), not the others.
- Unreadable values. `_read_user_env` (`windows_system_proxy.py:260`) answers "absent" for
  every error, so a value that could not be read is saved as absent, overwritten by enable and
  deleted by the restore. Excepted the same way.
- Old backups. A backup of an older installation stays where it is and is imported again after
  every restore (`application_filesystem.py:232`). If today's values are neither the old ones nor
  the launcher's, the restore refuses it, and `network_restore_pending` stays true.
- An idle machine. `disable` with no backup of the environment, or after that half alone was
  restored, answers False for good (`windows_system_proxy.py:450`); the model does the same, and no
  document says what the answer should be. A worker that enables between the last look at an
  orphaned PAC and its deletion (`windows_pac_recovery.py:115`) loses its PAC.
- `RecoveryConverges` is about stores whose values the restore accepts; it does not say that the
  restore accepts everything.
- Linux. An enable that finds its profiles in place (`linux_backend.py:564`) answers True without
  a reapply, so after an enable that died between modify and reapply the device still uses the old
  proxy. A connection that goes up or down between the listing of active connections and the end of
  the call keeps what it was activated with: one that comes up during a disable with the launcher's
  PAC is not reapplied, and a later disable finds no rollback file and answers True with that PAC
  still in use. `ReturnsAreTruthful` excepts the first for the devices, and of the others exactly the
  connections that last changed during a call (`moved`).
- macOS. `OwnStateNeverForeign` excepts rollback files with a setting that was off and remembered an
  endpoint of its own, the case `macos_retry` shows; for web and secure proxies one that is not the
  upstream or the closed port, which `Recoverable` accepts anyway. A web proxy or a PAC that is on
  without an endpoint does not occur (`OnHasEndpoint`): the restore could not put it back, and
  `_load_backup` (`macos_backend.py:558`) rejects such a PAC. A service that is missing makes
  `_restore_plan` refuse (`macos_backend.py:488`) until it is back, while
  `core/APL_CORE_003_MACOS_BACKEND.md:70` says that the services that are left are restored; the
  model follows the code.
- Configuration by two processes. Between the judgement that a file is damaged and the move to
  quarantine (`configuration_storage.py:323`) another process may have written a good one, which is
  then moved away. `QuarantineIsCorrupt` and `AckedIsCurrent` are about one process, and for
  `GoodCopyRemains` a damaged file counts as mended by a write only if no other process is at work:
  with both files damaged, the stale judgement can take away the one that was just mended.
- Port reuse. A port is used again only after the events and packets of its last connection were
  handled, as TIME_WAIT makes it.
- Stopping a routing session. Between `stop_` and the shutdown of the handles
  (`windivert_routing_session.cpp:749-757`) the wait for a decision ends at once
  (`windivert_routing_session.cpp:359-363`), and the packet in hand goes to the proxy even if its
  connection went directly so far. It is the last packet of the session, as both loops look at
  `stop_` before the next one. `SettledAfterFirst` allows exactly that one packet (`tail`). It is
  about one session: the connections do not outlive it in the model.
- `SessionIsJournaled`, `StopIsTruthful` and `StopConverges` are about commands that do
  not overlap. When two commands overlap,
  `clear_after_verified_restore` may remove the journal of a session applied meanwhile,
  `transition` may bring back a cleared journal, and `--stop` may drop the record of a
  new worker; `OrphanSessionEnds` holds there too.
- Workers the launcher loses sight of, with commands one after another. `is_running` answers False
  for a worker that runs if the probe of its PAC fails or takes a second
  (`process_supervision.py:36-57`), if the port was edited, or if its identity cannot be read
  (`process_supervision.py:292-311`). If `_kill_pid` refuses at the same time
  (`process_supervision.py:383-393`), `--stop` drops the record and reports success with the worker
  serving; `--start` takes it for stopped, starts a second one and overwrites the record, and no later
  `--stop` ends the first. A record that is not written or has no identity does the same, as
  `application_runtime.py:218` ignores the result. These workers are `lost`, and `StopIsTruthful` and
  `StopConverges` except them, and `StopIsTruthful` also a verdict whose own look failed. What
  they say then is that nothing else loses a worker, and that session, journal and proxy are gone
  even then.
- The device of a Linux profile. `_reapply` goes by the device names listed before
  (`linux_backend.py:607-609,670`), the model by the profile. They differ if a device changes its
  profile during the call, which `moved` excepts.
- Hazards that no property of a passing run catches, because the code does not prevent them:
  another process between the check and the write of `windows_system_proxy.py:712` (seen in
  `windows_race`), the foreign, unreadable and edited values above (`:170`, `:260`, `:425`), the
  connections that move during a call (`linux_backend.py:724`), and the stale judgement of
  `configuration_storage.py:285` by two processes. `PROJECT.json` says of each what excepts it.

Fairness. Backends: a process that is not killed takes its next step (weak, per process:
straight-line code whose commands have timeouts), and disable is asked for again (strong:
the user or the GUI retries, possibly between other calls). `WorkerLifecycle`: the same
for processes; the service answers a request it has (weak); it is started again after
it stopped (it is installed with StartupType Automatic, so at the latest by a reboot; weak);
some command to stop is issued again and again (weak); and `ProxyExited` is strongly fair,
because the handle of an exited process stays signalled, so `WaitForConnection` returns with
it the first time it waits with no client. With weak fairness TLC finds the schedule in which
clients always come first. `DataPlane`: both threads of the session, the thread that stops it (`Stopping`) and every handler thread
run (weak; every blocking call has a timeout or ends with the shutdown of its handle); cooldowns end (weak: time); and clients keep
asking for tunnels (strong: a condition of `ServiceResumes` and `HealthCatchesUp`, which are
about requests that come).

Deadlock is checked in every run but `crash_recovery`, where the bound on the history
stops the machine, and `data_plane` and `port_window`, where the packets are used up.

## Proofs

All proofs are TLAPS proofs by SMT, Zenon and LS4, one lemma per action, joined by a step lemma
per invariant. The assumptions are the named `ASSUME`s of the modules; TLC evaluates them on the
instances. Budgets are natural numbers everywhere, so every theorem covers any number of
faults, kills, edits, damaged files and foreign writes of the kinds the model has.

| theorem | property | for any |
|---|---|---|
| `WindowsSystemProxyProofs!TypeCorrect` | `TypeOK` | processes, names, values, settings |
| `AppliedIsCovered`, `InternetImplements`, `EnvImplements` | `EvidenceCoversApplied`, `InternetRefines`, `EnvRefines` | names, values, settings; one process at a time |
| `WindowsRecoveryProofs!OriginalsRecoverable`, `OwnStateRecognised`, `AnswersAreTrue` | `OriginalRecoverable`, `OwnStateNeverForeign`, `ReturnsAreTruthful` | the same |
| `WorkerLifecycleProofs!SessionsJournaled` | `SessionIsJournaled` | finite set of processes, session ids |
| `StopsTruthfully` | `StopIsTruthful` | the same |
| `ConfigurationStorageProofs!OnlyCorruptQuarantined`, `AcknowledgedStays`, `GoodCopy`, `NoPlainCopy` | `QuarantineIsCorrupt`, `AckedIsCurrent`, `GoodCopyRemains`, `NoSecondPlainCopy` | processes, configurations, platform, initial files |
| `DataPlaneProofs!PlaneTypeCorrect`, `FailClosed`, `Settled` | `TypeOK`, `DirectOnlyForExcluded`, `SettledAfterFirst` | connections, ports, exclusions, packets |
| `CooldownEarned` | `CooldownIsEarned` | threads, upstreams, failure limit |
| `LinuxBackendProofs!LinuxImplements`, `OriginalsAreRecoverable`, `OwnStateIsOwned`, `LinuxReturnsAreTruthful` | `EvidenceRefines`, `OriginalRecoverable`, `OwnStateNeverForeign`, `ReturnsAreTruthful` | profiles, desktops, values, configurations; one process at a time; the last one for PAC URLs nobody else uses (`PacsAreOwn`) |
| `MacosBackendProofs!TheRouteIsNeverDirect` | `NeverDirect` | services, endpoints, configurations; one process at a time |
| `MacosImplements`, `MacosOriginalsAreRecoverable`, `MacosOwnStateIsNeverForeign`, `MacosReturnsAreTruthful` | `EvidenceRefines`, `OriginalRecoverable`, `OwnStateNeverForeign`, `ReturnsAreTruthful` | the same, where what is on has an endpoint (`OnHasEndpoint`) |
| `CrashRecoveryProofs!TypeCorrect`, `OffIsSafe`, `OwnerApplies`, `GuardsStayPinned`, `CyclesVerified` | `TypeOK`, `OffMeansRestored`, `OnlyOwnerApplies`, `EvidencePinned`, `CyclesAreVerified` | actors, operations, scopes, length of the history |

**Windows backend.** `NamesAssumption` and `ValuesAssumption` ask for disjoint value names that
include the ones the code names, values of the right kind, and old backups that are complete or
unreadable.

- `TypeOK` is not inductive, because a call carries a snapshot and an index that must belong to
  its store; `TypeInv` adds `CallTyped`: which store, snapshot and index each program counter goes
  with.
- `SafeInv` adds `EvidenceCoversApplied` and `CallSafe`: a process that applies has its backup on
  disk, and so has one that restores; as long as no write of the restore failed, all names before its
  index are restored; one that removes a backup has no applied name left in that store; self-healing
  and synchronisation hold the backup they checked. That processes run one at a time (`Procs = {p}`;
  the process may be killed and come back) is needed: `windows_race` is the counterexample with two.
- Refinement: `StepEffect` shows from `SafeInv` that every step changes at most one backup or one
  value of `applied`, and under which condition; `EffectIsStoreStep` turns that into a step or a
  stutter of `EvidenceProtocol` for either store.
- `TruthInv` adds the values themselves: a backup holds what the user had (`BackupsTrue`), what is not
  applied is what the user had (`RestTrue`), what is applied is what the settings of the moment
  would apply (`AppliedTrue`), each but for the names and stores the properties except; and what a
  call has in hand (`Knows`): the snapshot it will commit is the user's values, the snapshot it
  applies or unwinds with is the one on disk, a call on its way to True has seen no failure. The
  answer of disable is true because with no backup left `SafeInv` leaves nothing applied.

**Linux backend.** `LinuxAssumption` asks for profiles and desktop fields that are different names,
values of the right kind, and a rollback file that is not mistaken for its absence.

- `TypeInv` says what a call has in hand at each program counter (`CallTyped`): its rollback file is
  complete, the desktop client is the one the file names, an enable has listed exactly the profiles
  it saved.
- `SafeInv`: a working call works from the file on disk; everything applied is in the file; and
  nothing applied is out of reach: of a restore that has not failed it is still ahead (`Ahead`), of
  an enable it is behind, where its rollback will come by (`Behind`; a desktop whose URL was touched
  counts with both fields). So a restore that reaches the end has nothing applied left, which is
  what the refinement needs of `_clear`.
- `TruthInv` adds the values, as on Windows; `OwnStateNeverForeign` needs no exception, because the file
  has the configuration that was applied.
- `DeviceInv` adds the devices: one that uses a PAC of the launcher's and has not `moved` is in the
  rollback file, and a restore has its profile or its reapply still ahead. It is inductive only
  if nobody else uses those URLs: `PacsAreOwn` is a hypothesis of that one theorem, justified by
  their being on a loopback port of the launcher's, and evaluated by TLC on the instance. The
  attempt to prove `ReturnsAreTruthful` with a weaker exception than `moved` failed at the case
  described above, which TLC then confirmed with a second enable.

**macOS backend.** A call carries a script of commands, so its invariants speak about what is left of a
script. `Fits` says of a script which commands it may contain, that the endpoint of a setting is set
before anything else is done to it, and that certain commands (switching a PAC off that has to come
back on) are not the last for their setting. Lemmas derive it for each script the code builds
(`EnableFits`, `PointAtFits`, `RestoreFits`), for concatenations and for the tail after a command;
no induction over sequences is needed.

- `RouteInv`: a working call works from the file on disk; during enable every setting nobody else wrote
  is owned, or its service is still to do, or the command that makes it owned is in the rest of the
  script; during pulse and re-arm both web proxies are on at the upstream or the closed port. Armed
  calls are never an enable or a restore. It yields `NeverDirect`, and the answer True of enable.
- `SafeInv`: the rollback file holds what the user had, every setting is in a state between two
  commands (`Between`), what was not touched is in force, and what was changed and is not restored
  is known to the file. A rollback that has seen no failure has every changed setting in a service to
  do or in the rest of its script; a call that removes the file has none left. `Between` implies
  `Recoverable` except exactly for `OffWithEndpoint`. The proof corrected that definition: a
  SOCKS proxy or PAC that was off at the upstream itself is not recognised either once it is on.
- `OnHasEndpoint` is needed because `_restore_service` sets no empty endpoint: a proxy that was on
  without one would come back with the launcher's endpoint. TLC evaluates it on the instance.

**Life cycle.** `LifecycleInv` has types for every program counter, and: who has a request in the
pipe waits for its answer with the id of the request. In scenarios where commands do not overlap
(`Serial`) it adds that one process is busy; that the session is the journal's; that what the busy
process loaded from the journal is still there (`Held`: the transition that is a load and a save
loses no update); that a restore that is answered as verified has left no session; and
(`PidsKnown`) that every process that listens and is not `lost` is the recorded one, or is about to
record itself. `LifecycleAssumption` says the processes are finite, as `overlap` counts them, and that `None` is
not a journal. The theorem has no condition on PID records or probes. What is proved is stronger than
`StopIsTruthful`: at the verdict of a `--stop` that succeeds nobody listens but `lost` workers, not
only none of those that ran when it began, unless the last look failed.

**Configuration.** `StorageInv` has for every process what fits its program counter (`CallOK`: what
it will write is encrypted on Windows), and `Judged`: a file is moved away only after it was
damaged at some time, so that of two generations an undamaged one is still there; this is why
`GoodCopy` holds for any number of processes without a lock. For one process it adds that the
files are still as it judged them (`Undisturbed`). The proof of `GoodCopy` found that the model's
history variable `damaged` had claimed too much with two processes, see above.

**Data plane.** `PortInv` has, for the connections of a port: at most one at a time is live
(`PortsExclusive`), queued events are of the live one, in order (`EventsAreLive`), packets are of
opened ones, and the table has the decision the live connection has used (`TableFollows`). Once
`stop_` is set each thread finishes at most the one item it has in hand, so that `tail` has at most one
connection and no packet follows its last (`LastIsLast`).
`DataPlaneAssumption` says that connections that were open before the session have
different ports, as they are open at the same time. `TransportInv` bounds the count of an upstream
by the failures since its last success (`failures[i] <= lost[i]`), which no interleaving of counts
can break, because every count is made under the lock; `PlaneInv` joins the two.

**Recovery machine.** `RecoveryInv` adds that from OFF to SAVE_ORIGINAL nothing is changed or on
record, that writers need a record and that a claim is on admitted evidence. `CycleInv` reads the state
off the history: the last transition is the one into the current state, and each state remembers
what its cycle has passed; that makes the property of whole histories inductive.

Only model-checked: the liveness properties (`RecoveryConverges` of the three backends,
`OrphanSessionEnds`, `StopConverges`, `PacketsFlow`, `StopEnds`, `ServiceResumes`, `HealthCatchesUp`), because
fairness and `ENABLED` are out of the prover's reach. The theorems about the backends, with
`Procs = {p}`, are about launcher processes one after the other, which may be killed at any step;
two at once are not covered, and `windows_race` shows on Windows why.

## Not modelled

See the components marked `not_modelled` or `partly` in `PROJECT.json`. In short: relaying of
bytes, HTTP, SOCKS, nmcli, GVariant and networksetup parsing, packet rewriting, PAC text,
redaction and logs are data without control that the properties could tell apart; the macOS
authenticated flag is carried along with an endpoint; the GUI is widgets around commands that
are modelled; `SingleInstance` is two kernel objects; installers and readiness checks run external
programs once; the mobile clients and the free gateway are separate programs. Of the
implementation's 60,739 lines 38,079 are the translated texts of `desktop_i18n.py`, and the
larger part of the rest is GUI, diagnostics, installers and the separate programs, so that the
modelled code is a small share of the lines and the larger share of the control.
