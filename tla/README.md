# landscape-kit in TLA+

`lkit` installs, updates, backs up, restores, repairs and removes the Landscape
router on a host, takes the host's network over and gives it back, and runs a
daemon that carries commands out, finishes interrupted ones and hosts a rescue
link (flare). This directory holds TLA+ models of it, the TLC runs that check
them and TLAPS proofs. `PROJECT.json` is the index: components, runs, mutants,
the map from each definition to the source lines it models, hazards, findings
and theorems.

Paths below are relative to `src/lkit-cli/src/` unless they start with a crate.

## 1. Inventory

### Parts, their state and their operations

| part | state | operations | module |
|---|---|---|---|
| transaction file, lock, recovery dispatch (`deployment/transaction/`, `deployment/lock.rs`) | one JSON file per transaction: phase, backup, the host as it was; a flock | begin, mark_phase, persist, validate, find_unfinished, recover_interrupted | Deployment, Lifecycle, Takeover, Migration |
| version switch (`workflows/switch.rs`, `backup/rollback.rs`) | `releases/<v>`, `current`, `data/`, `install-state.json`, `failed-data/`, snapshot | switch_version, rollback_switch, rollback_no_backup, recover_switch | Switch |
| installation, restore, uninstall, repairs (`workflows/`) | the same files, `previous-data/`, a transaction each | one workflow, its rollback and its recovery each | Lifecycle, LifecycleScripts |
| migration of an unmanaged router (`workflows/migrate/`) | the old unit and its directory, the new root, a transaction | prepare, hand over to the worker, switch, roll back, recover | Migration |
| takeover, confirmation, reinit (`network/takeover.rs`, `workflows/install`, `workflows/reinit.rs`) | host services, recovery units, pending state, deadline, `previous-data/` | install, reinit, confirm, rollback, arm_recovery, recovery | Takeover |
| delegation (`daemon_worker/`, `interaction/presentation/worker.rs`) | files in `/run/lkit/operations`: request, credential, cancel, output, result | delegate, wait_for_result, execute_pending_requests, wait_for_child | Delegation |
| configuration, daemon loop, hosting of flare (`deployment/config.rs`, `daemon.rs`, `commands/flare.rs`, `commands/frontend.rs`) | `config.toml`, its temporary file, the hosted server | load, save_flare, save_frontend, write_language, atomic_write, reload_flare | Settings |
| terrain protocol (`landscape-terrain-proto/src/protocol/`, `flare/server.rs`, `landscape-flare/src/client/`) | client session, peer table, auth guards, session keys and counters | DISCOVER, RESP, AUTH_REQ, AUTH_ACK/NACK, DATA, KEEPALIVE, TEARDOWN, timers, sweeps | Terrain |
| relay (`flare/server.rs`, `landscape-flare/src/client/`, `landscape-terrain-proto/src/{relay,ipstack}.rs`) | connections by handle and generation, pending bytes, wake-up, local ports | accept, connect, read, write, flush, close, reap | Relay |
| releases and updates (`release/`, `crates/lkit-repository`, `frontend/`) | downloads, `.install-<v>.tmp`, `releases/<v>`, pages | resolve, download with retries, verify, unpack, lay pages over, rename | Supply |
| publisher (`crates/lkit-publish`) | bucket: assets, manifests, stable pointer | ensure_repository, put_asset, put_json_if_absent, update_stable | Publisher |
| backups (`backup/lkb`, `commands/backup`) | `backups/*.lkb`, `.tmp` | create, list, show, verify, delete | Backups |
| package mirrors (`mirror/`) | source files of apt, dnf, pacman, apk and their backup | rewrite, save, replace, roll back, restore | Mirrors, MirrorLines |
| host network files (`crates/lkit-hostnet`) | `/etc/network/interfaces` and what it sources, backup and manifest | collect, plan, save, replace, validate, restore | HostNet, HostNetLines |
| lkit itself (`commands/self.rs`, `service/`) | `/usr/local/bin/lkit`, the daemon's definition under three service managers | self install, upgrade, remove | Self |
| console (`console/`) | panels, dialogs, background workers | every key, paste and worker answer | Console, ConsolePanels, PackagePanels, InstallPanels |
| the rest | none of their own that matters | reading the host, layout and wording, raw sockets, other programs | not modelled, see 7 |

### How they interact

- A command runs in the user's process or, when a daemon is there, as a child of
  the daemon. The user's process (the frontend) and the daemon talk only through
  files (Delegation).
- Every command that changes the install root takes the install lock without
  waiting, looks for an unfinished transaction and recovers it before its own
  work. The daemon does the same every two seconds (`daemon.rs:303`), except for
  takeovers that are waiting for their user or being rolled back. A migration is
  the exception: its frontend holds the lock, its worker takes none.
- A transaction's phase is written before and after each dangerous part, and
  recovery decides from the phase alone, with the files as it finds them.
- systemd is a third actor: it starts the service at boot, fires the timer that
  rolls an unconfirmed takeover back, restarts that rollback when it fails, and
  runs the boot rollback after a reboot.
- `config.toml` is read and rewritten by commands, console and daemon without a
  lock; only the rename is atomic.
- Publishers write the bucket while clients read it; nobody coordinates them but
  the conditional requests of the object store.
- The rescue link is between machines: frames are lost, captured twice and
  delayed, and either end restarts at any time. Inside a session a relay moves
  TCP bytes between one event loop and one task per connection.

### What is hard

1. A process may be killed, or the host lose power, between any two system calls,
   also during a rollback and during the recovery of a rollback.
2. Each call may fail, and the call that cleans up after it too.
3. Phase and files are never written together: recovery sees every mixture.
4. Commands, daemon, timers and boot services race for one lock; a busy lock means
   "later" for some and "never" for others.
5. Frontend, daemon and child see each other only through files that each of them
   may remove.
6. Files lkit rewrites (sources, interfaces, config, units) belong to others too.
7. Late, repeated and reordered frames and messages meet sessions, handles and
   identifiers that have been used again.
8. The console's screen, its workers and the world move on while a key travels.

### What makes each part correct

- **switch, installation, restore, repair, uninstall, migration**: all or nothing
  at every end; `data/` is never lost; the old version never runs on data the new
  one has migrated; a router that ran runs again (but see section 4 for errors that
  meet an uninstall or a backend repair); every interrupted transaction is finished;
  a transaction file that is written can be read back.
- **takeover and reinit**: one of two promised ends; no configuration is lost; a
  host without its network always has a rollback coming, and it comes.
- **delegation**: started at most once, never after its frontend took it back; the
  exit code is the child's; credentials do not stay behind; frontends return.
- **configuration and daemon**: readers find a file they accept; nobody's section
  is lost; the rescue server keeps running and follows the file.
- **terrain and relay**: both ends agree on a session; no key and counter seal two
  frames before the counter wraps; no late frame breaks a link; a client gets in;
  byte counts, wake-ups and generations are right; a closing connection has flushed.
- **supply**: no visible release is incomplete or changes; what is installed
  belongs together; an update ends.
- **host files, lkit itself, backups**: what was changed can be changed back; a
  failure leaves nothing; nothing foreign is replaced; success reports are true.
- **console**: the dialog on top gets the key and is what is carried out.

`PROJECT.json` lists each hazard at its line, with the property that covers it or
the reason why none does.

## 2. Modules and how they correspond to the code

An action is one state-changing call of the code, or a group of calls nothing else
can be seen between. Where a process is, is its `pc` (`at`, `proc`, `phase`); the
steps are named after the functions they stand for. A call that fails is an action
of its own (`Fails`, `StepFails`, an `errors`/`trouble`/`faults` counter), and so
are the death of a process and a reboot. Contents (files, versions, names) are
members of small sets. `PROJECT.json` "map" names the lines of every definition;
operators that only restate lines another entry of their module names are not
repeated there.

- **Deployment** holds what workflows on one install root share: the phases, the
  transaction's fields, the service as `capture_before` records it. **Switch**
  extends it with `switch_version` and everything that can follow. The old data,
  the migrated data and the rebuilt data are three values of `data`.
- **AtomicDeployment** is the abstract specification of a switch: begin, commit,
  roll back, fail, nothing in between. `Switch!Deployed` is the refinement mapping:
  an open switch counts as the old version.
- **Delegation** has one frontend and one child per operation, and one daemon.
  Request, result, cancel and secret files are functions or sets over operations.
- **Takeover** models one transaction at a time, numbered, with the units of all
  earlier ones: a unit that was left behind runs the same command.
- **Lifecycle** runs scripts: **LifecycleScripts** gives the sequence of steps of
  each workflow, rollback and recovery; Lifecycle says what each step does to the
  disk, what a failure and a crash at it lead to, and what recovery picks.
- **Migration** has three processes (frontend, worker, recovery) and the old
  installation in its three forms (systemd unit linked, copied, none).
- **Settings** has programs that read, change and write `config.toml` in separate
  steps with the shared temporary name, and the daemon's loop around the hosted
  server.
- **Terrain** is one client and one server entry, with frames as a set; **Relay** is
  one side's event loop, its tasks, the channel between them and the peer.
- **Publisher** has publishers that look and write in separate requests; **Supply**
  extends it with the client: resolve, download, verify, unpack, lay over, rename.
- **Mirrors** and **HostNet** (with **MirrorLines** and **HostNetLines**, what one
  line says), **Self** and **Backups** model commands without a transaction.
- **Console**, with **ConsolePanels**, **PackagePanels** and **InstallPanels**, maps
  every key of every panel to what it does to panels, dialogs and workers.
- **Host** puts Mirrors, HostNet, Self and Backups side by side under names of their
  own and states what they promise together; **Legacy** does that for Migration, to
  stand beside Lifecycle.
- Modules named `MC...` fix constants for TLC and compose: **MCWorkflows** is
  Lifecycle or Migration, **MCDaemon** Settings or Delegation, **MCHost** the parts of
  Host. A behaviour of such a run is a behaviour of one part, chosen in its first
  state, while the variables of the others rest. The parts share nothing, so nothing
  is lost by it.

## 3. Runs

| run | module | distinct states | checks |
|---|---|---|---|
| switch | Switch | 212,699 | TypeOK, EndsWhole, UserDataKept, OldNeverOnMigratedData, Settles, SwitchIsAtomic |
| delegation | MCDelegation | 3,151,054 | DelegationTypeOK, StartedOnce, DelegationInvariant, NoStartAfterCancel |
| takeover | MCTakeover | 662,541 | TypeOK, TakeoverInvariant, ReturnPath, UnconfirmedIsUndone |
| terrain | MCTerrain | 509,304 | SessionInvariant, Agreement, LinkServes |
| relay | MCRelay | 1,409,966 | RelayInvariant, BytesAreQueued, ClosedComplete |
| workflows | MCWorkflows | 367,875 | RootInvariant, MigrationInvariant, RouterRunsAgain, RecoverySettles |
| daemon | MCDaemon | 417,871 | SettingsInvariant, SettingsSteps, PicksUpWhileServing, DelegationEnds |
| host | MCHost | 2,142,381 | MirrorsInvariant, HostNetInvariant, SelfInvariant, BackupsInvariant, StepsKeepPromises |
| supply | MCSupply | 749,662 | PublisherInvariant, ReleaseInvariant, OfferOnlyGrows, UpdateEnds |
| console | MCConsole | 419,205 | ConsoleInvariant, ConsoleSteps, KeysComeBack |
| lifecycle_keep_data | Lifecycle | violated | KeepDataKept |
| takeover_boot | MCTakeover | violated | RebootRollsBack |

A property that bundles several statements (`...Invariant`, `...Steps`, `LinkServes`)
has a mutant in `PROJECT.json`; each of its conjuncts was seen to break under a
mutant of the code as well.

**Bounds.** Every bound is a named constant and a guard.

- switch: three versions, so that a second switch can go on to a third or back;
  two crashes and two errors, so that a rollback and the recovery of that rollback
  are both interrupted. The theorems of section 5 lift all of them.
- delegation: an operation with and one without a credential, of which one is a
  migration, which a restarted daemon may find still running; one restart and one
  failing call; two polls stand for the polls after which a frontend gives up.
- takeover: three transactions, so that units left by the first meet the third; two
  host services; two kills, one reboot, one error. Also lifted by theorems.
- terrain: wrong proofs and two session ids with hardly any traffic, or three frames
  per session and one id, with two frames under way at once; or long sessions, of a
  client or a server that seals up to eight frames, with one frame under way. Six
  sequence numbers (`SeqSpace`) stand for the 2^32 of the code, so the long sessions
  go past the wrap. Late frames of a session with the same id as the present one occur
  in all; a frame of before the wrap that arrives after others of after it does not,
  and is covered by the theorem TerrainSessionsHold.
- relay: one connection with a full channel, two on one handle one after the other,
  two at once on the server. The client has one local port to run out of, so its
  second connection waits for the first one's port; two of the client at once are
  covered by the theorem RelayHolds only.
- workflows, daemon, host, supply: two versions, two programs, two files, two
  publishers; one or two crashes and one error, which is what it takes to interrupt
  an undo. Initial states range over the layouts the code distinguishes.
- console: a session on each panel; one outside change or resizing of the terminal;
  two backups, so that the list can change under a dialog. While the wizard of an
  installation is open only the daemon comes or goes, as the wizard reads nothing
  else, and after that the wizard is only gone through or left. The session of an
  installation sees of other commands only that one has installed the router; the
  sessions of the other panels see every state.

Deadlock is checked in the switch run only: elsewhere a system whose bounds are used
up, or whose user does nothing, may stop.

**Fairness.** A process that is not killed goes on (`WF` on its steps), the daemon's
loop comes round (`daemon.rs:303`), systemd fires its timers and restarts a failed
rollback service. Users, administrators, crashes and errors are never fair.
In particular: Switch, WF of the daemon's Acquire and of Progress; Delegation, of
frontends that have begun, of children and of the daemon; Takeover, of the running
command, Recover, the router's start at boot, the deadline and the units; Lifecycle
and Migration, of steps and recovery; Settings, of programs that have begun and of
each branch of the daemon's loop, and a server whose device is missing ends; Supply,
of the client; Console, of the answers of workers. Terrain assumes in `LiveSpec`
besides that the link is calm from some time on (`Quiet`): no client can get a
session through a link that loses every frame.

## 4. Where code and documentation differ

Two runs expect a violation:

- **lifecycle_keep_data**: an interrupted `uninstall --keep-data` is finished by
  recovery with `keep_data: false` (`workflows/uninstall/mod.rs:175-180`); the data
  that `docs/commands/uninstall.md:49` promises to keep is removed.
- **takeover_boot**: the boot service of a reinit starts the router, which systemd
  holds back until the boot service is done (`network/takeover.rs:131`);
  `docs/network/reinit.md:70-72` says the reboot rolls back.

Others came up while modelling. The models contain them and the properties exempt
them by name, so that the rest of what the properties say is checked:

- A switch with `--allow-no-backup` that crashes between `write_state` and the
  committed mark is rolled back to the old link with the new state, and one that
  crashes after `activate_current` is refused by `load_state` on every recovery
  (`deployment/transaction/recovery.rs:426`). EndsWhole and Settles exempt switches
  without a backup from the state file's part.
- The frontend removes the cancel file right after it wrote it
  (`daemon_worker/mod.rs:332`); a daemon that polls every 200 ms can miss it, and
  the operation goes on although the frontend reported it cancelled.
- A frontend whose claimed request is never answered waits for as long as a daemon
  lives (`daemon_worker/wait.rs:99`).
- Units left over by a rollback that failed run `network rollback` against the next
  takeover (`network/takeover.rs:118`; `docs/network/takeover.md:65-67`), and that
  takeover records the masked services as found (`takeover.rs:452`).
- A reinit killed before it records its takeover is refused by `network rollback`
  (`recovery.rs:107`, `takeover.rs:392`; `docs/network/reinit.md:73`).
- `failed` does not block new transactions (`deployment/transaction/mod.rs:553`;
  `docs/deployment/transactions-and-recovery.md:180`), and a recovery that fails is
  retried for ever (`backup/rollback.rs:59`, same document, line 244).
- An error between stop and activation of a backend repair
  (`workflows/repair.rs:356-361`, after the stop in line 277), or after the stop of an
  uninstall, only marks the transaction failed: the router stays stopped, and nothing
  starts it again. RouterRunsAgain exempts these two (`LeftAsItStands`). Cut off there
  by a crash instead, both are undone or completed by recovery.
- `backup delete` does not look for unfinished transactions
  (`commands/backup/delete.rs:84`): one whose backup it removes is never finished.
  RecoverySettles exempts it (`robbed`).
- Frame counters wrap after 2^32 frames (`landscape-terrain-proto/src/protocol/
  crypto.rs:470-479,511`; the test `replay_window_wraps`, 760-771, wants it so), and
  nothing renews the keys of a session, so from there on a key and counter seal a
  second frame. Terrain wraps as well; SessionInvariant speaks of frames before the
  wrap (`FirstRound`).
- A late AUTH_ACK of an earlier attempt ends the client (`landscape-flare/src/client/
  mod.rs:440-443`; `docs/flare/README.md:22-24`, `scenarios.md:333-334`); a late RESP
  costs it an attempt; guards are swept after 45 s, before the lockout of 60 s ends.
- Relay generations start at 1 again for each peer (`flare/server.rs:739`;
  `landscape-flare/src/client/forward.rs:25-26`), and a full channel that is closed
  closes the socket without its pending bytes (`server.rs:851`).
- A rescue server that fails at start is started again with the old section
  (`daemon.rs:162-171`; `commands/flare.rs:369`, `docs/flare/protocol.md:160-161`).
- Programs share the temporary name of `config.toml` without a lock
  (`deployment/config.rs:497-500`): Settings exempts overlapping writes (`overlap`).
- In the console, `load_config` turns a custom update source to the configured one
  while the cursor is on the row of its address (`console/update.rs:258-266`): the row
  is hidden and still has the cursor, Enter edits it and what is typed is dropped
  (`CursorOnHiddenRow`). A terminal below 72x18 shows a notice and at most the exit
  dialog, while keys still go to the dialogs that are open (`console/render.rs:34-45`):
  OwnerIsOnScreen and DoesWhatIsShown exempt it (`small`). An update to `latest` shows
  the release it was resolved to and carries `latest`, which the command resolves
  again, maybe to a newer one (`console/update.rs:549-583`;
  `docs/interaction/console.md:147-148`): DoesWhatIsShown claims the form's text of
  it. The flare dialog saves a code that was typed once (`console/flare_panel.rs:37-60`).
- The console restores a backup it has not verified (`console/backup/keys.rs:35-42`;
  `docs/interaction/console.md:126-127`).
- A mirror placeholder counts as an official source (`mirror/apt/mod.rs:283-287`).
  Without a sources.list it also overwrites the saved copy of a `lkit-mirror.list`
  whose lines were not recognised (277-289), so that restore empties that file;
  `docs/commands/mirror.md:140,182` promise it back. Undoable and FailureUndone exempt
  this backup (`blanked`). A switch after a restore that was cut off removes the only
  whole copy (81-86) and takes the half-written file for the original; Undoable is
  about what that switch found.
- An edit of an interface file between lkit's last look at it and the rename
  (`crates/lkit-hostnet/src/ifupdown/edit.rs:404-411`) is overwritten, and is in no
  backup; `docs/network/hostnet.md:148` and `crates/lkit-hostnet/src/adapter.rs:11` say
  that a file that changed meanwhile is left alone. AlwaysRestorable and
  NoEditOverwritten exempt that file and step (`late`).
- sysvinit never disables the daemon (`service/sysvinit.rs:15`;
  `docs/commands/self.md:101-103`); openrc and sysvinit overwrite foreign files.
  A daemon that systemd is about to restart is not active and comes back after `self
  remove` (`commands/self.rs:312`): RemovedStaysGone exempts it (`Overlooked`).
- A file that changes while it is copied makes a backup that verifies and cannot be
  unpacked (`docs/commands/backup.md:40`).
- Two renames replace the pages of a release (`frontend/mod.rs:110-113`); between
  them it has none, and `release/artifacts.rs:76-78` refuses to use it again.
- A publisher that dies between manifest and stable pointer cannot be finished
  (`crates/lkit-publish/src/lib.rs:58-60`).
- `If-Match` is sent only when the object store answered with an ETag
  (`crates/lkit-publish/src/lib.rs:178-180`): Publisher always compares and swaps, which
  is a store that has ETags.
- A migration in `prepared` or `stopping` with a managed unit never settles
  (`recovery.rs:78-82`); the old unit is moved before its place is recorded
  (`workflows/migrate/legacy.rs:122`): Migration names these windows (`spoiled`).

## 5. Proofs

TLAPS proves the theorems below for every value of the constants: any versions,
operations, host services, publishers, builds and any number of crashes, errors,
kills, reboots and attempts. Each is an invariant or an action property of the
specification the runs check. The assumptions on constants are the named `ASSUME`s
of the component's module, which TLC evaluates in every run: bounds are numbers,
sets of names do not contain the value that stands for "none" or for the daemon,
no version is 0, programs are finitely many, and what the code's own tables fix (an
HTTP release has a backend and pages, the checksum file of a GitHub release is about
one build, there is at least one sequence number, the releases of lkit have fewer than
a thousand candidates per version, the two interface files are two). No theorem
assumes anything about `AllowNoBackup`: a switch without a backup is covered.

| theorem | states | rests on |
|---|---|---|
| SwitchProofs.TypeCorrect | TypeOK | TypeInv: types, and which variables are set at which step |
| SwitchProofs.DataKept | UserDataKept | KeptInv: the old data is in `data/`, in `failed-data/` or in the snapshot, and the rollback step says where |
| SwitchProofs.SwitchEndsWhole | EndsWhole | WholeInv |
| SwitchProofs.OldOnOldData | OldNeverOnMigratedData | MigratedInv |
| SwitchProofs.SwitchAtomic | SwitchIsAtomic | WholeInv, ServiceInv: refinement of AtomicDeployment |
| WorkflowProofs.DelegationTypes | DelegationTypeOK | Typed |
| WorkflowProofs.DelegatedOnce | StartedOnce | OnceInv |
| WorkflowProofs.WithdrawnStaysWithdrawn | NoStartAfterCancel | OnceInv |
| WorkflowProofs.DelegationHonest | DelegationInvariant | CodeInv, SecretInv |
| TakeoverProofs.TakeoverTypes | TypeOK | Typed |
| TakeoverProofs.HostAlwaysHasAWayBack | ReturnPath | WayBack |
| TakeoverProofs.TakeoverEndsOneWay | TakeoverInvariant | EndInv |
| SupplyProofs.OffersOnlyGrow | OfferOnlyGrows | PublisherInv |
| SupplyProofs.PublishedWhole, PublishedOffered, PublisherTypes | parts of PublisherInvariant, for publishers alone | PublisherInv |
| SupplyProofs.PublishedCanBeInstalled | PublisherInvariant | SupplyInv |
| SupplyProofs.InstalledBelongsTogether | ReleaseInvariant | SupplyInv |
| TerrainProofs.TerrainAgrees | Agreement | TerrainInv |
| TerrainProofs.TerrainSessionsHold | SessionInvariant | TerrainInv |
| TerrainProofs.TerrainLinkHolds | NoFrameBreaksLink, the safety half of LinkServes | TerrainInv |
| SettingsProofs.SettingsSound | SettingsInvariant | SettingsInv |
| SettingsProofs.SettingsKeepOrder | SettingsSteps | SettingsInv |
| RelayProofs.RelayHolds | RelayInvariant | RelayInv |
| RelayProofs.BytesCounted | BytesAreQueued | RelayInv |
| RelayProofs.ClosedAfterLastByte | ClosedComplete | RelayInv |
| WorkflowProofs.RootHolds | RootInvariant | LInv |
| WorkflowProofs.RouterBack | RouterRunsAgain | LInv |
| WorkflowProofs.MigrationHolds | MigrationInvariant | MigInv |
| HostProofs.BackupsHold | BackupsInvariant | BackupsInv |
| HostProofs.BackupsNeverReplaced | NeverReplaced, a part of StepsKeepPromises | BackupsInv |
| HostProofs.SelfHolds | SelfInvariant | SelfInv |
| HostProofs.HostNetRestorable | TypeOK, AlwaysRestorable and FailureLeavesNothing, of HostNetInvariant | NetInv |
| HostProofs.PromisesKept | StepsKeepPromises | NetInv, SelfInv, BackupsInv |

None of the properties is inductive; the strengthenings say what the code relies on
at each step. They were checked by TLC on the runs' instances before they were
proved.

- **Switch.** `EndsWhole` speaks of ended switches only. WholeInv carries it through
  the open ones: *FilesInv* (which files a phase guarantees), *PhaseInv* (what the
  process in memory knows of the file), *HolderInv* (only the lock's holder is past
  `acquire`), *DoneInv* (a terminal phase is written after the files it speaks of).
  MigratedInv says where migrated data can be while the old version is linked and
  that the service is stopped there; ServiceInv relates the recorded service state
  to the step of the rollback. For the refinement every step is shown to be one of a
  few kinds (*StepKinds*): it leaves `Deployed` alone, begins, commits, rolls back or
  fails; a crash maps to a stutter.
- **Delegation.** OnceInv ties the places a request can be in (request file, claimed,
  running, answered) to the steps of frontend and child: at most one at a time.
  CodeInv follows the exit code from the child through the result file to the
  frontend; SecretInv says who will still remove a credential that is there.
- **Takeover.** WayBack strengthens ReturnPath: with the network taken over, the
  recovery units of this transaction are on disk and enabled, the timer or the boot
  service is armed, or a command is at a step that will undo it. EndInv: *PhaseInv*,
  *FoundInv* (the recorded host state is the one found), *ReadyInv*, *UnitsInv*,
  *UndoneInv* (how far a rollback has come) and *EndsOneWay*.
- **Publisher and Supply.** PublisherInv counts what a publisher has uploaded
  (*UploadedInv*), that it begins with the first asset, that its manifest precedes
  the pointer (*ListedInv*) and what it has read of the pointer (*TriesInv*).
  SupplyInv adds that every build on its way passed `collect_assets` (*BuildsInv*),
  which repository a step of the client talks to and that its target is known
  (*AskInv*), that what it wants is one build, that of the manifest (*WantInv*), and
  how far its directory has come (*DirInv*). A step of a publisher cannot invalidate
  what a client has read, because a manifest never changes.
- **Terrain.** A fresh number occurs nowhere (*FreshIsNew*, by counting what is in
  use), so every step is one of ten kinds (*KindOfStep*), by the frames it adds and
  what it leaves of the two ends. TerrainInv says of the frames under way: one server
  nonce has been acknowledged once (*AcksAgree*), the nonce that waits for a request
  has been used for its RESP only (*PendingUnused*), RESPs and NACKs of one nonce are
  one frame (*AnswersDiffer*), a client asks once per nonce and a request the server
  waits for is not one of a client in a session (*AsksOnce*), and sealed frames are
  behind the counter of their session and no TEARDOWN of a living one is under way
  (*SealsOnce*). The count of failures stays within `MaxFails` because that is at
  least 2 (the code's `MAX_AUTH_FAILS` is 5): the failure that opens a window never
  locks out.
- **Settings.** *AlwaysReadable* and the steps speak of programs that do not overlap,
  FrontendStaysSound of all of them. SettingsInv therefore has two halves. Whatever
  overlaps, every document, on disk, open or in memory, selects a registered frontend
  (*Shapes*), because a program only ever saves a section that fits its command
  (*Fits*) into a document it has read whole. As long as nobody overlaps, one program
  at most works (*AloneInv*), what it saves is the file as it still is with its own
  section (*SavedInv*), and the temporary file is its own (*TmpInv*). A free inode
  always exists, since each of the finitely many programs has at most one open.
  HostInv ties the server to its section: a section that is hosted has a code.
- **Backups.** BackupsInv follows the one command that holds the lock (*MadeInv*: the
  archive is whole when nothing was written under it, the temporary file passes the
  check before it is linked), counts the files of `backups/.tmp` (*TmpInv*) and says of
  a reader that what it has said of a backup nobody has touched since is the verdict
  the file still deserves (*ReadInv*). The bound assumed is `BackupBounds`: at least one
  identifier is tried.
- **Relay.** One turn of the event loop is a sequence of functions of connections,
  tasks, queue and peer, so RelayInv is stated of arbitrary values of these four
  (*Safe*) and followed from function to function through the turn. Its *Links* say
  that a live connection and a task with its handle and generation belong to each
  other, that no two of either share them, and that whatever else is in the queue or
  among the tasks is older than the connection that has the handle now; that is what
  makes a generation enough to tell a late message from a present one. *CloseLast* and
  *FlushLast* give the order in which a task's last bytes, its flush and its closing
  are queued; *OwnPorts* keeps local ports apart; *BytesInv* says that the counter is
  the number of chunks pending in all connections, and bounds those that are not the
  first of theirs. *WorkInv* and *NoticeInv* are about wake-ups: whatever the loop could
  do for a connection is announced or about to be.
- **lkit itself.** SelfInv follows the three commands (*UpgradeInv*, *InstallInv*,
  *RemoveInv*) and the daemon's process (*ProcInv*). That an upgrade takes the newest
  release that was asked for needs what the loop over the pages computes: the fold is
  shown to lead every release it has seen (*ScanLeads*, *BestIsNewest*), by taking the
  least page and entry at which that would fail.
- **Host network.** NetInv says at each step of a command which copies and which
  manifest exist (*CopiesInv*), which files are already the edited ones (*EditInv*),
  that the rest is untouched (*UneditedInv*) and that what was reported is so
  (*ToldInv*).
- **Lifecycle.** LInv has one formula per operation that holds whoever is at work, by
  the phase of the transaction file (*OpInv*: *InstallInv*, *RestoreInv*,
  *UninstallInv*, *StaticInv*, *BinaryInv*), and one per script that says what its
  first i steps have done (*Fits*). Each step of each script is shown to keep the first
  and to lead to the next place of the second; a step that fails, and recovery, to
  meet what the script they turn to asks at its first step. The death of a process
  needs nothing but OpInv, which is why it has to be strong enough for every recovery
  script. *DataInv* is part of it (the data directory that was found is in place or put
  aside); a router
  that ran is carried by *Back*, up to the first phase in which the service may be
  stopped, and by the recorded service state (*Marked*) from there on. RouterBack then
  looks at the nine places where an end is marked. Both theorems speak of transactions
  that began on a *Sound* root (whole releases; empty, or registered and enabled). A
  rollback that itself failed can leave another one, and a later transaction that ends
  as it began is then not whole either; the run, with one operation, begins on a sound
  root always.
- **Migration.** MigInv has one formula per phase of the file, for the time when no
  process works (*AtRest*: what the file says of the two installations), and one per
  step of every script (*Fits*: what the process that is there has done of it). A
  process that stops, wherever it is, leaves what AtRest says of the phase on disk
  (*Crashing*), so every recovery finds a host its script fits. The order of the steps
  in the scripts is proved in lemmas of its own. Outside are the windows Migration
  names (`spoiled`). Nothing is assumed of the constants.

## 6. What is only model-checked

- Liveness and anything under fairness: Settles, UnconfirmedIsUndone, RecoverySettles,
  PicksUpWhileServing, DelegationEnds, UpdateEnds, KeysComeBack, and the liveness half
  of LinkServes. TLAPS does not reason about `ENABLED`.
- What rewriting a list of lines computes: ReleasedAndNothingElse, a part of
  HostNetInvariant, and MirrorsInvariant, whose parts about sources and components
  are about what the rewriting and removing of duplicates leave. The installed provers
  cannot instantiate the induction theorems; the one loop whose result is
  proved, the scan of releases in Self, is proved by a least counterexample instead.
- Safety properties without a theorem: ConsoleInvariant and ConsoleSteps.

## 7. What is not modelled

- Components with status `not_modelled` in `PROJECT.json`: the flare client's screen,
  raw sockets of the link, interface discovery, the text of the network plan and of
  the init configuration, software installation by package managers, environment
  checks, layout of roots, prompts, presentation, translations, argument parsing and
  test fixtures. They keep no state of their own that others rely on, or are I/O.
- Contents of files, and time: a deadline is passed or not. Writes reach the disk in
  order; a field that is recorded in memory reaches the file with the next mark.
- Several install roots at once. Service managers other than systemd, except for the
  daemon's own unit (Self); the routers of other init systems are started and stopped
  through the same interface.
- `purge_root`, `observe_initialization`, the rewrite of a same-version install, and
  code nothing reaches (`recover_migration` in `recovery.rs:295-341`, the fallback of
  `rollback_restore`).
- Left out of Console: layout, scrolling, colours; a backup that was just created
  appears as a change of the world.
