# Verification of the DRM ID kernel virtualizer

TLA+ models of the Widevine `deviceUniqueId` virtualizer, TLC runs on small
instances, and TLAPS proofs.  Names, files and line numbers refer to `src/`;
`PROJECT.json` maps every definition to the lines it models.

## 1. The system

A daemon, started as root by the SKRoot module manager, installs a *before
hook* on the kernel function `binder_ioctl`.  Whenever a thread of a Widevine
HAL process enters the Binder driver, the hook looks at the commands it hands
over (the BC stream) and, after the original function, at the ones it gets (the
BR stream).  A received `IDrmPlugin.getPropertyByteArray("deviceUniqueId")`
request is remembered per thread; the reply to it is overwritten in the HAL's
own buffer with a 32-byte virtual ID (Write mode) or only counted (Dry-run
mode).  Mode and ID are a *runtime configuration*, which a WebUI changes while
the hook is running.

| Component | Source | State | Operations |
|---|---|---|---|
| runtime configuration slots | `binder_hook_builder.cpp` 167-187, 904-1074, 1632-1787; `kernel_context.h` | two slots, active index, switch counter | publish (fill, count, flip); capture, check, copy by HAL threads |
| pending correlation | `binder_hook_builder.cpp` 125-165, 224-544, 831-1240, 1371-1591 | buckets of slots with frame stacks, lock word, identity generation | try-lock, push, pop, evict, release; parse and replace a reply |
| HAL monitor | `control_ipc.cpp` 48-250, 388-597; `hal_identity.cpp` | published identity set, backend, pidfds, backoff | initialise, poll, clear, rescan, adopt, stop |
| control plane | `web_ui.cpp` 395-513, `control_ipc.cpp` 265-635, `runtime_control.cpp`, `module_main.cpp` 502-572 | control file, active configuration, socket backlog | apply request, status, publish, restart |
| daemon lock | `file_lifecycle.cpp` 193-358, `module_main.cpp` 337-351, 920-965 | lock file, flock, pid text | acquire, write pid, release, probe, state removal |
| WebUI session | `web_ui.cpp` 190-342 | token, open flag, last activity, close flags | open, ping, close, watchdog, delayed server close |
| record files | `runtime_control.cpp` 75-316, `runtime_profile.cpp` 299-477, `device_id_fingerprint.cpp`, `file_lifecycle.cpp` 60-191 | control file v3, legacy v2, seed, fingerprint, temporaries | write-fsync-rename-fsync, validate, migrate, create, clean up |
| startup readiness | `startup_readiness.cpp`, `module_main.cpp` 352-396 | stability window, cached pids | boot wait, sample, judge, fall back |
| daemon lifecycle | `module_main.cpp` 325-965, `binder_hook_builder.cpp` 1595-1703, 1853-1875 | place in the start sequence, installed hook, capability record | clear, wait, fingerprint, resolve, install, self-test, serve, remove, uninstall |
| stream and parcel parsing | `binder_hook_builder.cpp` 551-902, 1242-1369 | position in a command stream | bounded walk, descriptor match |
| event ring, counters | `binder_hook_builder.cpp` 524-549 | ring of events, counters | reserve, publish |
| `binder_ioctl` resolver | `binder_ioctl_resolver.cpp` | capability record | follow SDK offsets, scan, cross-validate, classify the entry |

Interactions.  HAL threads and the daemon share the kernel context: the daemon
writes configurations and identity sets with `write_kernel_mem` and an index
with a store-release, threads read them with load-acquire and guard the pending
table with a try-lock.  The WebUI process talks to the daemon over a Unix
socket that one loop serves, and hands configurations over in a file.  HAL
processes are watched with pidfds, or `/proc` is scanned.  Daemon instances and
WebUI probes meet at the lock file.

What is hard: word-by-word writes under readers without a lock; a try-lock that
drops work; threads that nest requests, end, and have their `task_struct`
reused; HAL restarts at any point of scan, `pidfd_open` and publication; steps
of an apply that fail or are cut off by the end of either process; instances
that race for a file that its owner unlinks; power loss between the steps of a
record's replacement; a hook that outlives its daemon; a server that is closed by
a thread that sleeps first.  The `hazards` of `PROJECT.json`
list these at their lines.

## 2. Modules

**ConfigSlots** (with **AtomicConfig**, **ConfigSlotsProofs**).
`publish_runtime_config` is split into its kernel accesses: the snapshot and the
choice of the inactive slot (`BeginPublish`), the words of the slot in any
order (`FillWord`), the counter (`CountSwitch`), the index (`Flip`), and a
failure between any two (`PublishFails`).  A reader captures the slot address
and later reads mode and ID from it; the ID is copied in two halves, enough to
see a mix.  `AtomicConfig` is what the two slots are for: one register.

**PendingHook** (**MCPendingHook**, **PendingHookProofs**).  Each thread has a program counter through
its ioctl; each critical section is three steps (lock; search; use and
unlock), so threads interleave between them and a thread may stop for ever
inside.  The pending request frames live in `slots`; `stack` is what the thread
is really serving, which the hook does not see.  The history variable `causes`
collects, while the thread has frames, the events that can set the two apart:

- `contention`: a push or pop gave up on the lock;
- `unparsed`: the BC stream was capped or unreadable, no pop took place;
- `retry`: the driver did not take the reply, the hook will parse it again;
- `nested`: another kind of request arrived in between, pops do not tell;
- `overflow`: the stack was full, the frame was dropped;
- `reuse`: the thread ended and another, of the same HAL or of another one, got
  its `task_struct`.

There are several HALs, as many as `Hals` has; an identity set names any subset,
each HAL by the tgid it has then, so that a restarted HAL is not tracked before
it is named again.  The history variable `pushed` holds the frames pushed since a
HAL's process started.

Tasks hash to buckets which share only the lock word, so one bucket is
modelled; contention from other buckets looks the same.  Recognising a request
in a parcel is a choice of the environment (`ReceiveDeviceId` or
`ReceiveOther`), and so is whether a reply has the right form (`fits`).

**HalMonitor** (**HalMonitorProofs**).  `run_control_socket_server` as a loop that blocks in poll:
pidfd event, timeout, client, signal, end of the allotted time.  Rediscovery is
one step per inspected process, so a HAL may start or end inside a scan.  Every
kernel access, `opendir`, `poll`, `accept4` and `pidfd_open` may fail, within
`MaxFaults`.  `publish_hal_identities` is one step; its two slots follow the
same protocol as ConfigSlots.  `MaxGeneration` stands for `UINT64_MAX`, and the
model reaches it.

**ControlPlane** (**ControlPlaneProofs**).  `handle_apply` step by step (status request, file and
comparison, persist, apply request), the daemon's side of both requests, daemon
stop and restart, end of the WebUI process at any step.  Within a process
`lock_` serialises the handlers.  `OneUi` says that the manager runs one WebUI
process at a time; it is an assumption about the manager, and nothing in `src/`
enforces it.

**DaemonLock** (**MCDaemonLock**, **DaemonLockProofs**).  One step per system call on the lock file,
for daemon instances and for `daemon_lock_owner_alive`.  Inodes are numbered as
they are created; kills may come at any step; removal of the module's state
(uninstall, boot-cleanup marker) unlinks the file.  A daemon's pid is its own
while it lives; afterwards any process may have it, which `kill(pid, 0)` cannot
tell, whether it succeeds or fails with `EPERM` (`other` in `ProbeKill`).

**StartupReadiness** (**MCStartupReadiness**,
**StartupReadinessProofs**).  The wait for
`sys.boot_completed`, then `wait_for_adaptive_startup_readiness` in
milliseconds: properties and cached pids are read (`SampleCached`), `/proc` is
scanned and the sample judged (`ScanProcesses`, `ScanFails`), `Sleep`,
`DeadlineFallback`.  Processes start, end, become zombies, are reaped and use
CPU time at any point.  The six properties are one condition, since the code
only asks whether all hold; a scan of `/proc` is one step.

**RecordFiles** (**MCRecordFiles**, **DurableRecord**,
**RecordFilesProofs**).  Every record is replaced
by the same steps, one action each: open the temporary, write, sync, rename,
sync the directory (`write_record`, `write_seed_file`, `write_record_at`; they
differ in `O_EXCL` and a name with the pid for the seed, and in that only the
fingerprint's writer reports a failed directory sync).  Around them, a daemon
start: seed orphans, fingerprint, seed, v2 to v3 migration, legacy cleanup,
control record; and the WebUI's apply.  Processes are killed at any step, any
operation may fail, power may be lost.  The file system is external: unsynced
contents may be lost (`Torn`), directory operations reach the disk in order and a
rename as a whole (`versions` holds the directories a power loss may leave).
`DurableRecord` is the promise: a register whose value is always whole, also
after a power loss.  The seed is created by the daemon only: the WebUI's
"derive" calls the same function, but the seed exists while a daemon serves.
A record carries the fingerprint of its own ID; a v2 record that
`validate_v2_record` accepts although its fingerprint is another one
(`runtime_control.cpp:158-164`, `module_main.cpp:545-548`) is not modelled, since
no version wrote such a record.

**BinderResolver**.  Pure operators: from what the SDK offsets lead to and which
symbols are visible to the resolved function, the cross-validation, and the
classification of the entry over classes of instructions.  Symbols of the other
Binder backend (`binder_ioctl_resolver.cpp:792`) and symbols outside the kernel
text (815) are left out: each is one more reason to refuse, and every refusal is
a step of the model already (`StartFails`).

**DaemonLifecycle** (**MCDaemonLifecycle**, **DaemonLifecycleProofs**).  The start sequence of
`run_readonly_parser_probe` with its early returns, installation, self-test,
serving, removal, `module_on_uninstall`, the cleanup marker, kills and reboots,
over a set of kernels for BinderResolver.  Which kernel runs is chosen when a
resolver first accepts it, so that kernels nobody accepts cost no states.  The
SDK is external: a hook replaces the first or second instruction and removal may
leave a branch to a disabled trampoline (`binder_ioctl_resolver.cpp:421-426`).
The hook counts the calls of the daemon that installed it and of the HALs, and
the self-test asks for a minimum over a window that `DRMID_OBSERVE_MS` widens:
`called` is the set of entries those processes call, among them `compat_ioctl`
if a 32-bit HAL runs, and `Counted` asks whether the hooked entry is one of them.
The lock is reduced to one owner and a file that a cleanup may unlink;
DaemonLock has its races, StartupReadiness the wait, RecordFiles the records,
ControlPlane and HalMonitor the serving.

**WebSession** (proofs in **ControlPlaneProofs**).  Pages, the handlers as sections under `lock_`
(`handle_session_close` and the daemon calls are two: authentication, then the
effect), the watchdog, closing threads that sleep, the end of the server.  Time
passes in heartbeats of 4 s, so that the limits of 12 s and 15 s are 3 and 4; the
80 ms sleep is less than one.  `slow` marks a lock held for one heartbeat less
than a session may be idle.

Operators whose comment begins "Faulty variant" are not used by any
specification.  Each is a plausible bug in the operation that follows it, and
the project keeps them to show that the properties notice.

## 3. Runs

| Run | Instance | What it shows |
|---|---|---|
| `config_slots` | 1 reader, 2 IDs, 3 generations | A reply is treated under the configuration in force at its capture, over failed publications and one completed one (`UnlappedReplyCoherent`); the switch count never lags (`SwitchesNeverUndercount`); the active slot refines `AtomicConfig` (`PublicationIsAtomic`) |
| `config_slots_torn` | 1 reader | **violated**: two publications inside one parse mix two IDs |
| `pending_hook` | 2 threads, 1 way, depth 1, 3 requests, nesting 2 | Only the reply to the recorded request is replaced, unless disturbed (`ExactUnlessDisturbed`); a running thread leaves the hook even if the holder of the lock never runs again (`HookCompletes`) |
| `pending_generations` | 1 `task_struct`, 2 HALs, depth 2, 3 requests, nesting 3, 3 generations, 3 incarnations | The same over restarts of two HALs, publications that name either or both, and a full stack; no reply of a HAL process takes a frame pushed before the process started (`NoFrameOlderThanHal`) |
| `pending_eviction` | 3 threads, 2 ways | Only the oldest slot of a full bucket is taken over (`EvictsOldestOnlyWhenFull`); the table is sound whenever unlocked, no thread gets two slots (`TableWellFormed`) |
| `hal_monitor` | 2 HALs, sets of 1, 12 generations, 1 fault, 1 client | Whenever the loop blocks every published process is watched or will be rescanned (`NothingUnwatched`); sets change only through the empty set (`EmptyBeforeNew`); a stopped daemon leaves none (`StoppedUntracked`); ended processes leave the set, a running one is found while none is tracked, stop requests end the server |
| `control_plane` | 2 WebUI processes one after the other, 2 IDs, 3 generations, 2 stops, 1 fault | Success means effect, also over a restart between persisting and publishing (`SuccessTakesEffect`); the file is never behind the hook (`FileNotBehind`), and restores what runs unless an apply was split (`RestartKeepsRunning`); every request is answered (`RequestsAnswered`) |
| `daemon_lock` | 3 instances, 1 probe, 3 inodes, 1 removal | One daemon at a time, and the path leads to its file, unless the file was removed while another instance had it open (`OneOwnerUnlessRaced`); a probe reports the daemon that runs throughout, and no pid of an ended one but while the new owner has not written its own and the old pid has passed to another process (`ProbeReportsOwner`) |
| `startup_readiness` | 3 pids, 3 changes of the system, windows of 2500 ms in 5000 ms and of 5500 ms in 5000 ms, polls of 1000 ms | The gate opens on stability only after a whole window of the same processes (`StableMeansWindow`); with a ready system the deadline decides only if something changed within the last window or the window does not fit (`FallbackMeansUnsettled`); it always opens or gives up (`GateOpens`) |
| `record_files` | 2 WebUI processes, 2 pids, 8 inodes, 2 chosen IDs, 2 applies, 3 failures, kills or power losses | Nothing a crash left makes a later start fail (`StartSurvivesCrashes`); what was reported as written survives (`ReportedSurvives`); the migration never loses the v2 ID (`MigrationKeepsId`); a start never replaces a control record, not even by a v2 record that could not be removed (`OnlyWebUiReplaces`); the control file refines `DurableRecord` (`RefinesDurableRecord`) |
| `daemon_lifecycle` | 2 daemons, 2 boots, 2 hooks a boot, 77 kernels, 1 kill, 1 cleanup | No entry is hooked twice (`NoStackedHooks`); a daemon serves only on `unlocked_ioctl`, or on `compat_ioctl` where the resolver cannot tell the two apart and a 32-bit HAL runs (`ServingHookIsRight`); every way out of a daemon removes its hook, unless it is killed or the SDK fails (`LiveHookHasDaemon`); the recorded fingerprint is the original's (`FingerprintIsOriginal`); the capability record is of this boot (`CapabilityIsCurrent`); daemons come to serving or to their end, whatever threads stay inside the hook (`DaemonSettles`) |
| `web_session` | 2 pages, limits of 3 and 4 heartbeats | The server does not close on the page that uses it, but for three named races (`ActivePageKept`); a port no page uses closes (`PortCloses`) |

Why these bounds.  The interesting cases need few elements: a torn read needs
one reader and two publications after the capture, and readers write nothing
that another one reads (the proof is for any number); eviction needs one thread more than
ways, and two ways to have a choice; a stack at its depth with a nested request
above it needs depth + 1 requests; a frame that passes from one HAL to another
needs two of them, and one that passes to a later process of either needs two
publications with a restart between them; a missed HAL needs one that ends and one that
starts within a scan, and more HALs than the set holds need `Limit + 1`; two
daemons need an owner that leaves, one that waits and one that comes; a reused
pid needs an end, a reaping and a start, and then a window of three samples
before a deadline of five; a record that is lost needs a write, a failure in it
and a crash; two writers of one temporary need two processes; a stacked hook
needs one daemon that leaves its hook and a second one; a page closed by another
needs the two.  The safety properties of HalMonitor hold as well with three HALs
and sets of two, a larger instance without liveness than the run's.  Symmetry
is used for threads in `pending_eviction`, for HALs in `pending_generations`, for
daemons and probes in
`daemon_lock`, and for WebUI processes, pids and chosen IDs in `record_files`,
where no liveness is checked and no definition names an element.

Each module states its type invariant `TypeOK`.  The runs of ConfigSlots,
HalMonitor and ControlPlane list it, where it carries a bound that the code has
to keep (the active slot, the rediscovery delay, the last generation); in the
other modules it documents the state.

Deadlock is checked except in ControlPlane, DaemonLock, StartupReadiness,
RecordFiles and WebSession, whose processes end: all WebUI processes gone, all
instances and probes done, the gate passed, a serving daemon after the last
apply, or the exited server is a final state.

### Fairness

- PendingHook: weak fairness of the hook steps of the threads in `Live`.  The
  hook does not block (the lock gives up after `kMapLockTryCount` attempts), so a
  thread that is scheduled goes on; no fairness for others, for HAL code or for
  the driver.
- HalMonitor: weak fairness of the daemon's steps, timeouts included (poll
  returns when its timeout is over), and of clients: `send_control_ipc_request`
  writes at once, and a process that ends closes its connection.  HAL processes,
  signals and the runtime limit are not fair: they need not happen.
- StartupReadiness: weak fairness of the daemon: it is scheduled and its sleeps
  end.  Nothing is assumed of Android; boot need not complete.
- ControlPlane: the daemon serves its backlog (one poll loop) and a WebUI thread
  inside `handle_apply` goes on.  Nothing is assumed of restarts.
- DaemonLifecycle: weak fairness of each daemon's steps: none of them waits
  without a limit but serving, which goes on until kStop (`ServeFails` is not
  fair).  Nothing is assumed of threads inside the hook: they need not leave.
- WebSession: handlers and the watchdog get `lock_`, timers fire, time passes,
  and the daemon answers.  The last is an assumption about the daemon, since
  `send_control_ipc_request` has no timeout; RequestsAnswered of ControlPlane is
  the other side of it.

### What the violated run says

`config_slots_torn`.  `binder_hook_builder.cpp:167-170` says that a captured
transaction "sees one complete generation from rule check through final byte
copy".  That holds for one publication during the parse.  A second one writes
into the captured slot.  What holds is `UnlappedReplyCoherent`.

The models reach some more states that are worth knowing, for which no document
says otherwise or only loosely: only recognised requests are pushed but all
replies pop, so that the reply to a nested request of another kind takes the
outer frame (cause `nested`); a pop dropped on contention leaves a frame which
the thread's next reply takes (cause `contention`); `emit_pending_pop` does not
compare pid and tgid, so that a reused `task_struct` may pop its predecessor's
frame (cause `reuse`), `emit_pending_push` does compare; with two HALs in one
identity set the predecessor may be a thread of the other HAL, since only a new
generation ends the life of a frame, and the reply of one process then takes the
frame of another; a WebUI probe that
holds a stale lock makes a starting daemon exit; SIGTERM between the loop
condition and a poll without timeout is noticed only at the next event (the
exception in `StopHonoured`); with two concurrent WebUI processes
(`OneUi = FALSE`) none of the first three ControlPlane properties holds, because
the generation comes from a status answer that may be stale; when system_server
or surfaceflinger ends and its pid passes to another process,
`sample_processes` takes that process for it until there is one of the right
name, and a zombie with a higher pid hides the running one; a `stable_ms` as
long as the deadline, which `startup_readiness_policy_from_environment` produces
when it raises the deadline, can never be reached (the exceptions in
`StableMeansWindow` and `FallbackMeansUnsettled`).

Further:

- `README.md:11` and `webroot/index.html:39` say that without an ID source the
  current ID is kept.  `handle_apply` keeps the ID of the *file*, which after a
  failed publication is not the current one (the `split` of
  `RestartKeepsRunning`): such a request is answered 200 with another ID running.
- An instance that opened the lock file before its owner unlinked it locks an
  orphaned inode, and one that comes later makes a new file: two daemons run (the
  `raced` of `OneOwnerUnlessRaced`; compare `tests/test_file_lifecycle.py:171`).
- A second HAL that starts while another is watched through a pidfd is not
  discovered until that one ends.
- Two processes that replace the control record at the same time share a
  temporary, and a damaged record may result; a daemon then refuses to start
  until the file is removed (the `contended` of RecordFiles).  The daemon writes
  it only when it starts, and the WebUI only when a daemon serves, so that it
  takes two WebUI processes.
- A killed daemon leaves its hook live until the reboot.  A new daemon finds the
  entry occupied and gives up; identities and configuration stay as they were.
  If the fingerprint record is missing by then, the new daemon records the
  fingerprint of the virtual ID before it finds out.
- Where the Binder symbols are visible only in part, the resolver may accept the
  compat entry or another function.  The self-test's counters keep a daemon from
  serving with it, but for one case: they count every tracked process and are
  lower bounds, so that on the compat entry the calls of a 32-bit HAL can pass
  for the daemon's own (the exception in `ServingHookIsRight`).
- Between `flock` and `write_daemon_lock_pid` of a new owner the file may still
  hold the pid of a killed one.  If that pid belongs to another process by then,
  `daemon_lock_owner_alive` reports it (the exception in `ProbeReportsOwner`).
- When the daemon stops while a request is being prepared, and the file was not
  what ran, the daemon comes back with the generation that the request is about
  to write; an equal generation counts as applied, and the request is answered
  200 without effect (the `restarted` of `SuccessTakesEffect`).
- Uninstallation stops a serving daemon only; one that still waits for the boot
  goes on, without its files, and installs its hook.
- `handle_session_close` authenticates in one section under `lock_` and closes
  in the next, whose session it is not asked again: a page that opens in between
  loses its server (`crossed`).  So does one that opens in the 80 ms before a
  close (`reopened`), and one whose heartbeats wait for two periods behind a
  handler that holds `lock_` while the daemon does not answer (`slow`).  None of
  the three exceptions of `ActivePageKept` can be left out.

### Exceptions

Several properties have an exception in the form of a history variable or a
clause: `causes`, `raced`, `restarted`, `split`, `contended` and `lossy`,
`reopened`, `crossed` and `slow`, `orphaned`, the signal in `StopHonoured`, and
those of `ProbeReportsOwner` and `ServingHookIsRight`.  Most of them are hazards
of `PROJECT.json` by themselves: there the code does go wrong, as listed above.
A property with such an exception does not check that hazard; it documents it and
delimits it, saying that nothing else leads to the same failure.  Each exception
is set by the events that cause the failure and not by the failure, and none can
be left out: TLC finds a violation without it, for `causes` with each of the six
alone.

## 4. Proofs

Each `...Proofs` module extends its specification and proves, for every value of
the constants, what the runs check on one instance.  ControlPlaneProofs has a
second part about WebSession, the other half of `web_ui.cpp`, which it
instantiates as `Web`.  TLC looks at a few threads,
daemons or pids; the theorems hold for any number of them, and for any bound on
events, failures, kills and generations.

| Module | Theorem | States |
|---|---|---|
| ConfigSlotsProofs | `TypeCorrect`, `ReplyCoherence`, `SwitchCount` | `Spec => []TypeOK`, `[]UnlappedReplyCoherent`, `[]SwitchesNeverUndercount` |
| | `Refinement` | `Spec => PublicationIsAtomic`: the two slots implement the register of AtomicConfig |
| PendingHookProofs | `TypeCorrect`, `TableSound`, `NoOlderFrame`, `ExactReplies` | `Spec => []TypeOK`, `[]TableWellFormed`, `[]NoFrameOlderThanHal`, `[]ExactUnlessDisturbed` |
| | `EvictsOldest` | `Spec => EvictsOldestOnlyWhenFull`, an action property |
| DaemonLifecycleProofs | `TypeCorrect`, `Unstacked`, `ServesRightHook`, `NoLostHook`, `OriginalFingerprint`, `CurrentCapability` | `Spec => []TypeOK`, `[]NoStackedHooks`, `[]ServingHookIsRight`, `[]LiveHookHasDaemon`, `[]FingerprintIsOriginal`, `[]CapabilityIsCurrent` |
| DaemonLockProofs | `TypeCorrect`, `SingleInstance`, `ProbeSound` | `Spec => []TypeOK`, `[]OneOwnerUnlessRaced`, `[]ProbeReportsOwner` |
| HalMonitorProofs | `TypeCorrect`, `Unwatched`, `Untracked` | `Spec => []TypeOK`, `[]NothingUnwatched`, `[]StoppedUntracked` |
| | `ThroughEmpty` | `Spec => EmptyBeforeNew`, an action property |
| ControlPlaneProofs | `TypeCorrect`, `SuccessReal`, `FileCurrent`, `RestartSame` | with `OneUi`: `Spec => []TypeOK`, `[]SuccessTakesEffect`, `[]FileNotBehind`, `[]RestartKeepsRunning` |
| | `PageKept` | with `SessionAssumption`: `Web!Spec => []Web!ActivePageKept` |
| RecordFilesProofs | `TypeCorrect`, `StartsSurvive`, `ReportsSurvive` | `Spec => []TypeOK`, `[]StartSurvivesCrashes`, `[]ReportedSurvives` |
| | `MigrationKeepsLegacyId` | with `LegacyIsOwn`: `Spec => []MigrationKeepsId` |
| | `OnlyTheWebUiReplaces` | `Spec => OnlyWebUiReplaces`, an action property |
| | `Refinement` | `Spec => RefinesDurableRecord`: the control file implements the register of DurableRecord |
| StartupReadinessProofs | `StableWindow`, `FallbackUnsettled` | `Spec => []StableMeansWindow`, `[]FallbackMeansUnsettled` |

### Assumptions

Nothing is assumed but what the constants stand for: bounds are natural numbers
(`BoundsAssumption`, `BoundAssumption`, `BootAssumption`), sizes and last
generations are positive (`SizeAssumption`, `LimitsAssumption`,
`GenerationAssumption`), values that mean "nobody" or "nothing" are not one of
the things (`NoneAssumption`, `NoConfigAssumption`, `ProcessAssumption`,
`LifecycleAssumption`), the HAL's own bytes are not one of the IDs
(`RealAssumption`), the derived ID is an ID (`DerivedAssumption`).
DaemonLifecycle's kernels are of the form BinderResolver describes, with entries
at least as long as what `classify_entry` looks at (`EntryAssumption`).
StartupReadiness's pids are above 1, as `process_alive` asks, and up to a largest
one, `PidMax`, as the kernel's are (`PidAssumption`); CPU bursts are numbers of
ticks (`BurstAssumption`).  RecordFiles' inodes are positive numbers, among them
the two files of an updated installation (`InodeAssumption`); the name of a seed's
temporary, which ends in a pid, is no other file's (its `PidAssumption`); no valid
record is the absent or the damaged one (`RecordAssumption`).  TLC evaluates all
of them in the runs.

The theorems of ControlPlaneProofs have the hypothesis `OneUi`, that the manager
runs one WebUI process at a time.  It cannot be left out: with two,
`FileNotBehind` is false (section 3), and TLC shows it.

`MigrationKeepsLegacyId` has the hypothesis `LegacyIsOwn`, that the ID of the v2
record is neither the derived one nor one of those chosen in the WebUI, as it is
in the run.  `MigrationKeepsId` recognises a migration by that ID alone.  Were the
same ID chosen again later, and the directory sync after its rename failed, its
loss would be the `lossy` case which `write_record` reports as success, and no
fault of the migration.

`PageKept` has the hypothesis `SessionAssumption`, a part of what WebSession
assumes itself: the limits are numbers, a session may be idle for more than one
heartbeat (`kSessionIdleTimeout` is three), and no page is `NoPage`.

### The arguments

None of the properties is inductive as it stands.  Each module has an inductive
invariant `IInv`, a conjunction of named parts, which was model-checked on the
run's instance before it was proved.

*ConfigSlots.*  `UnlappedReplyCoherent` speaks of the end of a parse, so the
invariant has to follow a reader through it.  `PublisherInv`: while the publisher
works its target is the *inactive* slot, its generation is larger than the active
one, and every word that is no longer to do has the value of the new
configuration.  `ActiveInv`: the active slot is the image of one configuration.
`ReaderInv(r)`: a reader whose slot was not chosen again still finds the
configuration it saw there, and what it has done so far fits it; if a
publication is under way whose target is the reader's slot, the reader is lapped.
`FillWord` writes a slot, but never the active one and never that of a reader
that is not lapped; `Flip` makes the target active when nothing is left to do;
`BeginPublish` lets exactly the readers of the inactive slot become lapped.  The
refinement follows: `Flip` is a `Publish` of the register, all others leave the
active slot alone.  The switch count has its own invariant: it is ahead by one
between `CountSwitch` and `Flip`.

*PendingHook.*  `LockInv` is mutual exclusion.  `TableInv` says what
`TableWellFormed` says, but also while the lock is held, and that frames are
ordered by generation too.  `LookupInv`: what a critical section found in one
step still holds when it acts on it in a later one; this is what makes the
eviction an eviction of the oldest.  `GenerationInv`: while the gate lets threads
of a HAL in, frames that are older than its process are of an earlier generation,
hence never correlated (`NoFrameOlderThanHal`): a process is named only in a
publication after its start, and that has a new generation.  Frames of the same
generation may be another HAL's.  `RequestInv` and `GateInv` tie a thread's place
to its innermost request.  `MatchInv` is the heart of `ExactUnlessDisturbed`:
counted from the top, the frames of the current generation in an undisturbed
thread's slot are its innermost requests, all of them for `deviceUniqueId`;
between pop and reply, and between a request and its push, one request is ahead.
A reply that passes by the hook while nothing is tracked breaks this, but leaves
only frames of an older generation; eviction takes away a whole slot; both keep
the claim.

*DaemonLifecycle.*  `SessionInv`: from installation to removal a daemon has a
live hook, and no two have the same.  `AloneInv`: until `raced`, at most one
daemon is past the lock, and the entry it is about to patch carries no
trampoline.  The latter rests on a lemma about the resolver alone
(`AcceptedUnpatched`): no entry that `classify_entry` accepts has a hook, live or
disabled, at either of the two sites.  `ServesRightHook` has two halves.  The
self-test lets only entries through that a tracked process calls, `unlocked_ioctl`
or `compat_ioctl`.  For the second a lemma about the resolver
(`AcceptedAmbiguous`) says that it accepts `compat_ioctl` only where the SDK's
offset leads there or the symbol of `unlocked_ioctl` is hidden, and `CompatInv`
carries that from resolution to serving.

*DaemonLock.*  `LockInv` relates descriptors, locks and places; `PathInv` is the
single-instance argument: unless the file was removed under a daemon, the path
leads to whatever a daemon has open, so any two have opened the same inode, and
flock lets one through.  `TextInv` and `ProbeInv` follow a pid from the file into
the probe that reads it.  `WrittenInv` (a running daemon has its pid in its file)
and `MetInv` (a probe that met a running daemon finds its pid, as long as it runs)
are for the first half of `ProbeReportsOwner`, that the probe does report it.

*HalMonitor.*  `KnownInv`: the daemon's copy of the identity set is the kernel's.
`WatchInv`: the backend says how that set is watched.  `ScanInv`: what a scan
found replaces nothing but the empty set or itself.  `ThroughEmpty` needs the
last, across the steps between the end of a scan and the publication.

*ControlPlane.*  `QueueInv`: the backlog holds requests of ended processes, then
at most one of the running process.  `LoadedInv`: nobody writes the file between
the two halves of an apply request.  `FileInv`: the file is at most one
generation ahead of the hook, and without `split` only while a request is on its
way.  `DraftInv(u)`: what a request read is still current or one behind when it
is persisted; without `restarted` it is what runs, or what the daemon comes back
with.

*WebSession.*  `ActivePageKept` is a matter of history, so `KeptInv` says why
nothing can close the server on the page that got the last token: its session is
open, nobody else has a token, no closing thread sleeps, no authenticated close
request is on its way, and it has been idle for at most one heartbeat more than
`lock_` was held, or not at all if its heartbeat is neither due nor at the server.
The watchdog would need `IdleTimeout`, which `SlowInv` puts out of reach: until
`slow`, `lock_` was held for fewer than `IdleTimeout - 1` heartbeats.
`PageInv` says that only ended pages send close requests, hence never the one in
use.  `Open` starts all this afresh: the exceptions `reopened` and `crossed` are
what it would have to rule out.

*RecordFiles.*  The state of the disk is a set of directories, any of which a power
loss may leave, so the invariant speaks of all of them.  `NameInv`: no file has two
names in any of them, and a temporary is not a record in any.  Until `contended`,
`WholeInv`: what any of them holds under a record's name is synced and whole;
`WriterInv`: a writer has its temporary to itself, and from the write on it holds
what the writer was to write.  `JobInv`, `SoloInv` and `OrderInv` are about who
writes: the daemon only what is missing, and the control record only while no WebUI
process does; a WebUI process only what is there; records only appear, and the v2
record only disappears.  With these a rename publishes a whole, synced file and all
other steps leave records alone (`ReadsKept`, `RecordsKept`), which is what
`OnlyTheWebUiReplaces` and the refinement rest on: the rename is the `Replace` of
the register, a directory sync its `Harden`.  `StartsSurvive` needs `OrphanInv`
(without a failure the orphans are gone before a seed is written, so that `O_EXCL`
does not fail) and `ReadInv` (what was renamed is what the verification reads).
`ReportsSurvive` needs `AttemptInv` and `NowInv`: what is read is what was reported
or is being written.  The migration needs `MigrateInv`: until it is reported, no
directory holds a control record with another ID, so that whatever a power loss
leaves is the new record or the v2 record; and `CleanInv`: the v2 record is
removed only when there is a control record.

*StartupReadiness.*  `ProcInv`, `LiveInv` and `KnownInv` relate pids, their
processes and what samples saw of them, over reuse.  `WindowInv` is the window:
the last `k + 1` samples saw the same processes, and `k` polls are at least what
`stable` counts.  `QuietInv` is its converse for the deadline: while nothing
changes every sample sees the system as it is, and adds to `stable`.

### Only model-checked

- Liveness and everything under fairness, which is out of the prover's reach:
  `HookCompletes`, the three liveness properties of HalMonitor, `RequestsAnswered`,
  `GateOpens`, `DaemonSettles`, `PortCloses`.
- `config_slots_torn`, which is violated.

All other properties of the runs are proved.

## 5. Not modelled

- Layout, CRC and JSON of records and messages; the event ring and logging, which
  nothing but reports reads; the values of the counters, which the self-test reads
  too: DaemonLifecycle has whether they grow (`Counted`), not how much.
- Cryptography of the derived profile; a derived ID is one value.
- The decoding of single instruction words and the walk from the current task
  to the Binder file in the resolver: an instruction is its class, and a failing
  walk is a failing start.
- The foreground probe mode of `module_main.cpp` with its observation window,
  and hooks that third parties install between resolution and installation.
- The removal of development files in the public temporary directory.
- Environment variables that change a daemon for development
  (`DRMID_REGENERATE_SEED`, `DRMID_CONFIG_ONLY`, `DRMID_RESOLVE_ONLY`, path
  overrides), and an `unlink` of the stale capability record that fails.
- The bounded walk over command streams and parcels, whose outcomes are choices
  in PendingHook: its code is a generator of instructions, and a model of what
  they compute would say nothing beyond the bounds the generator writes down.
- The memory model below acquire/release: `Flip` is a store-release and
  `Capture` a load-acquire, so that the words of a slot are ordered before the
  index; relaxed reads of a slot that is overwritten are the mixes of words that
  `FillWord` makes visible.
- Development probes, packaging, build files, the SKRoot SDK, CivetServer and
  the Binder driver; the last three appear as external actions.

## 6. Where it stands

All components of section 1 but those of section 5 are modelled.  Every safety
property that a run checks, action properties and both refinements included, is
proved for all values of the constants; liveness is model-checked.

Worth modelling next: a composition of PendingHook with HalMonitor, in which
`PublishIdentities` is the monitor's and `EmptyBeforeNew` is used for
`NoFrameOlderThanHal`.
