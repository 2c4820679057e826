-------------------------- MODULE DaemonLifecycle --------------------------
(***************************************************************************)
(* The life of the daemon around its kernel hook (module_main.cpp, the     *)
(* installation and removal in binder_hook_builder.cpp): take the lock,    *)
(* clear what an earlier boot left, wait for the boot, record the original *)
(* fingerprint, resolve the entry, install the hook, test it, serve,       *)
(* remove it.  A step may fail, the process may be killed anywhere, the    *)
(* module may be uninstalled meanwhile, and the hook is entered by         *)
(* kernel threads that nobody waits for.                                   *)
(*                                                                         *)
(* The SKRoot SDK (external): an installed hook replaces the instruction   *)
(* at the entry or the one after it by a branch to a trampoline; removal   *)
(* restores the instruction or leaves the branch to a disabled trampoline. *)
(* A hook outlives the process that installed it, until the next boot.     *)
(*                                                                         *)
(* The lock is one owner and a file that a cleanup may unlink; its own     *)
(* steps are in DaemonLock, those of the records in RecordFiles, those of  *)
(* serving in ControlPlane and HalMonitor.                                 *)
(***************************************************************************)
EXTENDS BinderResolver

CONSTANTS Daemons,    \* processes: a new one takes the first that is free
          KernelSet,  \* the kernels the device may boot
          Hooks,      \* hooks that can be installed in one boot
          None,
          MaxBoots,   \* bound on boots
          MaxKills,   \* bound on killed daemons
          MaxCleanups \* bound on uninstallations and boot cleanup markers

ASSUME LifecycleAssumption == /\ KernelSet \subseteq Kernels
                              /\ Daemons \cup Hooks \subseteq Nat
                              /\ None \notin Daemons \cup Hooks
                              /\ None \notin KernelSet
                              /\ None \notin {"original", "virtual"}
ASSUME BootAssumption == MaxBoots \in Nat \ {0}
\* kBinderEntryProbeWords: the entry is longer than what is looked at.
ASSUME EntryAssumption == \A k \in KernelSet : Len(k.entry) >= 4

VARIABLES
  kernel, boot,  \* the running kernel, once a resolver accepted it; the boot
  called,        \* the entries that the processes a hook tracks call
  pc,            \* where each daemon is
  target,        \* what it resolved
  session,       \* the hook it installed
  stopped,       \* it answered kStop
  hook,          \* hooks of this boot
  inside,        \* the hook a kernel thread is in
  lock,          \* the owner of the lock file
  marker,        \* the boot cleanup marker exists
  fingerprint,   \* the recorded fingerprint: of the HAL's own ID or of another
  capability,    \* the boot that wrote the capability record
  uninstaller,   \* where module_on_uninstall is
  kills, cleanups,
  raced,         \* history: two daemons were past the lock
  orphaned       \* history: a live hook was left without its daemon

device == <<kernel, boot, called>>
daemon == <<pc, target, session, stopped>>
hooks == <<hook, inside>>
files == <<lock, marker, fingerprint, capability>>
bounds == <<kills, cleanups>>
history == <<raced, orphaned>>
vars == <<device, daemon, hooks, files, uninstaller, bounds, history>>

\* A hook tracks the daemon that installed it and the HALs.  The daemon and a
\* 64-bit HAL call unlocked_ioctl, a 32-bit HAL calls compat_ioctl.
Calls == {{"ioctl"}, {"ioctl", "compat"}}

NoHook == [on |-> None, site |-> 1, state |-> "unused"]
Patched == {"live", "disabled"}

\* Instructions at the entry of t, trampolines of earlier hooks included.
Words(k, t) ==
  [i \in DOMAIN EntryOf(k, t) |->
     IF \E h \in Hooks : hook[h].on = t /\ hook[h].site = i /\ hook[h].state \in Patched
       THEN "trampoline" ELSE EntryOf(k, t)[i]]

-----------------------------------------------------------------------------

Init ==
  /\ kernel = None
  /\ boot = 1
  /\ called = {"ioctl"}
  /\ pc = [d \in Daemons |-> "off"]
  /\ target = [d \in Daemons |-> None]
  /\ session = [d \in Daemons |-> None]
  /\ stopped = [d \in Daemons |-> FALSE]
  /\ hook = [h \in Hooks |-> NoHook]
  /\ inside = None
  /\ lock = None
  /\ marker = FALSE
  /\ fingerprint = None
  /\ capability = None
  /\ uninstaller = "idle"
  /\ kills = 0 /\ cleanups = 0
  /\ raced = FALSE
  /\ orphaned = FALSE

Goto(d, from, to) ==
  /\ pc[d] = from
  /\ pc' = [pc EXCEPT ![d] = to]

\* The process is gone.
End(d) ==
  /\ pc' = [pc EXCEPT ![d] = "off"]
  /\ target' = [target EXCEPT ![d] = None]
  /\ session' = [session EXCEPT ![d] = None]
  /\ stopped' = [stopped EXCEPT ![d] = FALSE]
  /\ lock' = IF lock = d THEN None ELSE lock

\* A step that changes nothing but the place of the daemon.
Step(d, from, to) ==
  /\ Goto(d, from, to)
  /\ UNCHANGED <<device, target, session, stopped, hooks, files, uninstaller, bounds, history>>

\* cleanup_module_state_files: every file, the lock's included.
RemoveFiles ==
  /\ lock' = None
  /\ marker' = FALSE
  /\ fingerprint' = None
  /\ capability' = None

-----------------------------------------------------------------------------
(* A daemon, in the order of skroot_module_main and of                     *)
(* run_readonly_parser_probe.                                              *)

\* The loader forks and executes the daemon, which takes the lock; one that
\* cannot be executed or does not get the lock exits.
Start(d) ==
  /\ pc[d] = "off" /\ \A e \in Daemons : pc[e] = "off" => d <= e
  /\ lock = None
  /\ pc' = [pc EXCEPT ![d] = "clear"]
  /\ lock' = d
  /\ raced' = (raced \/ \E e \in Daemons \ {d} : pc[e] # "off")
  /\ UNCHANGED <<device, target, session, stopped, hooks, marker, fingerprint, capability, uninstaller, bounds, orphaned>>

\* Faulty variant: the capability record of an earlier boot is kept.
ClearKept(d) == Step(d, "clear", "boot")

\* The capability record goes; a cleanup marker ends the start there.
Clear(d) ==
  /\ Goto(d, "clear", IF marker THEN "release" ELSE "boot")
  /\ IF marker THEN RemoveFiles
     ELSE capability' = None /\ UNCHANGED <<lock, marker, fingerprint>>
  /\ UNCHANGED <<device, target, session, stopped, hooks, uninstaller, bounds, history>>

\* The wait for sys.boot_completed and for readiness, with its time limit.
WaitBoot(d) ==
  \/ Step(d, "boot", "capture")
  \/ Step(d, "boot", "release")

\* What the HAL's reply may be: a live hook that it comes through may rewrite it.
Replies == {"original"} \cup
           (IF \E h \in Hooks : hook[h].on \in called /\ hook[h].state = "live"
              THEN {"virtual"} ELSE {})

Capture(d, from, to, reply) ==
  /\ Goto(d, from, to)
  /\ fingerprint' = IF fingerprint = None THEN reply ELSE fingerprint
  /\ UNCHANGED <<device, target, session, stopped, hooks, lock, marker, capability,
                 uninstaller, bounds, history>>

\* Faulty variant: the fingerprint is recorded when it is first needed.
CaptureLate(d) ==
  \/ \E reply \in Replies : Capture(d, "serve", "serve", reply)
  \/ Step(d, "capture", "resolve")

\* capture_original_id_fingerprint_if_missing and the runtime profile.  A
\* capture that fails is only logged.
CaptureFingerprint(d) ==
  \/ \E reply \in Replies : Capture(d, "capture", "resolve", reply)
  \/ Step(d, "capture", "resolve")

\* Which kernel runs, and whether a 32-bit HAL does, matters from the first time
\* it is accepted; kernels with the same target and entry are one from then on.
Running == IF kernel = None THEN KernelSet ELSE {kernel}
Accepted(t) == {k \in Running : Accepts(k, t, Words(k, t))}
OnePerEntry(kernels) == {CHOOSE k \in kernels : k.entry = e : e \in {k.entry : k \in kernels}}

\* write_binder_capability_status; a failed write has no effect on the start.
WriteCapability(written) == capability' = IF written THEN boot ELSE capability

\* resolve_binder_ioctl_from_fd, then the capability record.
Resolve(d) ==
  \E t \in Targets, written \in BOOLEAN :
    /\ Goto(d, "resolve", "install")
    /\ kernel' \in OnePerEntry(Accepted(t))
    /\ called' \in IF kernel = None /\ t = "compat" THEN Calls ELSE {called}
    /\ target' = [target EXCEPT ![d] = t]
    /\ WriteCapability(written)
    /\ UNCHANGED <<boot, session, stopped, hooks, lock, marker, fingerprint,
                   uninstaller, bounds, history>>

Unused == {h \in Hooks : hook[h].state = "unused"}

\* install_readonly_parser_hook: the context is allocated and filled before
\* the hook is inserted.
Install(d) ==
  \E site \in {1, 2} :
    LET h == CHOOSE x \in Unused : \A y \in Unused : x <= y IN
    /\ Unused # {}
    /\ Goto(d, "install", "test")
    /\ hook' = [hook EXCEPT ![h] = [on |-> target[d], site |-> site, state |-> "live"]]
    /\ session' = [session EXCEPT ![d] = h]
    /\ UNCHANGED <<device, target, stopped, inside, files, uninstaller, bounds, history>>

\* Lock record, profile, platform gate, resolver, task offsets, control record, HAL
\* discovery or installation fails: a context that was allocated is freed.
StartFails(d) ==
  \/ Step(d, "clear", "release")
  \/ Step(d, "capture", "release")
  \/ Step(d, "resolve", "release")
  \/ Step(d, "install", "release")

\* The counters grow by at least the number of the daemon's own empty calls.
\* They count every process the hook tracks: the calls of a HAL can stand in
\* for the daemon's, which a hook on another entry does not meet.
Counted(d) == hook[session[d]].on \in called

\* Faulty variants: it is enough that the self-test's calls succeed; a daemon
\* whose self-test failed returns at once.
SelfTestUncounted(d) ==
  \/ Step(d, "test", "serve")
  \/ Step(d, "test", "remove")
SelfTestReturns(d) ==
  \/ Step(d, "test", "serve") /\ Counted(d)
  \/ Step(d, "test", "release")

\* Calls that are not counted, or fail, and failing snapshots end the test.
SelfTest(d) ==
  \/ Step(d, "test", "serve") /\ Counted(d)
  \/ Step(d, "test", "remove")

\* run_control_socket_server returns: after kStop, or for an error or the
\* configured time.
EndServing(d) == stopped[d] /\ Step(d, "serve", "remove")
ServeFails(d) == ~stopped[d] /\ Step(d, "serve", "remove")

Removed(d, left) ==
  IF left THEN [hook EXCEPT ![session[d]].state = "disabled"]
          ELSE [hook EXCEPT ![session[d]] = [NoHook EXCEPT !.state = "gone"]]

\* The context is not freed: a thread may be inside for as long as it likes.
RemoveHook(d) ==
  /\ Goto(d, "remove", "release")
  /\ \E left \in BOOLEAN : hook' = Removed(d, left)
  /\ UNCHANGED <<device, target, session, stopped, inside, files, uninstaller, bounds, history>>

\* uninstall_kernel_hook fails: the hook stays.
KeepHook(d) ==
  /\ Goto(d, "remove", "release")
  /\ orphaned' = TRUE
  /\ UNCHANGED <<device, target, session, stopped, hooks, files, uninstaller, bounds, raced>>

\* Faulty variant: the hook is removed when no thread is inside.
RemoveWhenIdle(d) == inside # session[d] /\ (RemoveHook(d) \/ KeepHook(d))

\* remove_readonly_parser_hook.
Remove(d) == RemoveHook(d) \/ KeepHook(d)

\* release_daemon_lock: the file is unlinked only if it is still this one.
Release(d) ==
  /\ pc[d] = "release"
  /\ End(d)
  /\ UNCHANGED <<device, hooks, marker, fingerprint, capability,
                 uninstaller, bounds, history>>

DaemonStep(d) ==
  \/ Clear(d) \/ WaitBoot(d) \/ CaptureFingerprint(d) \/ Resolve(d) \/ Install(d)
  \/ StartFails(d) \/ SelfTest(d) \/ EndServing(d)
  \/ Remove(d) \/ Release(d)

-----------------------------------------------------------------------------
(* The environment.                                                        *)

\* A killed daemon drops its lock and leaves its hook as it is.
Kill(d) ==
  /\ pc[d] # "off"
  /\ kills < MaxKills
  /\ kills' = kills + 1
  /\ End(d)
  /\ orphaned' = (orphaned \/ (session[d] # None /\ hook[session[d]].state = "live"))
  /\ UNCHANGED <<device, hooks, marker, fingerprint, capability,
                 uninstaller, cleanups, raced>>

\* The WebUI sends kStop to the daemon that serves.
StopFromUi(d) ==
  /\ pc[d] = "serve"
  /\ stopped' = [stopped EXCEPT ![d] = TRUE]
  /\ UNCHANGED <<device, pc, target, session, hooks, files, uninstaller, bounds, history>>

\* module_on_uninstall: kStop reaches a daemon that serves, and no other.
UninstallStop ==
  /\ uninstaller = "idle"
  /\ cleanups < MaxCleanups
  /\ cleanups' = cleanups + 1
  /\ uninstaller' = "clean"
  /\ LET serving == {d \in Daemons : pc[d] = "serve"} IN
     IF serving = {} THEN UNCHANGED stopped
     ELSE \E d \in serving : stopped' = [stopped EXCEPT ![d] = TRUE]
  /\ UNCHANGED <<device, pc, target, session, hooks, files, kills, history>>

\* The daemon may still be removing its hook.
UninstallClean ==
  /\ uninstaller = "clean"
  /\ uninstaller' = "idle"
  /\ RemoveFiles
  /\ UNCHANGED <<device, daemon, hooks, bounds, history>>

\* The user asks for a cleanup at the next boot.
PlaceMarker ==
  /\ ~marker
  /\ cleanups < MaxCleanups
  /\ cleanups' = cleanups + 1
  /\ marker' = TRUE
  /\ UNCHANGED <<device, daemon, hooks, lock, fingerprint, capability, uninstaller, kills, history>>

\* A thread of the HAL calls into Binder, and comes back when it will.
Enter(h) ==
  /\ hook[h].state = "live"
  /\ inside = None
  /\ inside' = h
  /\ UNCHANGED <<device, daemon, hook, files, uninstaller, bounds, history>>

Leave ==
  /\ inside # None
  /\ inside' = None
  /\ UNCHANGED <<device, daemon, hook, files, uninstaller, bounds, history>>

\* The device restarts, perhaps with an updated kernel and HAL: the files stay.
Reboot ==
  /\ boot < MaxBoots
  /\ boot' = boot + 1
  /\ kernel' = None /\ called' = {"ioctl"}
  /\ pc' = [d \in Daemons |-> "off"]
  /\ hook' = [h \in Hooks |-> NoHook]
  /\ target' = [d \in Daemons |-> None]
  /\ session' = [d \in Daemons |-> None]
  /\ stopped' = [d \in Daemons |-> FALSE]
  /\ inside' = None
  /\ lock' = None
  /\ uninstaller' = "idle"
  /\ UNCHANGED <<marker, fingerprint, capability, bounds, history>>

Next ==
  \/ \E d \in Daemons : Start(d) \/ DaemonStep(d) \/ ServeFails(d) \/ Kill(d) \/ StopFromUi(d)
  \/ UninstallStop \/ UninstallClean \/ PlaceMarker \/ Reboot
  \/ (\E h \in Hooks : Enter(h)) \/ Leave

Spec == Init /\ [][Next]_vars

\* A daemon goes on: none of its steps before serving waits without a limit.
Fairness == \A d \in Daemons : WF_vars(DaemonStep(d))

FairSpec == Spec /\ Fairness

-----------------------------------------------------------------------------
(* Properties.                                                             *)

\* The type invariant.
TypeOK ==
  /\ kernel \in KernelSet \cup {None} /\ boot \in 1..MaxBoots /\ called \in Calls
  /\ pc \in [Daemons -> {"off", "clear", "boot", "capture", "resolve", "install", "test",
                         "serve", "remove", "release"}]
  /\ target \in [Daemons -> Targets \cup {None}]
  /\ session \in [Daemons -> Hooks \cup {None}]
  /\ stopped \in [Daemons -> BOOLEAN]
  /\ hook \in [Hooks -> [on : Targets \cup {None}, site : {1, 2},
                         state : {"unused", "live", "disabled", "gone"}]]
  /\ inside \in Hooks \cup {None}
  /\ lock \in Daemons \cup {None}
  /\ fingerprint \in {None, "original", "virtual"}
  /\ capability \in {None} \cup 1..boot
  /\ uninstaller \in {"idle", "clean"}

\* No hook is put on an entry that still carries the trampoline of another,
\* live or disabled, as long as the lock keeps the daemons apart: the
\* resolver's classification tells such an entry from every entry it accepts.
NoStackedHooks ==
  ~raced => \A g, h \in Hooks :
    hook[g].state \in Patched /\ hook[h].state \in Patched /\ hook[g].on = hook[h].on => g = h

\* The resolver cannot tell compat_ioctl from unlocked_ioctl: the SDK's offset
\* leads there, or the symbol of unlocked_ioctl is hidden.
Ambiguous(k) == k.sdkIoctl = "compat" \/ "ioctl" \notin k.symbols

\* A daemon serves only with its hook live on unlocked_ioctl, whatever the SDK
\* offsets and the visible symbols made the resolver accept; the one exception
\* is a hook on compat_ioctl on a kernel where the resolver cannot tell the two
\* apart and a 32-bit HAL's calls satisfied the self-test.
ServingHookIsRight ==
  \A d \in Daemons : pc[d] = "serve" =>
    /\ hook[session[d]].state = "live"
    /\ \/ hook[session[d]].on = "ioctl"
       \/ hook[session[d]].on = "compat" /\ "compat" \in called /\ Ambiguous(kernel)

\* A live hook has its daemon: every way out of a daemon that got so far as to
\* install a hook removes it, unless it was killed or the SDK failed to.
LiveHookHasDaemon ==
  ~orphaned => \A h \in Hooks : hook[h].state = "live" =>
    \E d \in Daemons : session[d] = h /\ pc[d] \in {"test", "serve", "remove"}

\* The original fingerprint is never one of a virtual ID, unless a hook had
\* been left without its daemon or two daemons had run at once.
FingerprintIsOriginal == fingerprint = "virtual" => orphaned \/ raced

\* A running daemon's capability record is of this boot: a failed start, or a
\* failed write, on a new kernel does not leave the old one to be shown.
CapabilityIsCurrent ==
  (\E d \in Daemons : pc[d] \notin {"off", "clear", "release"}) => capability \in {None, boot}

\* A daemon comes to serving or to its end: a start does not wait for ever for
\* the boot, and one that answered kStop ends, whatever threads stay inside
\* its hook.
DaemonSettles ==
  \A d \in Daemons : []<>(pc[d] = "off" \/ (pc[d] = "serve" /\ ~stopped[d]))

=============================================================================
