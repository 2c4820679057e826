----------------------- MODULE DaemonLifecycleProofs ------------------------
(***************************************************************************)
(* DaemonLifecycle for every set of kernels, daemons and hooks and every   *)
(* bound: types, and that no step of a daemon, killed or racing with       *)
(* another, serves through a wrong hook, stacks hooks, loses a live one,   *)
(* records a virtual fingerprint or shows an old capability record.        *)
(***************************************************************************)
EXTENDS DaemonLifecycle, WellFoundedInduction, TLAPS

Holding == {"test", "serve", "remove"}

\* A daemon between the installation and the removal of its hook has it live;
\* no other daemon has the same one.
SessionInv ==
  /\ \A d \in Daemons : pc[d] \in Holding =>
       session[d] # None /\ hook[session[d]].state = "live"
  /\ \A d \in Daemons : session[d] # None => hook[session[d]].state # "unused"
  /\ \A d, e \in Daemons : session[d] # None /\ session[d] = session[e] => d = e

\* Until two daemons are seen past the lock there is at most one, and the
\* entry it is about to patch carries no trampoline.
AloneInv ==
  ~raced =>
    /\ \A d, e \in Daemons : pc[d] # "off" /\ pc[e] # "off" => d = e
    /\ \A d \in Daemons, h \in Hooks :
         pc[d] = "install" /\ hook[h].on = target[d] => hook[h].state \notin Patched

TargetInv == \A d \in Daemons : pc[d] = "install" => target[d] \in Targets

\* compat_ioctl is about to be hooked, or is, only on an ambiguous kernel.
CompatInv ==
  /\ \A d \in Daemons : pc[d] = "install" /\ target[d] = "compat" => kernel # None /\ Ambiguous(kernel)
  /\ \A h \in Hooks : hook[h].state \in Patched /\ hook[h].on = "compat" =>
       kernel # None /\ Ambiguous(kernel)

IInv ==
  /\ TypeOK /\ TargetInv /\ SessionInv /\ AloneInv /\ CompatInv
  /\ NoStackedHooks /\ ServingHookIsRight /\ LiveHookHasDaemon
  /\ FingerprintIsOriginal /\ CapabilityIsCurrent

-----------------------------------------------------------------------------
(* Operators.                                                              *)

\* A set of naturals that is not empty has a least element.
LEMMA LeastNatural ==
  ASSUME NEW S \in SUBSET Nat, S # {}
  PROVE  \E x \in S : \A y \in S : x <= y
<1> DEFINE R == OpToRel(<, Nat)
<1>1. IsWellFoundedOn(R, Nat)
  BY NatLessThanWellFounded
<1> HIDE DEF R
<1>2. PICK x \in S : \A y \in S : <<y, x>> \notin R
  BY <1>1, WFMin
<1>3. \A y \in S : ~(y < x)
  BY <1>2 DEF R, OpToRel
<1> QED BY <1>3

\* The hook an installation takes is an unused one.
LEMMA FirstUnused ==
  ASSUME Unused # {}
  PROVE  (CHOOSE x \in Unused : \A y \in Unused : x <= y) \in Unused
<1>1. Unused \in SUBSET Nat
  BY LifecycleAssumption DEF Unused
<1> QED BY <1>1, LeastNatural

\* What classify_entry accepts has no trampoline at either hook site.
LEMMA HookableUnpatched ==
  ASSUME NEW words, Hookable(words)
  PROVE  words[1] # "trampoline" /\ words[2] # "trampoline"
<1>1. CASE Prologue(words)
  BY <1>1 DEF Prologue
<1>2. CASE Veneer(words)
  BY <1>2 DEF Veneer, HookSite, PrefixLength
<1> QED BY <1>1, <1>2 DEF Hookable

\* An entry that the resolver accepts carries no hook, live or disabled.
LEMMA AcceptedUnpatched ==
  ASSUME TypeOK, NEW k \in KernelSet, NEW t \in Targets, Accepts(k, t, Words(k, t)),
         NEW h \in Hooks, hook[h].on = t
  PROVE  hook[h].state \notin Patched
<1>1. 1 \in DOMAIN EntryOf(k, t) /\ 2 \in DOMAIN EntryOf(k, t)
  BY EntryAssumption, LifecycleAssumption DEF EntryOf, Kernels
<1>2. Words(k, t)[1] # "trampoline" /\ Words(k, t)[2] # "trampoline"
  BY HookableUnpatched DEF Accepts
<1>3. hook[h].site \in {1, 2}
  BY DEF TypeOK
<1> QED BY <1>1, <1>2, <1>3 DEF Words

\* The resolver takes compat_ioctl for unlocked_ioctl only where it cannot tell.
LEMMA AcceptedAmbiguous ==
  ASSUME NEW k \in KernelSet, NEW words, Accepts(k, "compat", words)
  PROVE  Ambiguous(k)
<1>1. Ioctl(k) = "compat"
  BY DEF Accepts
<1>2. CASE SdkIoctl(k) = "compat"
  BY <1>2 DEF SdkIoctl, Ambiguous
<1>3. CASE SdkIoctl(k) # "compat"
  BY <1>1, <1>3 DEF Ioctl, ScannedIoctl, Ambiguous
<1> QED BY <1>2, <1>3

\* What resolve_binder_ioctl_from_fd does: the kernel that runs is one it accepts.
LEMMA ResolveAccepts ==
  ASSUME TypeOK, NEW d \in Daemons, Resolve(d)
  PROVE  \E k \in KernelSet, t \in Targets, written \in BOOLEAN :
           /\ Goto(d, "resolve", "install")
           /\ Accepts(k, t, Words(k, t))
           /\ kernel' = k /\ (kernel # None => kernel = k)
           /\ called' \in IF kernel = None /\ t = "compat" THEN Calls ELSE {called}
           /\ target' = [target EXCEPT ![d] = t]
           /\ WriteCapability(written)
           /\ UNCHANGED <<boot, session, stopped, hooks, lock, marker, fingerprint,
                          uninstaller, bounds, history>>
<1>1. PICK t \in Targets, written \in BOOLEAN :
        /\ Goto(d, "resolve", "install")
        /\ kernel' \in OnePerEntry(Accepted(t))
        /\ called' \in IF kernel = None /\ t = "compat" THEN Calls ELSE {called}
        /\ target' = [target EXCEPT ![d] = t]
        /\ WriteCapability(written)
        /\ UNCHANGED <<boot, session, stopped, hooks, lock, marker, fingerprint,
                       uninstaller, bounds, history>>
  BY DEF Resolve
<1>2. PICK k : k = kernel'
  OBVIOUS
<1>3. PICK e \in {j.entry : j \in Accepted(t)} : k = CHOOSE j \in Accepted(t) : j.entry = e
  BY <1>1, <1>2 DEF OnePerEntry
<1>4. k \in Accepted(t)
  BY <1>3
<1>5. k \in KernelSet /\ Accepts(k, t, Words(k, t)) /\ (kernel # None => kernel = k)
  BY <1>4 DEF Accepted, Running, TypeOK
<1> QED BY <1>1, <1>2, <1>5

HookRecords == [on : Targets \cup {None}, site : {1, 2},
                state : {"unused", "live", "disabled", "gone"}]

\* Removal changes the daemon's hook only, which is not live any more.
LEMMA RemovedHook ==
  ASSUME TypeOK, NEW d \in Daemons, NEW left \in BOOLEAN
  PROVE  /\ Removed(d, left) \in [Hooks -> HookRecords]
         /\ \A h \in Hooks : IF h = session[d]
                            THEN Removed(d, left)[h].state \in {"disabled", "gone"}
                            ELSE Removed(d, left)[h] = hook[h]
         /\ \A h \in Hooks : Removed(d, left)[h].state \in Patched =>
              Removed(d, left)[h].on = hook[h].on
<1>1. hook \in [Hooks -> HookRecords]
  BY DEF TypeOK, HookRecords
<1>2. [NoHook EXCEPT !.state = "gone"] \in HookRecords
  BY DEF NoHook, HookRecords
<1>3. CASE left
  BY <1>1, <1>3 DEF Removed, HookRecords
<1>4. CASE ~left
  BY <1>1, <1>2, <1>4 DEF Removed, NoHook, Patched
<1> QED BY <1>3, <1>4

-----------------------------------------------------------------------------
(* Types.                                                                  *)

\* The steps of a daemon keep the types.
LEMMA DaemonType ==
  ASSUME TypeOK, NEW d \in Daemons, Start(d) \/ DaemonStep(d) \/ ServeFails(d) \/ Kill(d) \/ StopFromUi(d)
  PROVE  TypeOK'
<1> USE DEF TypeOK, Goto, Step, device, hooks, files, bounds, history
<1>1. CASE Start(d)
  BY <1>1 DEF Start
<1>2. CASE Clear(d)
  BY <1>2 DEF Clear, RemoveFiles
<1>3. CASE WaitBoot(d)
  BY <1>3 DEF WaitBoot
<1>4. CASE CaptureFingerprint(d)
  BY <1>4 DEF CaptureFingerprint, Capture, Replies
<1>5. CASE Resolve(d)
  <2>1. PICK k \in KernelSet, t \in Targets, written \in BOOLEAN :
          /\ Goto(d, "resolve", "install")
          /\ Accepts(k, t, Words(k, t))
          /\ kernel' = k /\ (kernel # None => kernel = k)
          /\ called' \in IF kernel = None /\ t = "compat" THEN Calls ELSE {called}
          /\ target' = [target EXCEPT ![d] = t]
          /\ WriteCapability(written)
          /\ UNCHANGED <<boot, session, stopped, hooks, lock, marker, fingerprint,
                         uninstaller, bounds, history>>
    BY <1>5, ResolveAccepts
  <2>2. called' \in Calls
    BY <2>1
  <2> QED BY <2>1, <2>2, BootAssumption DEF WriteCapability
<1>6. CASE Install(d)
  <2>1. PICK site \in {1, 2} :
          LET h == CHOOSE x \in Unused : \A y \in Unused : x <= y IN
          /\ Unused # {}
          /\ Goto(d, "install", "test")
          /\ hook' = [hook EXCEPT ![h] = [on |-> target[d], site |-> site, state |-> "live"]]
          /\ session' = [session EXCEPT ![d] = h]
          /\ UNCHANGED <<device, target, stopped, inside, files, uninstaller, bounds, history>>
    BY <1>6 DEF Install
  <2>2. (CHOOSE x \in Unused : \A y \in Unused : x <= y) \in Hooks
    BY <2>1, FirstUnused DEF Unused
  <2> QED BY <2>1, <2>2
<1>7. CASE StartFails(d)
  BY <1>7 DEF StartFails
<1>8. CASE SelfTest(d)
  BY <1>8 DEF SelfTest
<1>9. CASE EndServing(d) \/ ServeFails(d)
  BY <1>9 DEF EndServing, ServeFails
<1>10. CASE RemoveHook(d)
  BY <1>10, RemovedHook DEF RemoveHook, HookRecords
<1>11. CASE KeepHook(d)
  BY <1>11 DEF KeepHook
<1>12. CASE Release(d)
  BY <1>12 DEF Release, End
<1>13. CASE Kill(d)
  BY <1>13 DEF Kill, End
<1>14. CASE StopFromUi(d)
  BY <1>14 DEF StopFromUi
<1> QED BY <1>1, <1>2, <1>3, <1>4, <1>5, <1>6, <1>7, <1>8, <1>9, <1>10, <1>11, <1>12,
           <1>13, <1>14 DEF DaemonStep, Remove

\* Every step keeps the types.
LEMMA NextType == TypeOK /\ [Next]_vars => TypeOK'
<1> SUFFICES ASSUME TypeOK, [Next]_vars PROVE TypeOK'
  OBVIOUS
<1> USE DEF device, daemon, hooks, files, bounds, history
<1>1. ASSUME NEW d \in Daemons,
             Start(d) \/ DaemonStep(d) \/ ServeFails(d) \/ Kill(d) \/ StopFromUi(d)
      PROVE  TypeOK'
  BY <1>1, DaemonType
<1>2. CASE UninstallStop
  BY <1>2 DEF TypeOK, UninstallStop
<1>3. CASE UninstallClean
  BY <1>3 DEF TypeOK, UninstallClean, RemoveFiles
<1>4. CASE PlaceMarker
  BY <1>4 DEF TypeOK, PlaceMarker
<1>5. CASE Reboot
  BY <1>5, BootAssumption DEF TypeOK, Reboot, NoHook, Calls
<1>6. ASSUME NEW h \in Hooks, Enter(h) PROVE TypeOK'
  BY <1>6 DEF TypeOK, Enter
<1>7. CASE Leave
  BY <1>7 DEF TypeOK, Leave
<1>8. CASE UNCHANGED vars
  BY <1>8 DEF TypeOK, vars
<1> QED BY <1>1, <1>2, <1>3, <1>4, <1>5, <1>6, <1>7, <1>8 DEF Next

\* The state of the daemons, their hooks and files always has its type.
THEOREM TypeCorrect == Spec => []TypeOK
<1>1. Init => TypeOK
  BY BootAssumption DEF Init, TypeOK, NoHook, Calls
<1> QED BY <1>1, NextType, PTL DEF Spec

-----------------------------------------------------------------------------
(* Sessions, and daemons that are alone.                                   *)

\* What an installation does, its choice of a hook named.
LEMMA InstallTakes ==
  ASSUME TypeOK, NEW d \in Daemons, Install(d)
  PROVE  \E h \in Hooks, site \in {1, 2} :
           /\ hook[h].state = "unused"
           /\ Goto(d, "install", "test")
           /\ hook' = [hook EXCEPT ![h] = [on |-> target[d], site |-> site, state |-> "live"]]
           /\ session' = [session EXCEPT ![d] = h]
           /\ UNCHANGED <<device, target, stopped, inside, files, uninstaller, bounds, history>>
BY FirstUnused DEF Install, Unused

\* A hook has one session at a time, from installation to removal.
LEMMA SessionStep ==
  ASSUME TypeOK, SessionInv, [Next]_vars
  PROVE  SessionInv'
<1> USE DEF SessionInv, Holding, Goto, Step, device, daemon, hooks, files, bounds, history
<1>1. ASSUME NEW d \in Daemons,
             \/ Start(d) \/ Clear(d) \/ WaitBoot(d) \/ CaptureFingerprint(d) \/ Resolve(d)
             \/ StartFails(d) \/ SelfTest(d) \/ EndServing(d) \/ ServeFails(d) \/ KeepHook(d)
             \/ StopFromUi(d)
      PROVE  SessionInv'
  BY <1>1 DEF TypeOK, Start, Clear, WaitBoot, CaptureFingerprint, Capture, Resolve, StartFails,
              SelfTest, EndServing, ServeFails, KeepHook, StopFromUi
<1>2. ASSUME NEW d \in Daemons, Install(d) PROVE SessionInv'
  <2>1. PICK h \in Hooks, site \in {1, 2} :
          /\ hook[h].state = "unused"
          /\ Goto(d, "install", "test")
          /\ hook' = [hook EXCEPT ![h] = [on |-> target[d], site |-> site, state |-> "live"]]
          /\ session' = [session EXCEPT ![d] = h]
          /\ UNCHANGED <<device, target, stopped, inside, files, uninstaller, bounds, history>>
    BY <1>2, InstallTakes
  <2>2. \A e \in Daemons : session[e] # h
    BY <2>1, LifecycleAssumption
  <2>3. /\ hook'[h].state = "live" /\ session'[d] = h /\ h # None
        /\ \A g \in Hooks \ {h} : hook'[g] = hook[g]
        /\ \A e \in Daemons \ {d} : session'[e] = session[e] /\ pc'[e] = pc[e]
    BY <2>1, LifecycleAssumption DEF TypeOK
  <2> QED BY <2>2, <2>3 DEF TypeOK
<1>3. ASSUME NEW d \in Daemons, RemoveHook(d) PROVE SessionInv'
  <2>1. PICK left \in BOOLEAN : hook' = Removed(d, left)
    BY <1>3 DEF RemoveHook
  <2>2. \A h \in Hooks : h # session[d] => hook'[h] = hook[h]
    BY <2>1, RemovedHook
  <2>3. hook'[session[d]].state \in {"disabled", "gone"}
    BY <1>3, <2>1, RemovedHook DEF RemoveHook, TypeOK
  <2> QED BY <1>3, <2>2, <2>3 DEF RemoveHook, TypeOK
<1>4. ASSUME NEW d \in Daemons, Release(d) \/ Kill(d) PROVE SessionInv'
  <2>1. /\ pc'[d] = "off" /\ session'[d] = None /\ hook' = hook
        /\ \A e \in Daemons \ {d} : pc'[e] = pc[e] /\ session'[e] = session[e]
    BY <1>4 DEF TypeOK, Release, Kill, End
  <2> QED BY <2>1
<1>5. CASE UninstallStop \/ UninstallClean \/ PlaceMarker \/ Leave \/ \E h \in Hooks : Enter(h)
  BY <1>5 DEF UninstallStop, UninstallClean, PlaceMarker, Leave, Enter
<1>6. CASE Reboot
  BY <1>6 DEF Reboot
<1>7. CASE UNCHANGED vars
  BY <1>7 DEF vars
<1> QED BY <1>1, <1>2, <1>3, <1>4, <1>5, <1>6, <1>7 DEF Next, DaemonStep, Remove

\* The lock keeps daemons apart, and an entry stays as the resolver saw it.
LEMMA AloneStep ==
  ASSUME TypeOK, TargetInv, AloneInv, [Next]_vars
  PROVE  TargetInv' /\ AloneInv'
<1> USE DEF TargetInv, AloneInv, Goto, Step, device, daemon, hooks, files, bounds, history
<1>1. ASSUME NEW d \in Daemons,
             \/ Clear(d) \/ WaitBoot(d) \/ CaptureFingerprint(d)
             \/ StartFails(d) \/ SelfTest(d) \/ EndServing(d) \/ ServeFails(d) \/ KeepHook(d)
             \/ StopFromUi(d)
      PROVE  TargetInv' /\ AloneInv'
  BY <1>1 DEF TypeOK, Clear, WaitBoot, CaptureFingerprint, Capture, StartFails,
              SelfTest, EndServing, ServeFails, KeepHook, StopFromUi
<1>2. ASSUME NEW d \in Daemons, Resolve(d) PROVE TargetInv' /\ AloneInv'
  <2>1. PICK k \in KernelSet, t \in Targets :
          /\ Accepts(k, t, Words(k, t))
          /\ target' = [target EXCEPT ![d] = t]
    BY <1>2, ResolveAccepts
  <2>2. \A h \in Hooks : hook[h].on = t => hook[h].state \notin Patched
    BY <2>1, AcceptedUnpatched
  <2> QED BY <1>2, <2>1, <2>2 DEF Resolve, TypeOK
<1>3. ASSUME NEW d \in Daemons, Install(d) PROVE TargetInv' /\ AloneInv'
  <2>1. PICK h \in Hooks, site \in {1, 2} :
          /\ hook[h].state = "unused"
          /\ Goto(d, "install", "test")
          /\ hook' = [hook EXCEPT ![h] = [on |-> target[d], site |-> site, state |-> "live"]]
          /\ session' = [session EXCEPT ![d] = h]
          /\ UNCHANGED <<device, target, stopped, inside, files, uninstaller, bounds, history>>
    BY <1>3, InstallTakes
  <2>2. /\ pc'[d] = "test" /\ \A e \in Daemons \ {d} : pc'[e] = pc[e]
        /\ target' = target /\ raced' = raced
    BY <2>1 DEF TypeOK
  <2> QED BY <2>1, <2>2 DEF TypeOK
<1>4. ASSUME NEW d \in Daemons, RemoveHook(d) PROVE TargetInv' /\ AloneInv'
  BY <1>4 DEF RemoveHook, TypeOK
<1>5. ASSUME NEW d \in Daemons, Release(d) \/ Kill(d) PROVE TargetInv' /\ AloneInv'
  BY <1>5 DEF TypeOK, Release, Kill, End
<1>6. CASE UninstallStop \/ UninstallClean \/ PlaceMarker \/ Leave \/ \E h \in Hooks : Enter(h)
  BY <1>6 DEF UninstallStop, UninstallClean, PlaceMarker, Leave, Enter
<1>7. CASE Reboot
  BY <1>7 DEF Reboot
<1>8. CASE UNCHANGED vars
  BY <1>8 DEF vars
<1>9. ASSUME NEW d \in Daemons, Start(d) PROVE TargetInv' /\ AloneInv'
  BY <1>9 DEF TypeOK, Start
<1> QED BY <1>1, <1>2, <1>3, <1>4, <1>5, <1>6, <1>7, <1>8, <1>9 DEF Next, DaemonStep, Remove

-----------------------------------------------------------------------------
(* Stacked hooks, serving hooks, live hooks.                               *)

\* Only Install could stack a hook, on an entry that AloneInv says is free.
LEMMA StackStep ==
  ASSUME TypeOK, SessionInv, AloneInv, NoStackedHooks, [Next]_vars
  PROVE  NoStackedHooks'
<1> USE DEF NoStackedHooks, Goto, Step, device, daemon, hooks, files, bounds, history
<1>1. ASSUME NEW d \in Daemons, Install(d) PROVE NoStackedHooks'
  <2>1. PICK h \in Hooks, site \in {1, 2} :
          /\ hook[h].state = "unused"
          /\ Goto(d, "install", "test")
          /\ hook' = [hook EXCEPT ![h] = [on |-> target[d], site |-> site, state |-> "live"]]
          /\ session' = [session EXCEPT ![d] = h]
          /\ UNCHANGED <<device, target, stopped, inside, files, uninstaller, bounds, history>>
    BY <1>1, InstallTakes
  <2>2. /\ hook'[h].on = target[d] /\ raced' = raced
        /\ \A g \in Hooks \ {h} : hook'[g] = hook[g]
    BY <2>1 DEF TypeOK
  <2>3. ~raced => \A g \in Hooks : hook[g].on = target[d] => hook[g].state \notin Patched
    BY <2>1 DEF AloneInv
  <2> QED BY <2>2, <2>3
<1>2. ASSUME NEW d \in Daemons, RemoveHook(d) PROVE NoStackedHooks'
  <2>1. PICK left \in BOOLEAN : hook' = Removed(d, left)
    BY <1>2 DEF RemoveHook
  <2>2. \A h \in Hooks : hook'[h].state \in Patched =>
          hook[h].state \in Patched /\ hook'[h].on = hook[h].on
    BY <1>2, <2>1, RemovedHook DEF RemoveHook, SessionInv, Holding, Patched
  <2> QED BY <1>2, <2>2 DEF RemoveHook
<1>3. CASE Reboot
  BY <1>3 DEF Reboot, NoHook, Patched
<1>4. ASSUME NEW d \in Daemons,
             \/ Start(d) \/ Clear(d) \/ WaitBoot(d) \/ CaptureFingerprint(d) \/ Resolve(d)
             \/ StartFails(d) \/ SelfTest(d) \/ EndServing(d) \/ ServeFails(d) \/ StopFromUi(d)
             \/ KeepHook(d) \/ Release(d) \/ Kill(d)
      PROVE  NoStackedHooks'
  BY <1>4 DEF Start, Clear, WaitBoot, CaptureFingerprint, Capture, Resolve, StartFails,
              SelfTest, EndServing, ServeFails, StopFromUi,
              KeepHook, Release, Kill
<1>5. CASE UninstallStop \/ UninstallClean \/ PlaceMarker \/ Leave \/ \E h \in Hooks : Enter(h)
  BY <1>5 DEF UninstallStop, UninstallClean, PlaceMarker, Leave, Enter
<1>6. CASE UNCHANGED vars
  BY <1>6 DEF vars
<1> QED BY <1>1, <1>2, <1>3, <1>4, <1>5, <1>6 DEF Next, DaemonStep, Remove

\* The kernel stays what it is from its first acceptance to the next boot.
LEMMA CompatStep ==
  ASSUME TypeOK, SessionInv, CompatInv, [Next]_vars
  PROVE  CompatInv'
<1> USE DEF CompatInv, Goto, Step, device, daemon, hooks, files, bounds, history
<1>1. ASSUME NEW d \in Daemons, Install(d) PROVE CompatInv'
  <2>1. PICK h \in Hooks, site \in {1, 2} :
          /\ hook[h].state = "unused"
          /\ Goto(d, "install", "test")
          /\ hook' = [hook EXCEPT ![h] = [on |-> target[d], site |-> site, state |-> "live"]]
          /\ session' = [session EXCEPT ![d] = h]
          /\ UNCHANGED <<device, target, stopped, inside, files, uninstaller, bounds, history>>
    BY <1>1, InstallTakes
  <2>2. /\ hook'[h].on = target[d] /\ pc[d] = "install"
        /\ \A g \in Hooks \ {h} : hook'[g] = hook[g]
        /\ pc'[d] = "test" /\ \A e \in Daemons \ {d} : pc'[e] = pc[e]
        /\ target' = target /\ kernel' = kernel
    BY <2>1 DEF TypeOK
  <2> QED BY <2>2 DEF Ambiguous
<1>2. ASSUME NEW d \in Daemons, RemoveHook(d) PROVE CompatInv'
  <2>1. PICK left \in BOOLEAN : hook' = Removed(d, left)
    BY <1>2 DEF RemoveHook
  <2>2. \A h \in Hooks : hook'[h].state \in Patched =>
          hook[h].state \in Patched /\ hook'[h].on = hook[h].on
    BY <1>2, <2>1, RemovedHook DEF RemoveHook, SessionInv, Holding, Patched
  <2> QED BY <1>2, <2>2 DEF RemoveHook, TypeOK, Ambiguous
<1>3. CASE Reboot
  BY <1>3 DEF Reboot, NoHook, Patched
<1>4. ASSUME NEW d \in Daemons, Resolve(d) PROVE CompatInv'
  <2>1. PICK k \in KernelSet, t \in Targets :
          /\ Goto(d, "resolve", "install")
          /\ Accepts(k, t, Words(k, t))
          /\ kernel' = k /\ (kernel # None => kernel = k)
          /\ target' = [target EXCEPT ![d] = t]
          /\ hook' = hook
    BY <1>4, ResolveAccepts
  <2>2. kernel' # None
    BY <2>1, LifecycleAssumption
  <2>3. t = "compat" => Ambiguous(k)
    BY <2>1, AcceptedAmbiguous
  <2>4. /\ target'[d] = t /\ \A e \in Daemons \ {d} : pc'[e] = pc[e] /\ target'[e] = target[e]
    BY <2>1 DEF TypeOK
  <2> QED BY <2>1, <2>2, <2>3, <2>4 DEF Ambiguous
<1>5. ASSUME NEW d \in Daemons,
             \/ Start(d) \/ Clear(d) \/ WaitBoot(d) \/ CaptureFingerprint(d)
             \/ StartFails(d) \/ SelfTest(d) \/ EndServing(d) \/ ServeFails(d) \/ StopFromUi(d)
             \/ KeepHook(d)
      PROVE  CompatInv'
  BY <1>5 DEF TypeOK, Ambiguous, Start, Clear, WaitBoot, CaptureFingerprint, Capture, StartFails,
              SelfTest, EndServing, ServeFails, StopFromUi, KeepHook
<1>6. ASSUME NEW d \in Daemons, Release(d) \/ Kill(d) PROVE CompatInv'
  BY <1>6 DEF TypeOK, Ambiguous, Release, Kill, End
<1>7. CASE UninstallStop \/ UninstallClean \/ PlaceMarker \/ Leave \/ \E h \in Hooks : Enter(h)
  BY <1>7 DEF Ambiguous, UninstallStop, UninstallClean, PlaceMarker, Leave, Enter
<1>8. CASE UNCHANGED vars
  BY <1>8 DEF vars, Ambiguous
<1> QED BY <1>1, <1>2, <1>3, <1>4, <1>5, <1>6, <1>7, <1>8 DEF Next, DaemonStep, Remove

\* Serving begins with a passed self-test: on unlocked_ioctl, or by the calls of
\* a 32-bit HAL.
LEMMA ServingStep ==
  ASSUME TypeOK, SessionInv, CompatInv, ServingHookIsRight, [Next]_vars
  PROVE  ServingHookIsRight'
<1> USE DEF ServingHookIsRight, Ambiguous, Goto, Step, device, daemon, hooks, files, bounds, history
<1>1. ASSUME NEW d \in Daemons, Install(d) PROVE ServingHookIsRight'
  <2>1. PICK h \in Hooks, site \in {1, 2} :
          /\ hook[h].state = "unused"
          /\ Goto(d, "install", "test")
          /\ hook' = [hook EXCEPT ![h] = [on |-> target[d], site |-> site, state |-> "live"]]
          /\ session' = [session EXCEPT ![d] = h]
          /\ UNCHANGED <<device, target, stopped, inside, files, uninstaller, bounds, history>>
    BY <1>1, InstallTakes
  <2>2. \A e \in Daemons : session[e] # h
    BY <2>1, LifecycleAssumption DEF SessionInv
  <2>3. /\ pc'[d] = "test"
        /\ \A g \in Hooks \ {h} : hook'[g] = hook[g]
        /\ \A e \in Daemons \ {d} : session'[e] = session[e] /\ pc'[e] = pc[e]
    BY <2>1 DEF TypeOK
  <2>4. \A e \in Daemons : pc[e] = "serve" => session[e] \in Hooks
    BY DEF SessionInv, Holding, TypeOK
  <2>5. kernel' = kernel /\ called' = called
    BY <2>1
  <2> QED BY <2>2, <2>3, <2>4, <2>5
<1>2. ASSUME NEW d \in Daemons, RemoveHook(d) PROVE ServingHookIsRight'
  <2>1. PICK left \in BOOLEAN : hook' = Removed(d, left)
    BY <1>2 DEF RemoveHook
  <2>2. \A h \in Hooks : h # session[d] => hook'[h] = hook[h]
    BY <2>1, RemovedHook
  <2>3. \A e \in Daemons : pc'[e] = "serve" => session[e] \in Hooks /\ session[e] # session[d]
    BY <1>2 DEF RemoveHook, SessionInv, Holding, TypeOK
  <2> QED BY <1>2, <2>2, <2>3 DEF RemoveHook, TypeOK
<1>3. CASE Reboot
  BY <1>3 DEF Reboot
<1>4. ASSUME NEW d \in Daemons,
             \/ Start(d) \/ Clear(d) \/ WaitBoot(d) \/ CaptureFingerprint(d)
             \/ StartFails(d) \/ EndServing(d) \/ ServeFails(d) \/ StopFromUi(d)
             \/ KeepHook(d)
      PROVE  ServingHookIsRight'
  BY <1>4 DEF TypeOK, Start, Clear, WaitBoot, CaptureFingerprint, Capture, StartFails,
              EndServing, ServeFails, StopFromUi,
              KeepHook
<1>5. ASSUME NEW d \in Daemons, Release(d) \/ Kill(d) PROVE ServingHookIsRight'
  BY <1>5 DEF TypeOK, Release, Kill, End
<1>6. CASE UninstallStop \/ UninstallClean \/ PlaceMarker \/ Leave \/ \E h \in Hooks : Enter(h)
  BY <1>6 DEF UninstallStop, UninstallClean, PlaceMarker, Leave, Enter
<1>7. CASE UNCHANGED vars
  BY <1>7 DEF vars
<1>8. ASSUME NEW d \in Daemons, Resolve(d) PROVE ServingHookIsRight'
  <2>1. PICK k \in KernelSet, t \in Targets :
          /\ Goto(d, "resolve", "install")
          /\ kernel' = k /\ (kernel # None => kernel = k)
          /\ called' \in IF kernel = None /\ t = "compat" THEN Calls ELSE {called}
          /\ UNCHANGED <<session, hook>>
    BY <1>8, ResolveAccepts
  <2>2. \A e \in Daemons : pc'[e] = "serve" => pc[e] = "serve"
    BY <2>1 DEF TypeOK
  <2>3. \A e \in Daemons : pc[e] = "serve" => session[e] \in Hooks
    BY DEF SessionInv, Holding, TypeOK
  <2>4. CASE kernel = None
    <3>1. \A e \in Daemons : pc[e] = "serve" => hook[session[e]].on # "compat"
      BY <2>3, <2>4 DEF CompatInv, Patched
    <3> QED BY <2>1, <2>2, <3>1
  <2>5. CASE kernel # None
    <3>1. kernel' = kernel /\ called' = called
      BY <2>1, <2>5
    <3> QED BY <2>1, <2>2, <3>1
  <2> QED BY <2>4, <2>5
<1>9. ASSUME NEW d \in Daemons, SelfTest(d) PROVE ServingHookIsRight'
  <2>1. UNCHANGED <<kernel, called, session, hook>>
    BY <1>9 DEF SelfTest
  <2>2. ASSUME NEW e \in Daemons, pc'[e] = "serve", e # d PROVE pc[e] = "serve"
    BY <1>9, <2>2 DEF SelfTest, TypeOK
  <2>3. ASSUME pc'[d] = "serve"
        PROVE  pc[d] = "test" /\ hook[session[d]].on \in called
    BY <1>9, <2>3 DEF SelfTest, Counted, TypeOK
  <2>4. pc[d] = "test" => session[d] \in Hooks /\ hook[session[d]].state = "live"
    BY DEF SessionInv, Holding, TypeOK
  <2>5. ASSUME pc'[d] = "serve", hook[session[d]].on = "compat" PROVE Ambiguous(kernel)
    BY <2>3, <2>4, <2>5 DEF CompatInv, Patched
  <2>6. hook[session[d]].on \in called => hook[session[d]].on = "ioctl" \/
                                          (hook[session[d]].on = "compat" /\ "compat" \in called)
    BY DEF TypeOK, Calls
  <2> QED BY <2>1, <2>2, <2>3, <2>4, <2>5, <2>6
<1> QED BY <1>1, <1>2, <1>3, <1>4, <1>5, <1>6, <1>7, <1>8, <1>9 DEF Next, DaemonStep, Remove

\* A daemon leaves by removing its hook, by a kill or by a failure of the SDK.
LEMMA LiveStep ==
  ASSUME TypeOK, SessionInv, LiveHookHasDaemon, [Next]_vars
  PROVE  LiveHookHasDaemon'
<1> USE DEF LiveHookHasDaemon, Goto, Step, device, daemon, hooks, files, bounds, history
<1>1. ASSUME NEW d \in Daemons, Install(d) PROVE LiveHookHasDaemon'
  <2>1. PICK h \in Hooks, site \in {1, 2} :
          /\ hook[h].state = "unused"
          /\ Goto(d, "install", "test")
          /\ hook' = [hook EXCEPT ![h] = [on |-> target[d], site |-> site, state |-> "live"]]
          /\ session' = [session EXCEPT ![d] = h]
          /\ UNCHANGED <<device, target, stopped, inside, files, uninstaller, bounds, history>>
    BY <1>1, InstallTakes
  <2>2. /\ pc'[d] = "test" /\ session'[d] = h /\ orphaned' = orphaned
        /\ \A g \in Hooks \ {h} : hook'[g] = hook[g]
        /\ \A e \in Daemons \ {d} : session'[e] = session[e] /\ pc'[e] = pc[e]
    BY <2>1 DEF TypeOK
  <2> QED BY <2>1, <2>2
<1>2. ASSUME NEW d \in Daemons, RemoveHook(d) PROVE LiveHookHasDaemon'
  <2>1. PICK left \in BOOLEAN : hook' = Removed(d, left)
    BY <1>2 DEF RemoveHook
  <2>2. \A h \in Hooks : hook'[h].state = "live" => h # session[d] /\ hook[h].state = "live"
    BY <2>1, RemovedHook
  <2>3. /\ session' = session /\ orphaned' = orphaned
        /\ \A e \in Daemons \ {d} : pc'[e] = pc[e]
    BY <1>2 DEF RemoveHook, TypeOK
  <2> QED BY <2>2, <2>3
<1>3. CASE Reboot
  BY <1>3 DEF Reboot, NoHook
<1>4. ASSUME NEW d \in Daemons,
             \/ Start(d) \/ Clear(d) \/ WaitBoot(d) \/ CaptureFingerprint(d) \/ Resolve(d)
             \/ StartFails(d) \/ SelfTest(d) \/ EndServing(d) \/ ServeFails(d) \/ StopFromUi(d)
      PROVE  LiveHookHasDaemon'
  BY <1>4 DEF TypeOK, Start, Clear, WaitBoot, CaptureFingerprint, Capture, Resolve, StartFails,
              SelfTest, EndServing, ServeFails, StopFromUi
<1>5. ASSUME NEW d \in Daemons, KeepHook(d) PROVE LiveHookHasDaemon'
  BY <1>5 DEF KeepHook
<1>6. ASSUME NEW d \in Daemons, Release(d) PROVE LiveHookHasDaemon'
  BY <1>6 DEF TypeOK, Release, End
<1>7. ASSUME NEW d \in Daemons, Kill(d) PROVE LiveHookHasDaemon'
  <2> SUFFICES ASSUME ~orphaned', NEW h \in Hooks, hook'[h].state = "live"
               PROVE  \E e \in Daemons : session'[e] = h /\ pc'[e] \in Holding
    BY DEF Holding
  <2>1. ~orphaned /\ ~(session[d] # None /\ hook[session[d]].state = "live") /\ hook' = hook
    BY <1>7 DEF Kill
  <2>2. PICK e \in Daemons : session[e] = h /\ pc[e] \in Holding
    BY <2>1 DEF Holding
  <2>3. e # d
    BY <2>1, <2>2, LifecycleAssumption
  <2>4. session'[e] = session[e] /\ pc'[e] = pc[e]
    BY <1>7, <2>3 DEF Kill, End, TypeOK
  <2> QED BY <2>2, <2>4
<1>8. CASE UninstallStop \/ UninstallClean \/ PlaceMarker \/ Leave \/ \E h \in Hooks : Enter(h)
  BY <1>8 DEF UninstallStop, UninstallClean, PlaceMarker, Leave, Enter
<1>9. CASE UNCHANGED vars
  BY <1>9 DEF vars
<1> QED BY <1>1, <1>2, <1>3, <1>4, <1>5, <1>6, <1>7, <1>8, <1>9 DEF Next, DaemonStep, Remove

-----------------------------------------------------------------------------
(* The records.                                                            *)

\* A fingerprint is captured before this daemon's hook and after no other's.
LEMMA FingerprintStep ==
  ASSUME TypeOK, AloneInv, LiveHookHasDaemon, FingerprintIsOriginal, [Next]_vars
  PROVE  FingerprintIsOriginal'
<1> USE DEF FingerprintIsOriginal, Goto, Step, device, daemon, hooks, files, bounds, history
<1>1. ASSUME NEW d \in Daemons, CaptureFingerprint(d) PROVE FingerprintIsOriginal'
  <2>1. CASE Step(d, "capture", "resolve")
    BY <2>1
  <2>2. ASSUME NEW reply \in Replies, Capture(d, "capture", "resolve", reply)
        PROVE  FingerprintIsOriginal'
    <3>1. CASE reply = "virtual" /\ fingerprint = None
      <4>1. PICK h \in Hooks : hook[h].state = "live"
        BY <3>1 DEF Replies
      <4>2. CASE ~orphaned /\ ~raced
        <5>1. PICK e \in Daemons : pc[e] \in {"test", "serve", "remove"}
          BY <4>1, <4>2 DEF LiveHookHasDaemon
        <5>2. pc[d] = "capture"
          BY <2>2 DEF Capture
        <5> QED BY <4>2, <5>1, <5>2 DEF AloneInv
      <4> QED BY <2>2, <4>2 DEF Capture
    <3>2. CASE reply = "original" \/ fingerprint # None
      BY <2>2, <3>2 DEF Capture
    <3> QED BY <3>1, <3>2 DEF Replies
  <2> QED BY <1>1, <2>1, <2>2 DEF CaptureFingerprint
<1>2. ASSUME NEW d \in Daemons,
             \/ Start(d) \/ Clear(d) \/ WaitBoot(d) \/ Resolve(d) \/ StartFails(d)
             \/ SelfTest(d) \/ EndServing(d) \/ ServeFails(d) \/ StopFromUi(d)
             \/ Install(d) \/ RemoveHook(d) \/ KeepHook(d) \/ Release(d) \/ Kill(d)
      PROVE  FingerprintIsOriginal'
  BY <1>2, LifecycleAssumption DEF Start, Clear, RemoveFiles, WaitBoot, Resolve, StartFails,
              SelfTest, EndServing, ServeFails, StopFromUi, Install, RemoveHook, KeepHook,
              Release, Kill
<1>3. CASE UninstallStop \/ UninstallClean \/ PlaceMarker \/ Leave \/ \E h \in Hooks : Enter(h)
  BY <1>3, LifecycleAssumption DEF UninstallStop, UninstallClean, RemoveFiles, PlaceMarker, Leave, Enter
<1>4. CASE Reboot \/ UNCHANGED vars
  BY <1>4 DEF Reboot, vars
<1> QED BY <1>1, <1>2, <1>3, <1>4 DEF Next, DaemonStep, Remove

\* The record of an earlier boot is removed before a daemon shows one.
LEMMA CapabilityStep ==
  ASSUME TypeOK, CapabilityIsCurrent, [Next]_vars
  PROVE  CapabilityIsCurrent'
<1> USE DEF CapabilityIsCurrent, Goto, Step, device, daemon, hooks, files, bounds, history
<1>1. ASSUME NEW d \in Daemons, Clear(d) \/ Resolve(d) PROVE CapabilityIsCurrent'
  BY <1>1 DEF TypeOK, Clear, RemoveFiles, Resolve, WriteCapability
<1>2. ASSUME NEW d \in Daemons,
             \/ Start(d) \/ WaitBoot(d) \/ CaptureFingerprint(d) \/ StartFails(d)
             \/ SelfTest(d) \/ EndServing(d) \/ ServeFails(d) \/ StopFromUi(d)
             \/ Install(d) \/ RemoveHook(d) \/ KeepHook(d)
      PROVE  CapabilityIsCurrent'
  BY <1>2 DEF TypeOK, Start, WaitBoot, CaptureFingerprint, Capture, StartFails, SelfTest,
              EndServing, ServeFails, StopFromUi, Install, RemoveHook, KeepHook
<1>3. ASSUME NEW d \in Daemons, Release(d) \/ Kill(d) PROVE CapabilityIsCurrent'
  BY <1>3 DEF TypeOK, Release, Kill, End
<1>4. CASE UninstallStop \/ UninstallClean \/ PlaceMarker \/ Leave \/ \E h \in Hooks : Enter(h)
  BY <1>4 DEF UninstallStop, UninstallClean, RemoveFiles, PlaceMarker, Leave, Enter
<1>5. CASE Reboot \/ UNCHANGED vars
  BY <1>5 DEF Reboot, vars
<1> QED BY <1>1, <1>2, <1>3, <1>4, <1>5 DEF Next, DaemonStep, Remove

-----------------------------------------------------------------------------
(* The theorems.                                                           *)

\* Every reachable state satisfies the inductive invariant.
LEMMA Inductive == Spec => []IInv
<1>1. Init => IInv
  <2> SUFFICES ASSUME Init PROVE IInv
    OBVIOUS
  <2>1. TypeOK
    BY BootAssumption DEF Init, TypeOK, NoHook, Calls
  <2> QED BY <2>1, LifecycleAssumption DEF Init, IInv, TargetInv, SessionInv, Holding, AloneInv, CompatInv,
               NoStackedHooks, ServingHookIsRight, LiveHookHasDaemon, FingerprintIsOriginal,
               CapabilityIsCurrent, NoHook, Patched
<1>2. IInv /\ [Next]_vars => IInv'
  BY NextType, SessionStep, AloneStep, StackStep, CompatStep, ServingStep, LiveStep, FingerprintStep,
     CapabilityStep DEF IInv
<1> QED BY <1>1, <1>2, PTL DEF Spec

\* On every kernel, and whatever the SDK leaves behind, the lock alone keeps a
\* second hook from an entry that carries one.
THEOREM Unstacked == Spec => []NoStackedHooks
BY Inductive, PTL DEF IInv

\* Whatever the self-test of run_readonly_parser_probe lets through serves on
\* unlocked_ioctl, or on compat_ioctl where a 32-bit HAL calls it and the
\* resolver cannot tell the two apart.
THEOREM ServesRightHook == Spec => []ServingHookIsRight
BY Inductive, PTL DEF IInv

\* Every return of run_readonly_parser_probe after the installation removes
\* the hook.
THEOREM NoLostHook == Spec => []LiveHookHasDaemon
BY Inductive, PTL DEF IInv

\* capture_original_id_fingerprint_if_missing records the HAL's own ID.
THEOREM OriginalFingerprint == Spec => []FingerprintIsOriginal
BY Inductive, PTL DEF IInv

\* The capability record shown for a running daemon is of its boot.
THEOREM CurrentCapability == Spec => []CapabilityIsCurrent
BY Inductive, PTL DEF IInv

=============================================================================
