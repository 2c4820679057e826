--------------------------- MODULE StartupReadiness ---------------------------
(***************************************************************************)
(* The gate a starting daemon passes before it installs the hook           *)
(* (module_main.cpp, startup_readiness.cpp): it waits for                  *)
(* sys.boot_completed, then samples the system until system_server and     *)
(* surfaceflinger have been the same quiet processes for policy.stable_ms, *)
(* or until policy.deadline_ms.  Processes end, are reaped and started     *)
(* again, possibly with a pid that was in use before, between the steps of *)
(* a sample as well as between samples.                                    *)
(*                                                                         *)
(* Times are milliseconds, as in the code.  The properties and the cached  *)
(* processes are read in one step and /proc in another.  A process is      *)
(* known by its start time, which counts the processes started.            *)
(***************************************************************************)
EXTENDS Integers, Sequences, FiniteSetsExt

CONSTANTS Pids,          \* pids processes get (greater than 1)
          PidMax,        \* the largest of them
          Environments,  \* settings of the DRMID_READY_* variables
          Unset,         \* a variable that is not set
          BootWait,      \* DRMID_BOOT_WAIT_MS
          Bursts,        \* CPU ticks a process may use at once
          MaxEvents      \* bound on changes of the system

ASSUME PidAssumption == PidMax \in Nat /\ Pids \subseteq 2..PidMax
ASSUME BurstAssumption == Bursts \subseteq Nat

Roles == {"system_server", "surfaceflinger"}
Names == Roles \cup {"other"}
NoPid == -1
TicksPerSecond == 100
BootPoll == 500

Ended == {"no_boot", "stable", "fallback"}

VARIABLES
  booted,     \* sys.boot_completed is 1
  ready,      \* the six properties sample_observation reads have their
              \* values (dev.bootcomplete, sys.user.0.ce_available and
              \* init.svc.drm64 may also be absent)
  procs,      \* the process of each pid, as a sequence of at most one
  starts,     \* history: name, pid and sample of each process started
  events,     \* changes of the system so far
  lastEvent,  \* history: the sample during or after which the last one was
  pc,         \* where the daemon is
  bootElapsed,\* boot_elapsed_ms
  policy,     \* StartupReadinessPolicy
  elapsed,    \* result.elapsed_ms
  stable,     \* result.stable_ms
  cached,     \* system_server_pid, surface_flinger_pid
  cachedOk,   \* cached_system_ok, cached_surface_ok
  draft,      \* the observation under way
  previous,   \* the previous one, as a sequence of at most one
  samples,    \* history: samples begun
  unready     \* history: the last sample that found a property not ready

system == <<booted, ready, procs, starts>>
history == <<samples, unready>>
vars == <<system, events, lastEvent, pc, bootElapsed, policy, elapsed, stable,
          cached, cachedOk, draft, previous, history>>

\* bounded_environment_u32: a value out of range counts as unset.
BoundedEnvironment(v, fallback, minimum, maximum) ==
  IF v # Unset /\ v \in minimum..maximum THEN v ELSE fallback

PolicyFromEnvironment(e) ==
  LET stableMs == BoundedEnvironment(e.stable, 3000, 1000, 15000)
      deadlineMs == BoundedEnvironment(e.deadline, 45000, 5000, 60000)
  IN [poll |-> BoundedEnvironment(e.poll, 250, 100, 1000),
      stable |-> stableMs,
      deadline |-> IF deadlineMs < stableMs THEN stableMs ELSE deadlineMs,
      permille |-> BoundedEnvironment(e.permille, 500, 50, 4000)]

-----------------------------------------------------------------------------
(* Observations.                                                           *)

NoObservation == [pid |-> NoPid, state |-> "?", start |-> 0, cpu |-> 0]

\* process_alive
ProcessAlive(o) == o.pid > 1 /\ o.start # 0 /\ o.state \notin {"Z", "?"}

Named(p, name) == procs[p] # <<>> /\ procs[p][1].name = name

\* read_process_observation: a zombie is read as well, and is not alive.
ReadObservation(p) ==
  IF p \in Pids /\ procs[p] # <<>>
    THEN [pid |-> p, state |-> procs[p][1].state,
          start |-> procs[p][1].start, cpu |-> procs[p][1].cpu]
    ELSE NoObservation

\* startup_base_services_ready
BaseServicesReady(o) ==
  o.ready /\ (\A r \in Roles : ProcessAlive(o.proc[r])) /\ o.count # 0

AllowedTicks == (policy.permille * policy.poll * TicksPerSecond) \div 1000000 + 1

\* Faulty variant: processes are compared by pid alone.
ObservationsQuietByPid(prev, cur) ==
  /\ BaseServicesReady(cur)
  /\ prev.count = cur.count
  /\ \A r \in Roles : /\ ProcessAlive(prev.proc[r])
                      /\ prev.proc[r].pid = cur.proc[r].pid
                      /\ cur.proc[r].cpu - prev.proc[r].cpu \in 0..AllowedTicks

\* startup_observations_quiet: the same two processes, as many processes, and
\* little CPU time used since the previous sample.
ObservationsQuiet(prev, cur) ==
  /\ BaseServicesReady(cur)
  /\ prev.count = cur.count
  /\ \A r \in Roles :
       /\ ProcessAlive(prev.proc[r])
       /\ prev.proc[r].pid = cur.proc[r].pid
       /\ prev.proc[r].start = cur.proc[r].start
       /\ cur.proc[r].cpu - prev.proc[r].cpu \in 0..AllowedTicks

-----------------------------------------------------------------------------
(* The system.  Android runs one live process of each role at a time.      *)

Process(name, start) == [name |-> name, state |-> "S", start |-> start, cpu |-> 0]

Event ==
  /\ pc \notin Ended
  /\ events < MaxEvents
  /\ events' = events + 1
  /\ lastEvent' = samples

DaemonUnchanged ==
  UNCHANGED <<pc, bootElapsed, policy, elapsed, stable, cached, cachedOk, draft,
              previous, history>>

BootCompletes ==
  /\ ~booted /\ pc \notin Ended
  /\ booted' = TRUE
  /\ UNCHANGED <<events, lastEvent, ready, procs, starts>> /\ DaemonUnchanged

PropertiesChange ==
  /\ Event
  /\ ready' = ~ready
  /\ UNCHANGED <<booted, procs, starts>> /\ DaemonUnchanged

ProcessStarts(p, name) ==
  /\ procs[p] = <<>> /\ Event
  /\ name \in Roles => \A q \in Pids : Named(q, name) => procs[q][1].state = "Z"
  /\ procs' = [procs EXCEPT ![p] = <<Process(name, Len(starts) + 1)>>]
  /\ starts' = Append(starts, [name |-> name, pid |-> p, at |-> samples])
  /\ UNCHANGED <<booted, ready>> /\ DaemonUnchanged

\* The process ends; until its parent reaps it, it is a zombie.
ProcessEnds(p) ==
  /\ procs[p] # <<>> /\ procs[p][1].state # "Z" /\ Event
  /\ procs' = [procs EXCEPT ![p] = <<[procs[p][1] EXCEPT !.state = "Z"]>>]
  /\ UNCHANGED <<booted, ready, starts>> /\ DaemonUnchanged

ProcessReaped(p) ==
  /\ procs[p] # <<>> /\ procs[p][1].state = "Z" /\ Event
  /\ procs' = [procs EXCEPT ![p] = <<>>]
  /\ UNCHANGED <<booted, ready, starts>> /\ DaemonUnchanged

ProcessWorks(p, ticks) ==
  /\ procs[p] # <<>> /\ procs[p][1].state # "Z" /\ procs[p][1].name \in Roles /\ Event
  /\ procs' = [procs EXCEPT ![p] = <<[procs[p][1] EXCEPT !.cpu = @ + ticks]>>]
  /\ UNCHANGED <<booted, ready, starts>> /\ DaemonUnchanged

-----------------------------------------------------------------------------
(* The daemon.                                                             *)

SystemUnchanged == UNCHANGED <<system, events, lastEvent>>

EmptyDraft == [ready |-> FALSE, proc |-> [r \in Roles |-> NoObservation], count |-> 0]

\* Faulty variant: the time waited for boot is not counted.
WaitForBootUncounted ==
  /\ pc = "boot" /\ ~booted
  /\ bootElapsed >= BootWait
  /\ pc' = "no_boot"
  /\ UNCHANGED <<bootElapsed, policy, elapsed, stable, cached, cachedOk, draft,
                 previous, history>>
  /\ SystemUnchanged

\* The wait for sys.boot_completed; the result is ERR_MODULE_NO_BOOT when it is
\* over.
WaitForBoot ==
  /\ pc = "boot" /\ ~booted
  /\ IF bootElapsed >= BootWait
       THEN pc' = "no_boot" /\ UNCHANGED bootElapsed
       ELSE bootElapsed' = bootElapsed + BootPoll /\ UNCHANGED pc
  /\ UNCHANGED <<policy, elapsed, stable, cached, cachedOk, draft, previous, history>>
  /\ SystemUnchanged

BeginReadiness ==
  /\ pc = "boot" /\ booted
  /\ pc' = "sample"
  /\ UNCHANGED <<bootElapsed, policy, elapsed, stable, cached, cachedOk, draft,
                 previous, history>>
  /\ SystemUnchanged

\* The properties, and the first half of sample_processes.  What was read of a
\* cached pid stays in the observation, also when the pid has passed to a
\* process of another name.
SampleCached ==
  /\ pc = "sample" /\ elapsed < policy.deadline
  /\ pc' = "scan"
  /\ draft' = [EmptyDraft EXCEPT !.ready = ready,
                                 !.proc = [r \in Roles |-> ReadObservation(cached[r])]]
  /\ cachedOk' = [r \in Roles |-> /\ ProcessAlive(ReadObservation(cached[r]))
                                  /\ Named(cached[r], r)]
  /\ samples' = samples + 1
  /\ unready' = IF ready THEN unready ELSE samples + 1
  /\ UNCHANGED <<bootElapsed, policy, elapsed, stable, cached, previous>>
  /\ SystemUnchanged

\* Faulty variant: the first sample remains the one that is compared with.
JudgeFirstBaseline(o) ==
  LET quiet == previous # <<>> /\ ObservationsQuiet(previous[1], o)
      window == IF quiet THEN Min({policy.stable, stable + policy.poll}) ELSE 0
  IN /\ stable' = window
     /\ draft' = o
     /\ IF window >= policy.stable
          THEN pc' = "stable" /\ UNCHANGED previous
          ELSE pc' = "sleep" /\ previous' = IF previous = <<>> THEN <<o>> ELSE previous

\* What the loop of wait_for_adaptive_startup_readiness does with a sample.
Judge(o) ==
  LET quiet == previous # <<>> /\ ObservationsQuiet(previous[1], o)
      window == IF quiet THEN Min({policy.stable, stable + policy.poll}) ELSE 0
  IN /\ stable' = window
     /\ draft' = o
     /\ IF window >= policy.stable
          THEN pc' = "stable" /\ UNCHANGED previous
          ELSE pc' = "sleep" /\ previous' = <<o>>

\* The second half: readdir goes through the pids in ascending order, and each
\* process of a role that is not cached replaces the one before it.
ScanProcesses ==
  /\ pc = "scan"
  /\ LET holders(r) == {p \in Pids : Named(p, r)}
         proc == [r \in Roles |-> IF cachedOk[r] \/ holders(r) = {}
                                    THEN draft.proc[r]
                                    ELSE ReadObservation(Max(holders(r)))]
     IN /\ cached' = [r \in Roles |-> IF ProcessAlive(proc[r]) THEN proc[r].pid ELSE NoPid]
        /\ Judge([draft EXCEPT !.proc = proc,
                               !.count = Cardinality({p \in Pids : procs[p] # <<>>})])
  /\ cachedOk' = [r \in Roles |-> FALSE]
  /\ UNCHANGED <<bootElapsed, policy, elapsed, history>>
  /\ SystemUnchanged

\* opendir fails: no process is observed and the cached pids are kept.
ScanFails ==
  /\ pc = "scan" /\ Event
  /\ Judge([draft EXCEPT !.proc = EmptyDraft.proc, !.count = 0])
  /\ cachedOk' = [r \in Roles |-> FALSE]
  /\ UNCHANGED <<system, bootElapsed, policy, elapsed, cached, history>>

\* usleep(poll_ms); elapsed_ms stops at the deadline.
Sleep ==
  /\ pc = "sleep"
  /\ pc' = "sample"
  /\ elapsed' = IF policy.deadline - elapsed < policy.poll
                  THEN policy.deadline ELSE elapsed + policy.poll
  /\ UNCHANGED <<bootElapsed, policy, stable, cached, cachedOk, draft, previous, history>>
  /\ SystemUnchanged

\* deadline_fallback: the hook is installed although the window never filled.
DeadlineFallback ==
  /\ pc = "sample" /\ elapsed >= policy.deadline
  /\ pc' = "fallback"
  /\ UNCHANGED <<bootElapsed, policy, elapsed, stable, cached, cachedOk, draft,
                 previous, history>>
  /\ SystemUnchanged

-----------------------------------------------------------------------------
Init ==
  /\ booted = FALSE
  /\ ready \in BOOLEAN
  /\ \E f \in [Roles -> Pids] :
       /\ f["surfaceflinger"] < f["system_server"]
       /\ starts = <<[name |-> "surfaceflinger", pid |-> f["surfaceflinger"], at |-> 0],
                     [name |-> "system_server", pid |-> f["system_server"], at |-> 0]>>
       /\ procs = [p \in Pids |-> IF p = f["surfaceflinger"] THEN <<Process("surfaceflinger", 1)>>
                                  ELSE IF p = f["system_server"] THEN <<Process("system_server", 2)>>
                                  ELSE <<>>]
  /\ events = 0 /\ lastEvent = 0
  /\ pc = "boot"
  /\ bootElapsed = 0
  /\ policy \in {PolicyFromEnvironment(e) : e \in Environments}
  /\ elapsed = 0 /\ stable = 0
  /\ cached = [r \in Roles |-> NoPid]
  /\ cachedOk = [r \in Roles |-> FALSE]
  /\ draft = EmptyDraft
  /\ previous = <<>>
  /\ samples = 0 /\ unready = 0

Daemon ==
  \/ WaitForBoot \/ BeginReadiness
  \/ SampleCached \/ ScanProcesses \/ ScanFails
  \/ Sleep \/ DeadlineFallback

Android ==
  \/ BootCompletes
  \/ PropertiesChange
  \/ \E p \in Pids : \/ \E name \in Names : ProcessStarts(p, name)
                     \/ ProcessEnds(p) \/ ProcessReaped(p)
                     \/ \E ticks \in Bursts : ProcessWorks(p, ticks)

Next == Daemon \/ Android

Spec == Init /\ [][Next]_vars

\* The daemon is scheduled, and its sleeps end.
FairSpec == Spec /\ WF_vars(Daemon)

-----------------------------------------------------------------------------
Observations == [pid : Pids \cup {NoPid}, state : {"S", "Z", "?"}, start : Nat, cpu : Nat]
Samples == [ready : BOOLEAN, proc : [Roles -> Observations], count : Nat]

\* Types; stable_ms and elapsed_ms do not pass stable and deadline of the
\* policy, and the window never holds more than the time that has passed.
TypeOK ==
  /\ booted \in BOOLEAN
  /\ ready \in BOOLEAN
  /\ \A p \in Pids :
       procs[p] # <<>> => procs[p][1] \in [name : Names, state : {"S", "Z"},
                                           start : 1..Len(starts), cpu : Nat]
  /\ events \in 0..MaxEvents
  /\ pc \in {"boot", "sample", "scan", "sleep"} \cup Ended
  /\ elapsed \in 0..policy.deadline
  /\ stable \in 0..policy.stable
  /\ stable <= elapsed
  /\ cached \in [Roles -> Pids \cup {NoPid}]
  /\ cachedOk \in [Roles -> BOOLEAN]
  /\ draft \in Samples
  /\ previous # <<>> => previous[1] \in Samples
  /\ lastEvent \in 0..samples /\ unready \in 0..samples

\* Samples that have to find the system quiet one after the other.
Window == (policy.stable + policy.poll - 1) \div policy.poll

\* The pid of process i belonged to a process with that name before.
PidReused(i, name) ==
  \E j \in 1..(i - 1) : starts[j].pid = starts[i].pid /\ starts[j].name = name

\* When the gate opens on stability (startup_readiness.cpp:300), the observed
\* system_server and surfaceflinger have each been running since the sample a
\* whole window ago, and every sample after that one found all properties
\* ready.  The observed processes bear the names they are taken for, unless the
\* pid of one that ended was given to another process, which
\* sample_processes goes on observing while there is none of the right name.
StableMeansWindow ==
  pc = "stable" =>
    /\ \A r \in Roles :
         LET i == draft.proc[r].start
         IN /\ i \in 1..Len(starts)
            /\ starts[i].at <= samples - Window
            /\ starts[i].name = r \/ PidReused(i, r)
    /\ unready <= samples - Window

\* All properties are ready and each role has a process and no zombie.
Settled ==
  /\ ready
  /\ \A r \in Roles : /\ \E p \in Pids : Named(p, r)
                      /\ \A p \in Pids : Named(p, r) => procs[p][1].state = "S"

\* The deadline is only a fallback (module_main.cpp:386): it ends the wait with
\* a ready system only if something changed in it less than a window of samples
\* before the end, or if the deadline leaves no room for a window: the sample
\* that fills the window has to begin before the deadline.
FallbackMeansUnsettled ==
  pc = "fallback" /\ Settled => samples <= lastEvent + Window

\* Every start of the daemon gets past the gate or gives up, whatever the
\* system does meanwhile (startup_readiness.cpp:271, module_main.cpp:364).
GateOpens == <>(pc \in Ended)

=============================================================================
