----------------------------- MODULE HalMonitor -----------------------------
(***************************************************************************)
(* The daemon's control loop as the monitor of Widevine HAL processes      *)
(* (control_ipc.cpp, hal_identity.cpp).  The loop waits for HAL exits with *)
(* pidfds, or rescans /proc on a timeout while it has none, and publishes  *)
(* the identity set that the binder_ioctl hook gates on.  HAL processes    *)
(* start and end at any moment, also between the scan, pidfd_open and the  *)
(* publication; clients and signals interrupt the loop; kernel accesses,   *)
(* opendir and pidfd_open may fail.                                        *)
(*                                                                         *)
(* Abstractions.  A pid names one process: pid reuse is left out.  What    *)
(* inspect_candidate reads decides whether a process is a Widevine HAL,    *)
(* and only HALs are modelled.  publish_hal_identities is one step that    *)
(* succeeds or changes nothing the hook reads (its double slot follows the *)
(* protocol of ConfigSlots).  Requests that do not concern identities are  *)
(* answered without effect.                                                *)
(***************************************************************************)
EXTENDS Naturals, FiniteSets

CONSTANTS Last,           \* number of HAL processes that ever run
          Limit,          \* kHalIdentityLimit
          MaxGeneration,  \* UINT64_MAX
          MaxFaults,      \* bound on failing kernel accesses and syscalls
          MaxClients      \* bound on connections to the control socket

ASSUME LastAssumption == Last \in Nat
ASSUME LimitsAssumption == Limit \in Nat /\ MaxGeneration \in Nat \ {0}
ASSUME BoundAssumption == MaxFaults \in Nat /\ MaxClients \in Nat

Pids == 1..Last  \* in the order in which /proc lists them

VARIABLES
  proc,     \* the HAL processes: "unborn", "running" or "dead"
  kernel,   \* the active HalIdentitySet of the kernel context
  active,   \* monitor.active, what the daemon believes is published
  backend,  \* monitor.backend
  retry,    \* monitor.retry_ms
  watched,  \* monitor.pidfds
  pc,       \* where the control loop is
  cursor,   \* the next pid that the /proc scan inspects
  found,    \* HAL processes the scan has matched
  client,   \* the connection to the control socket
  clients,  \* connections made so far
  stop,     \* the loop condition: a stop request, or the runtime is over
  term,     \* g_control_stop_requested
  faults    \* failures so far

monitor == <<active, backend, retry, watched>>
scan == <<cursor, found>>
outside == <<proc, client, clients, stop, term>>
vars == <<proc, kernel, monitor, pc, scan, client, clients, stop, term, faults>>

InitialMs == 50
MaximumMs == 2000
\* Faulty variant: the backoff has no maximum.
DoubledAlways(ms) == 2 * ms

Doubled(ms) == IF 2 * ms > MaximumMs THEN MaximumMs ELSE 2 * ms

Running == {p \in Pids : proc[p] = "running"}

\* The hook is installed with the set a scan found; processes may have ended
\* since.
Init ==
  /\ proc \in [Pids -> {"unborn", "running", "dead"}]
  /\ \E ids \in SUBSET {p \in Pids : proc[p] # "unborn"} :
       /\ Cardinality(ids) <= Limit
       /\ kernel = [gen |-> 1, tgids |-> ids]
  /\ active = [gen |-> 0, tgids |-> {}]
  /\ backend = "waiting"
  /\ retry = InitialMs
  /\ watched = {}
  /\ pc = "start"
  /\ cursor = 1
  /\ found = {}
  /\ client = "none"
  /\ clients = 0
  /\ stop = FALSE
  /\ term = FALSE
  /\ faults = 0

Goto(from, to) == pc = from /\ pc' = to

Fault == faults < MaxFaults /\ faults' = faults + 1

-----------------------------------------------------------------------------
(* Publishing an identity set.                                             *)

\* publish_monitored_identities numbers the set one above the last one, and
\* publish_hal_identities refuses a generation that is not new.
Accepted == active.gen < MaxGeneration /\ active.gen + 1 > kernel.gen

Publish(ids) ==
  /\ Accepted
  /\ kernel' = [gen |-> active.gen + 1, tgids |-> ids]
  /\ active' = kernel'
  /\ UNCHANGED faults

PublishFails ==
  /\ Accepted => Fault
  /\ ~Accepted => UNCHANGED faults
  /\ UNCHANGED <<kernel, active>>

\* clear_monitored_identities: the pidfds are closed whatever happens next.
Cleared(ms) ==
  /\ IF active.tgids = {} THEN UNCHANGED <<kernel, active, faults>>
                          ELSE Publish({})
  /\ watched' = {}
  /\ backend' = "waiting"
  /\ retry' = ms

ClearFails ==
  /\ active.tgids # {}
  /\ PublishFails
  /\ watched' = {}
  /\ UNCHANGED <<backend, retry>>

\* open_identity_pidfds: any error that does not mean "unsupported" is taken
\* for a process that is gone.
PidfdsReady(ids) == ids \subseteq Running
PidfdsGone(ids) == (ids \subseteq Running => Fault)
                   /\ (~(ids \subseteq Running) => UNCHANGED faults)

-----------------------------------------------------------------------------
(* initialize_hal_monitor.                                                 *)

StartFails ==
  /\ Goto("start", "stopped")
  /\ Fault
  /\ UNCHANGED <<outside, kernel, monitor, scan>>

\* monitor.active is what the kernel context says.
ReadActive ==
  /\ Goto("start", IF kernel.tgids = {} THEN "loop" ELSE "attach")
  /\ active' = kernel
  /\ UNCHANGED <<outside, kernel, backend, retry, watched, scan, faults>>

\* The pidfds of the installed set, or the procfs fallback.
Attach(ready) ==
  /\ Goto("attach", "loop")
  /\ ready => PidfdsReady(active.tgids)
  /\ watched' = IF ready THEN active.tgids ELSE {}
  /\ backend' = IF ready THEN "pidfd" ELSE "fallback"
  /\ UNCHANGED <<outside, kernel, active, retry, scan, faults>>

\* A process is gone already: clear, or give up.
AttachGone ==
  /\ Goto("attach", "detach")
  /\ PidfdsGone(active.tgids)
  /\ UNCHANGED <<outside, kernel, monitor, scan>>

Detach ==
  /\ \/ Goto("detach", "loop") /\ Cleared(InitialMs)
     \/ Goto("detach", "stopped") /\ ClearFails
  /\ UNCHANGED <<outside, scan>>

-----------------------------------------------------------------------------
(* The loop of run_control_socket_server.                                  *)

\* Faulty variant: the flag of the signal handler is not looked at.
LoopDeaf ==
  /\ Goto("loop", IF stop THEN "exit" ELSE "arm")
  /\ UNCHANGED <<outside, kernel, monitor, scan, faults>>

\* The loop condition; a signal that comes after it is not seen by poll.
Loop ==
  /\ Goto("loop", IF stop \/ term THEN "exit" ELSE "arm")
  /\ UNCHANGED <<outside, kernel, monitor, scan, faults>>

\* Descriptors and timeout are computed, and poll is entered.
Arm ==
  /\ Goto("arm", IF stop THEN "exit" ELSE "poll")
  /\ UNCHANGED <<outside, kernel, monitor, scan, faults>>

Gone == watched \ Running

\* A pidfd is readable.  A client that is waiting too is served afterwards.
PidfdEvent ==
  /\ Gone # {}
  /\ \/ Cleared(InitialMs) /\ Goto("poll", IF client = "none" THEN "loop" ELSE "accept")
     \/ ClearFails /\ Goto("poll", "exit")
  /\ UNCHANGED <<outside, scan>>

\* Faulty variants: one of the backends has no timeout.
TimeoutOf(timed) ==
  /\ Goto("poll", "scan")
  /\ backend = timed
  /\ Gone = {}
  /\ client = "none"
  /\ cursor' = 1
  /\ found' = {}
  /\ UNCHANGED <<outside, kernel, monitor, faults>>

TimeoutWaitingOnly == TimeoutOf("waiting")
TimeoutFallbackOnly == TimeoutOf("fallback")

\* poll times out, which needs a timeout and nothing else to report.
Timeout ==
  /\ Goto("poll", "scan")
  /\ backend # "pidfd"
  /\ Gone = {}
  /\ client = "none"
  /\ cursor' = 1
  /\ found' = {}
  /\ UNCHANGED <<outside, kernel, monitor, faults>>

PollFails ==
  /\ Goto("poll", "exit")
  /\ Fault
  /\ UNCHANGED <<outside, kernel, monitor, scan>>

\* Only the control socket is readable.
ClientEvent ==
  /\ Goto("poll", "accept")
  /\ client # "none"
  /\ Gone = {}
  /\ UNCHANGED <<outside, kernel, monitor, scan, faults>>

\* accept4 may fail; the connection stays in the backlog.
Accept ==
  /\ \/ Goto("accept", "read") /\ UNCHANGED faults
     \/ Goto("accept", "loop") /\ Fault
  /\ UNCHANGED <<outside, kernel, monitor, scan>>

\* read_exact blocks until the client has sent a request or hung up; the
\* response goes to whoever is still there.
Serve ==
  /\ Goto("read", "loop")
  /\ client # "waiting"
  /\ stop' = (stop \/ client = "stop")
  /\ client' = "none"
  /\ UNCHANGED <<proc, clients, term, kernel, monitor, scan, faults>>

-----------------------------------------------------------------------------
(* rediscover_hal_identities: discover, reconcile, adopt.                  *)

\* inspect_candidate of the next pid.
Inspect ==
  /\ Goto("scan", "scan")
  /\ cursor <= Last
  /\ cursor' = cursor + 1
  /\ found' = IF proc[cursor] = "running" THEN found \cup {cursor} ELSE found
  /\ UNCHANGED <<outside, kernel, monitor, faults>>

\* /proc could not be opened, or lists more HALs than a set can hold.
ScanFails ==
  /\ Goto("scan", "recover")
  /\ \/ cursor = 1 /\ Fault
     \/ cursor > Last /\ Cardinality(found) > Limit /\ UNCHANGED faults
  /\ UNCHANGED <<outside, kernel, monitor, scan>>

\* Faulty variant: a set that differs is adopted directly.
ReconcileDirectly ==
  /\ Goto("scan", "adopt")
  /\ cursor > Last
  /\ Cardinality(found) <= Limit
  /\ UNCHANGED <<outside, kernel, monitor, scan, faults>>

\* A set that differs from the published one is adopted through the empty one.
Reconcile ==
  /\ cursor > Last
  /\ Cardinality(found) <= Limit
  /\ IF active.tgids # {} /\ active.tgids # found
       THEN \/ Goto("scan", "adopt") /\ Cleared(InitialMs)
            \/ Goto("scan", "recover") /\ ClearFails
       ELSE Goto("scan", "adopt") /\ UNCHANGED <<kernel, monitor, faults>>
  /\ UNCHANGED <<outside, scan>>

AdoptNothing ==
  /\ Goto("adopt", "loop")
  /\ found = {}
  /\ backend' = "waiting"
  /\ retry' = Doubled(retry)
  /\ UNCHANGED <<outside, kernel, active, watched, scan, faults>>

\* force_procfs keeps the fallback; otherwise pidfds are tried (again).
Adopt(ready) ==
  /\ Goto("adopt", "publish")
  /\ found # {}
  /\ ready => backend # "fallback" /\ PidfdsReady(found)
  /\ watched' = IF ready THEN found ELSE {}
  /\ UNCHANGED <<outside, kernel, active, backend, retry, scan, faults>>

AdoptGone ==
  /\ Goto("adopt", "loop")
  /\ found # {}
  /\ backend # "fallback"
  /\ PidfdsGone(found)
  /\ watched' = {}
  /\ backend' = "waiting"
  /\ retry' = Doubled(retry)
  /\ UNCHANGED <<outside, kernel, active, scan>>

\* Faulty variant: the backend does not depend on the pidfds.
AdoptPublishPidfd ==
  /\ Goto("publish", "loop")
  /\ IF active.tgids = found THEN UNCHANGED <<kernel, active, faults>>
                             ELSE Publish(found)
  /\ backend' = "pidfd"
  /\ retry' = InitialMs
  /\ UNCHANGED <<outside, watched, scan>>

AdoptPublish ==
  /\ \/ /\ Goto("publish", "loop")
        /\ IF active.tgids = found THEN UNCHANGED <<kernel, active, faults>>
                                   ELSE Publish(found)
        /\ backend' = IF watched = {} THEN "fallback" ELSE "pidfd"
        /\ retry' = InitialMs
     \/ /\ Goto("publish", "recover")
        /\ active.tgids # found
        /\ PublishFails
        /\ UNCHANGED <<backend, retry>>
  /\ UNCHANGED <<outside, watched, scan>>

\* A failed rediscovery leaves no identity behind.
Recover ==
  /\ \/ Goto("recover", "loop") /\ Cleared(Doubled(InitialMs))
     \/ Goto("recover", "exit") /\ ClearFails
  /\ UNCHANGED <<outside, scan>>

\* Faulty variant: the server returns without a last clear.
ExitUncleared ==
  /\ Goto("exit", "stopped")
  /\ UNCHANGED <<outside, kernel, monitor, scan, faults>>

\* Leaving the loop: the last clear may fail too, the server returns anyway.
Exit ==
  /\ Goto("exit", "stopped")
  /\ Cleared(InitialMs) \/ ClearFails
  /\ UNCHANGED <<outside, scan>>

-----------------------------------------------------------------------------
(* The environment: HAL processes, clients of the socket, signals.         *)

Birth(p) ==
  /\ proc[p] = "unborn"
  /\ proc' = [proc EXCEPT ![p] = "running"]
  /\ UNCHANGED <<kernel, monitor, pc, scan, client, clients, stop, term, faults>>

Death(p) ==
  /\ proc[p] = "running"
  /\ proc' = [proc EXCEPT ![p] = "dead"]
  /\ UNCHANGED <<kernel, monitor, pc, scan, client, clients, stop, term, faults>>

Connect ==
  /\ client = "none"
  /\ clients < MaxClients
  /\ client' = "waiting"
  /\ clients' = clients + 1
  /\ UNCHANGED <<proc, kernel, monitor, pc, scan, stop, term, faults>>

\* send_control_ipc_request writes its request, or its process ends and the
\* connection is closed.
Request(what) ==
  /\ client = "waiting"
  /\ client' = what
  /\ UNCHANGED <<proc, kernel, monitor, pc, scan, clients, stop, term, faults>>

\* SIGTERM or SIGINT.  poll returns with EINTR; read_exact resumes.
Signal ==
  /\ ~term
  /\ term' = TRUE
  /\ pc' = IF pc = "poll" THEN "loop" ELSE pc
  /\ UNCHANGED <<proc, kernel, monitor, scan, client, clients, stop, faults>>

\* DRMID_DAEMON_MAX_MS is over; poll's timeout never exceeds what is left.
Expire ==
  /\ ~stop
  /\ pc \notin {"start", "attach", "detach"}
  /\ stop' = TRUE
  /\ pc' = IF pc = "poll" THEN "loop" ELSE pc
  /\ UNCHANGED <<proc, kernel, monitor, scan, client, clients, term, faults>>

Daemon ==
  \/ StartFails \/ ReadActive \/ AttachGone \/ Detach
  \/ \E ready \in BOOLEAN : Attach(ready) \/ Adopt(ready)
  \/ Loop \/ Arm \/ PidfdEvent \/ Timeout \/ PollFails \/ ClientEvent
  \/ Accept \/ Serve
  \/ Inspect \/ ScanFails \/ Reconcile \/ AdoptNothing \/ AdoptGone
  \/ AdoptPublish \/ Recover \/ Exit

Requests == \E what \in {"status", "stop", "closed"} : Request(what)

Environment ==
  \/ \E p \in Pids : Birth(p) \/ Death(p)
  \/ Connect
  \/ Requests
  \/ Signal
  \/ Expire

\* The server has returned and its caller removes the hook.
Stopped == pc = "stopped" /\ UNCHANGED vars

Next == Daemon \/ Environment \/ Stopped

Spec == Init /\ [][Next]_vars

\* The daemon is scheduled and its timeouts elapse; a client sends at once
\* or is killed, which closes its connection.
FairSpec == Spec /\ WF_vars(Daemon) /\ WF_vars(Requests)

-----------------------------------------------------------------------------
(* Properties.                                                             *)

IdentitySets == [gen : 0..MaxGeneration, tgids : SUBSET Pids]

TypeOK ==
  /\ proc \in [Pids -> {"unborn", "running", "dead"}]
  /\ kernel \in IdentitySets
  /\ active \in IdentitySets
  /\ backend \in {"waiting", "pidfd", "fallback"}
  /\ retry \in InitialMs..MaximumMs
  /\ watched \in SUBSET Pids
  /\ pc \in {"start", "attach", "detach", "loop", "arm", "poll", "accept", "read",
             "scan", "adopt", "publish", "recover", "exit", "stopped"}
  /\ cursor \in 1..(Last + 1)
  /\ found \in SUBSET Pids
  /\ client \in {"none", "waiting", "status", "stop", "closed"}
  /\ clients \in 0..MaxClients
  /\ stop \in BOOLEAN
  /\ term \in BOOLEAN
  /\ faults \in 0..MaxFaults

\* Whenever the loop blocks, what the daemon believes is what the hook gates
\* on, and every published process is either watched through a pidfd or will
\* be looked up again after a timeout; with nothing published it keeps looking.
NothingUnwatched ==
  pc = "poll" =>
    /\ active = kernel
    /\ Cardinality(kernel.tgids) <= Limit
    /\ backend = "pidfd" => watched = kernel.tgids /\ watched # {}
    /\ backend = "fallback" => watched = {} /\ kernel.tgids # {}
    /\ backend = "waiting" => watched = {} /\ kernel.tgids = {}

\* The hook never goes from one set of HAL processes to another without the
\* empty set in between, and never sees the same generation twice: the frames
\* pending under the old set are dead before the new set is let in.
EmptyBeforeNew ==
  [][kernel' # kernel =>
       /\ kernel.tgids = {} \/ kernel'.tgids = {}
       /\ kernel'.gen > kernel.gen]_vars

\* A daemon that stops leaves no identity for the hook to act on, unless an
\* access to the kernel failed or the generations are used up.
StoppedUntracked ==
  pc = "stopped" /\ faults = 0 /\ kernel.gen < MaxGeneration
    => kernel.tgids = {}

\* A process that ended does not stay in the identity set.
DeadEventuallyUntracked ==
  \A p \in Pids :
    p \in kernel.tgids /\ proc[p] = "dead" ~>
      p \notin kernel.tgids \/ pc = "stopped"

\* While nothing is tracked, a running HAL gets the daemon to track some HAL,
\* unless it ends, or there are more than a set holds.
RunningEventuallyTracked ==
  \A p \in Pids :
    proc[p] = "running" /\ kernel.tgids = {} ~>
      \/ kernel.tgids # {}
      \/ proc[p] = "dead"
      \/ Cardinality(Running) > Limit
      \/ pc = "stopped"

\* A stop request ends the server.  A signal does too, unless it came between
\* the loop condition and a poll that waits for pidfds without a timeout.
StopHonoured ==
  /\ stop ~> pc = "stopped"
  /\ term ~> pc = "stopped" \/ (pc = "poll" /\ backend = "pidfd")

=============================================================================
