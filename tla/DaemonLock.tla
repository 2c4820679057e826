----------------------------- MODULE DaemonLock -----------------------------
(***************************************************************************)
(* The single-instance lock of the daemon (file_lifecycle.cpp, and its use *)
(* in module_main.cpp and web_ui.cpp): a file in the module directory that *)
(* its owner holds with flock, writes its pid into and unlinks on exit.    *)
(* The WebUI probes the lock to tell a starting daemon from none, and      *)
(* uninstalling the module, or a boot-cleanup marker, removes the file     *)
(* with the rest of the module's state.  Every system call is a step.      *)
(*                                                                         *)
(* An inode is opened by at most one descriptor of a process; flock goes   *)
(* with the descriptor, and closing it, or the end of the process, unlocks *)
(* it.  Errors of open, fstat and flock other than "busy" end the attempt  *)
(* like "busy" does.  A pid in the file is known by the daemon that wrote  *)
(* it; once that daemon has ended the number may name another process.     *)
(***************************************************************************)
EXTENDS Naturals, FiniteSets

CONSTANTS Daemons,     \* daemon processes over time, each one run
          Probes,      \* calls of daemon_lock_owner_alive by the WebUI
          Nobody,      \* no process
          MaxInodes,   \* bound on lock files ever created
          MaxRemovals  \* bound on removals of the module's state files

ASSUME ProcessAssumption == Daemons \cap Probes = {} /\ Nobody \notin Daemons \cup Probes
ASSUME BoundAssumption == MaxInodes \in Nat /\ MaxRemovals \in Nat

Processes == Daemons \cup Probes
Inodes == 1..MaxInodes

VARIABLES
  path,      \* the inode drmid_daemon_v1.lock leads to (0: no such file)
  created,   \* inodes created so far
  owner,     \* who holds the flock of each inode
  text,      \* the pid written in each inode (Nobody: empty)
  fd,        \* the inode each process has open (0: none)
  pc,        \* where each process is
  pid,       \* the pid a probe has read, and its result
  removals,  \* removals of the state files so far
  owners,    \* history: daemons that held a lock since the probe began
  met,       \* history: the running daemon that held the file the probe
             \* opened (Nobody: there was none)
  unwritten, \* history: whoever kept the probe from the lock had not written
             \* its pid into the file
  raced      \* history: the lock file was removed while another daemon had
             \* it open

file == <<path, created, owner, text>>
history == <<owners, met, unwritten, raced>>
vars == <<file, fd, pc, pid, removals, history>>

Init ==
  /\ path = 0
  /\ created = 0
  /\ owner = [i \in Inodes |-> Nobody]
  /\ text = [i \in Inodes |-> Nobody]
  /\ fd = [p \in Processes |-> 0]
  /\ pc = [p \in Processes |-> "new"]
  /\ pid = [p \in Probes |-> Nobody]
  /\ removals = 0
  /\ owners = [p \in Probes |-> {}]
  /\ met = [p \in Probes |-> Nobody]
  /\ unwritten = [p \in Probes |-> FALSE]
  /\ raced = FALSE

Goto(p, from, to) ==
  /\ pc[p] = from
  /\ pc' = [pc EXCEPT ![p] = to]

Opens(p, i) == fd' = [fd EXCEPT ![p] = i]

\* flock and its effect on the probes under way.
Locks(p) ==
  /\ owner' = [owner EXCEPT ![fd[p]] = p]
  /\ owners' = [q \in Probes |-> IF p \in Daemons /\ pc[q] # "new"
                                   THEN owners[q] \cup {p} ELSE owners[q]]
  /\ UNCHANGED <<met, unwritten>>

\* Closing the descriptor gives up the lock it may hold.
Closes(p) ==
  /\ owner' = [i \in Inodes |-> IF owner[i] = p THEN Nobody ELSE owner[i]]
  /\ fd' = [fd EXCEPT ![p] = 0]

\* The lock file is unlinked by p.
Unlinks(p) ==
  /\ path' = 0
  /\ raced' = (raced \/ (path # 0 /\ \E d \in Daemons \ {p} : fd[d] = path))
  /\ UNCHANGED <<owners, met, unwritten>>

-----------------------------------------------------------------------------
(* A daemon: acquire_daemon_lock, write_daemon_lock_pid, release.          *)

\* openat with O_CREAT: a new file, or the one at the path.
Create(d) ==
  /\ Goto(d, "new", "opened")
  /\ path = 0
  /\ created < MaxInodes
  /\ created' = created + 1
  /\ path' = created + 1
  /\ Opens(d, created + 1)
  /\ UNCHANGED <<owner, text, pid, removals, history>>

OpenExisting(d) ==
  /\ Goto(d, "new", "opened")
  /\ path # 0
  /\ Opens(d, path)
  /\ UNCHANGED <<file, pid, removals, history>>

Open(d) == Create(d) \/ OpenExisting(d)

\* Faulty variant: a shared lock.
LockShared(d) ==
  /\ Goto(d, "opened", "locked")
  /\ Locks(d)
  /\ UNCHANGED <<path, created, text, fd, pid, removals, raced>>

\* flock; that the path still leads to the inode is not looked at again.
Lock(d) ==
  /\ Goto(d, "opened", "locked")
  /\ owner[fd[d]] = Nobody
  /\ Locks(d)
  /\ UNCHANGED <<path, created, text, fd, pid, removals, raced>>

\* The daemon exits quietly when the lock is taken.
Refused(d) ==
  /\ Goto(d, "opened", "exited")
  /\ owner[fd[d]] # Nobody
  /\ Closes(d)
  /\ UNCHANGED <<path, created, text, pid, removals, history>>

Truncate(d) ==
  /\ Goto(d, "locked", "empty")
  /\ text' = [text EXCEPT ![fd[d]] = Nobody]
  /\ UNCHANGED <<path, created, owner, fd, pid, removals, history>>

WritePid(d) ==
  /\ Goto(d, "empty", "running")
  /\ text' = [text EXCEPT ![fd[d]] = d]
  /\ UNCHANGED <<path, created, owner, fd, pid, removals, history>>

\* ftruncate or write fails, or fsync after the pid was written.
WriteFails(d) ==
  /\ pc[d] \in {"locked", "empty"}
  /\ pc' = [pc EXCEPT ![d] = "release"]
  /\ \/ UNCHANGED text
     \/ pc[d] = "empty" /\ text' = [text EXCEPT ![fd[d]] = d]
  /\ UNCHANGED <<path, created, owner, fd, pid, removals, history>>

\* run_readonly_parser_probe returns.
Return(d) ==
  /\ Goto(d, "running", "release")
  /\ UNCHANGED <<file, fd, pid, removals, history>>

\* With the boot-cleanup marker it removes the state files, its own lock file
\* among them, and returns without installing the hook.
BootCleanup(d) ==
  /\ removals < MaxRemovals
  /\ removals' = removals + 1
  /\ Goto(d, "running", "release")
  /\ Unlinks(d)
  /\ UNCHANGED <<created, owner, text, fd, pid>>

\* release_daemon_lock compares the inode of the path with its own.
Compare(d) ==
  /\ Goto(d, "release", IF path = fd[d] THEN "unlink" ELSE "unlock")
  /\ UNCHANGED <<file, fd, pid, removals, history>>

Unlink(d) ==
  /\ Goto(d, "unlink", "unlock")
  /\ Unlinks(d)
  /\ UNCHANGED <<created, owner, text, fd, pid, removals>>

Unlock(d) ==
  /\ Goto(d, "unlock", "exiting")
  /\ Closes(d)
  /\ UNCHANGED <<path, created, text, pid, removals, history>>

\* The process ends, by itself or because it is killed.
End(d) ==
  /\ pc[d] \notin {"new", "exited"}
  /\ pc' = [pc EXCEPT ![d] = "exited"]
  /\ Closes(d)
  /\ UNCHANGED <<path, created, text, pid, removals, history>>

\* module_on_uninstall: after the stop request, whether or not the daemon has
\* finished.
Uninstall ==
  /\ removals < MaxRemovals
  /\ removals' = removals + 1
  /\ Unlinks(Nobody)
  /\ UNCHANGED <<created, owner, text, fd, pc, pid>>

-----------------------------------------------------------------------------
(* The WebUI: daemon_lock_owner_alive.                                     *)

Alive(d) == pc[d] \notin {"new", "exited"}

\* A daemon past the lock holds inode i and has written its pid.
HeldByRunning(i) == owner[i] \in Daemons /\ pc[owner[i]] = "running"

ProbeOpen(p) ==
  /\ Goto(p, "new", IF path = 0 THEN "inactive" ELSE "size")
  /\ Opens(p, path)
  /\ owners' = [owners EXCEPT ![p] = {d \in Daemons : \E i \in Inodes : owner[i] = d}]
  /\ met' = [met EXCEPT ![p] = IF path # 0 /\ HeldByRunning(path) THEN owner[path] ELSE Nobody]
  /\ UNCHANGED <<file, pid, removals, unwritten, raced>>

\* An empty file has no owner yet.
ProbeEmpty(p) ==
  /\ Goto(p, "size", "inactive")
  /\ text[fd[p]] = Nobody
  /\ Opens(p, 0)
  /\ UNCHANGED <<file, pid, removals, history>>

ProbeFilled(p) ==
  /\ Goto(p, "size", "try")
  /\ text[fd[p]] # Nobody
  /\ UNCHANGED <<file, fd, pid, removals, history>>

ProbeSize(p) == ProbeEmpty(p) \/ ProbeFilled(p)

\* Taking the lock shows that the file is stale; the probe holds it shortly.
ProbeTakes(p) ==
  /\ Goto(p, "try", "held")
  /\ owner[fd[p]] = Nobody
  /\ Locks(p)
  /\ UNCHANGED <<path, created, text, fd, pid, removals, raced>>

ProbeBusy(p) ==
  /\ Goto(p, "try", "pid")
  /\ owner[fd[p]] # Nobody
  /\ unwritten' = [unwritten EXCEPT ![p] = text[fd[p]] # owner[fd[p]]]
  /\ UNCHANGED <<file, fd, pid, removals, owners, met, raced>>

\* Faulty variant: the lock is not tried.
ProbeTrusts(p) ==
  /\ Goto(p, "try", "pid")
  /\ UNCHANGED <<file, fd, pid, removals, history>>

ProbeLock(p) == ProbeTakes(p) \/ ProbeBusy(p)

ProbeUnlock(p) ==
  /\ Goto(p, "held", "inactive")
  /\ Closes(p)
  /\ UNCHANGED <<path, created, text, pid, removals, history>>

ProbeRead(p) ==
  /\ Goto(p, "pid", IF text[fd[p]] = Nobody THEN "inactive" ELSE "kill")
  /\ pid' = [pid EXCEPT ![p] = text[fd[p]]]
  /\ Opens(p, 0)
  /\ UNCHANGED <<file, removals, history>>

\* kill(pid, 0) succeeds, or fails with EPERM, when any process has the pid:
\* the daemon that wrote it, or another one the pid has passed to (other).
ProbeKill(p, other) ==
  /\ Goto(p, "kill", IF Alive(pid[p]) \/ other THEN "alive" ELSE "inactive")
  /\ UNCHANGED <<file, fd, pid, removals, history>>

-----------------------------------------------------------------------------

DaemonStep(d) ==
  \/ Open(d) \/ Lock(d) \/ Refused(d) \/ Truncate(d) \/ WritePid(d) \/ WriteFails(d)
  \/ Return(d) \/ BootCleanup(d) \/ Compare(d) \/ Unlink(d) \/ Unlock(d) \/ End(d)

ProbeStep(p) ==
  \/ ProbeOpen(p) \/ ProbeSize(p) \/ ProbeLock(p) \/ ProbeUnlock(p) \/ ProbeRead(p)
  \/ \E other \in BOOLEAN : ProbeKill(p, other)

Next ==
  \/ \E d \in Daemons : DaemonStep(d)
  \/ \E p \in Probes : ProbeStep(p)
  \/ Uninstall

Spec == Init /\ [][Next]_vars

-----------------------------------------------------------------------------
(* Properties.                                                             *)

\* Daemons that go on to run, with or without the hook installed.
Owners == {d \in Daemons : pc[d] \in {"locked", "empty", "running"}}

\* Types; and a lock is held through an open descriptor of its inode.
TypeOK ==
  /\ created \in 0..MaxInodes
  /\ path \in 0..created
  /\ owner \in [Inodes -> Processes \cup {Nobody}]
  /\ text \in [Inodes -> Daemons \cup {Nobody}]
  /\ fd \in [Processes -> 0..created]
  /\ \A i \in Inodes : owner[i] # Nobody => fd[owner[i]] = i
  /\ pc \in [Processes -> {"new", "opened", "locked", "empty", "running", "release",
                           "unlink", "unlock", "exiting", "exited", "size", "try",
                           "held", "pid", "kill", "alive", "inactive"}]
  /\ pid \in [Probes -> Daemons \cup {Nobody}]
  /\ removals \in 0..MaxRemovals
  /\ owners \in [Probes -> SUBSET Daemons]
  /\ met \in [Probes -> Daemons \cup {Nobody}]
  /\ unwritten \in [Probes -> BOOLEAN]
  /\ raced \in BOOLEAN

\* Unless the lock file was removed under another daemon that had it open,
\* one daemon runs at a time, and the path leads to the file it holds, so that
\* a second instance and a probe find it; whoever was killed.
OneOwnerUnlessRaced ==
  ~raced =>
    /\ Cardinality(Owners) <= 1
    /\ \A d \in Owners : path = fd[d] /\ owner[path] = d

\* A daemon that runs with its pid in the lock file from the beginning of a
\* probe to its end is reported, and no other pid.  The pid that is reported
\* is in any case that of a daemon that held the lock at some moment of the
\* probe, with one exception: the process that held the lock had not written
\* its pid yet, and the pid that an ended daemon left in the file has passed
\* to another process.
ProbeReportsOwner ==
  \A p \in Probes :
    /\ met[p] # Nobody /\ pc[met[p]] = "running" =>
         pc[p] # "inactive" /\ (pc[p] = "alive" => pid[p] = met[p])
    /\ pc[p] = "alive" =>
         pid[p] \in owners[p] \/ (unwritten[p] /\ ~Alive(pid[p]))

=============================================================================
