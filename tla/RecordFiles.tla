---------------------------- MODULE RecordFiles ----------------------------
(***************************************************************************)
(* The records the daemon and the WebUI keep in the module's private       *)
(* directory (runtime_control.cpp, runtime_profile.cpp,                    *)
(* device_id_fingerprint.cpp, file_lifecycle.cpp) and the part of a daemon *)
(* start that reads, creates and migrates them (module_main.cpp).  Every   *)
(* record is replaced by the same steps: open a temporary file, write it,  *)
(* sync it, rename it over the record, sync the directory.  A step may     *)
(* fail, a process may be killed between any two steps, and power may be   *)
(* lost at any moment.                                                     *)
(*                                                                         *)
(* The file system (external): what is written but not synced may be lost  *)
(* or torn by a power loss; directory operations reach the disk in order,  *)
(* a rename as a whole, and all of them with a successful directory sync.  *)
(* A record is its payload: a virtual ID for the control record, a seed,   *)
(* the original fingerprint; Torn is a file of the wrong size, or whose    *)
(* magic, version, ranges or CRC do not hold.  A record of the right form  *)
(* carries the fingerprint of its own ID: as the code writes it, and, for  *)
(* the v2 record, as the earlier version is taken to have written it.      *)
(***************************************************************************)
EXTENDS Naturals, FiniteSets

CONSTANTS Uis,         \* WebUI processes
          Pids,        \* process IDs, reused
          Inodes,      \* inode numbers
          LegacyId,    \* the ID of the v2 control record
          DerivedId,   \* the ID derived from the seed
          ChosenIds,   \* IDs chosen in the WebUI
          Original,    \* the fingerprint of the HAL's own ID
          Absent, Torn,
          MaxApplies,  \* bound on apply requests
          MaxTroubles  \* bound on failing operations, kills and power losses

Daemon == "daemon"
Procs == Uis \cup {Daemon}
Ids == ChosenIds \cup {LegacyId, DerivedId}

\* 1 and 2 are the files of an updated installation.
ASSUME InodeAssumption == Inodes \subseteq Nat \ {0} /\ {1, 2} \subseteq Inodes
ASSUME ProcessAssumption == Daemon \notin Uis
ASSUME PidAssumption == Pids \cap {"final", "tmp"} = {}
\* A record is told from none and from a damaged one; seeds are numbers.
ASSUME RecordAssumption == /\ {Absent, Torn} \cap (Ids \cup {Original} \cup Nat) = {}
                           /\ Absent # Torn
ASSUME BoundAssumption == MaxApplies \in Nat /\ MaxTroubles \in Nat

Kinds == {"control", "seed", "fingerprint"}
Final(r) == <<r, "final">>
Legacy == <<"legacy", "final">>
SeedTemps == {"seed"} \X Pids
Names == {Final(r) : r \in Kinds} \cup {Legacy} \cup SeedTemps
         \cup {<<"control", "tmp">>, <<"fingerprint", "tmp">>}
NoInode == 0

VARIABLES
  dir,        \* the directory as processes see it
  versions,   \* the directories a power loss may leave
  inode,      \* contents, and whether they are synced
  pc,         \* where each process is
  pid,        \* the daemon's process ID
  job,        \* the record it writes: kind, payload, open file, where to go on
  seeds,      \* seeds generated so far
  troubles, applies,
  faulted,    \* history: a file operation of this daemon start failed
  acked,      \* history: the payload last reported as written, or recovered
  attempted,  \* history: payloads whose writing began since
  lossy,      \* history: the last rename was not followed by a directory sync
  contended   \* history: two processes wrote the same temporary file

fs == <<dir, versions, inode>>
procs == <<pc, pid, job>>
bounds == <<troubles, applies>>
history == <<faulted, acked, attempted, lossy, contended>>
vars == <<fs, procs, seeds, bounds, history>>

NoJob == [kind |-> "control", value |-> Absent, fd |-> NoInode, then |-> "off"]
Writing == {"open", "write", "sync", "rename", "syncdir"}

Unused == [data |-> Torn, synced |-> FALSE]
Content(i) == IF i = NoInode THEN Absent ELSE inode[i].data
Read(r) == Content(dir[Final(r)])

\* write_seed_file names its file after the process, the others do not; the
\* seed is created by the daemon.
Temp(r) == IF r = "seed" THEN <<r, pid>> ELSE <<r, "tmp">>

-----------------------------------------------------------------------------
(* The file system.                                                        *)

Free == {i \in Inodes : /\ \A d \in versions, n \in Names : d[n] # i
                        /\ \A p \in Procs : job[p].fd # i}
NextInode == CHOOSE i \in Free : \A j \in Free : i <= j

\* A directory operation: visible at once, on disk at some later time.
SetDir(d) ==
  /\ dir' = d
  /\ versions' = versions \cup {d}

\* A directory sync; files that no name and no process refer to are gone.
SyncNames ==
  /\ versions' = {dir}
  /\ inode' = [i \in Inodes |->
       IF (\E n \in Names : dir[n] = i) \/ (\E p \in Procs : job[p].fd = i)
         THEN inode[i] ELSE Unused]
  /\ UNCHANGED dir

Unlinked(names) == [n \in Names |-> IF n \in names THEN NoInode ELSE dir[n]]

Possible(i) ==
  IF i = NoInode THEN {Absent}
  ELSE {Content(i)} \cup (IF inode[i].synced THEN {} ELSE {Torn})

\* What a daemon start after a power loss may take for record r; without a
\* control record it is the v2 record that is migrated.
Recovered(r, d) ==
  Possible(IF r = "control" /\ d[Final(r)] = NoInode THEN d[Legacy] ELSE d[Final(r)])
Recoverable(r) == UNION {Recovered(r, d) : d \in versions}

-----------------------------------------------------------------------------

Down == [p \in Procs |-> IF p = Daemon THEN "off" ELSE "idle"]

Installed(legacy) ==
  [n \in Names |-> IF legacy = Absent THEN NoInode
                   ELSE IF n = Legacy THEN 1 ELSE IF n = Final("seed") THEN 2 ELSE NoInode]

\* A first installation, or an update of one that has a v2 control record and
\* a seed; the v2 record may be damaged.
Init ==
  \E legacy \in {Absent, LegacyId, Torn} :
    /\ dir = Installed(legacy)
    /\ versions = {dir}
    /\ inode = [i \in Inodes |->
                  IF legacy # Absent /\ i = 1 THEN [data |-> legacy, synced |-> TRUE]
                  ELSE IF legacy # Absent /\ i = 2 THEN [data |-> 1, synced |-> TRUE]
                  ELSE Unused]
    /\ acked = [r \in Kinds |-> CASE r = "control" -> legacy
                                  [] r = "seed" /\ legacy # Absent -> 1
                                  [] OTHER -> Absent]
    /\ pc = Down
    /\ pid \in Pids
    /\ job = [p \in Procs |-> NoJob]
    /\ seeds = 1
    /\ troubles = 0 /\ applies = 0
    /\ faulted = FALSE
    /\ attempted = [r \in Kinds |-> {}]
    /\ lossy = FALSE
    /\ contended = FALSE

Goto(p, from, to) ==
  /\ pc[p] = from
  /\ pc' = [pc EXCEPT ![p] = to]

Trouble ==
  /\ troubles < MaxTroubles
  /\ troubles' = troubles + 1

Fault(p) ==
  /\ Trouble
  /\ faulted' = (faulted \/ p = Daemon)
NoFault == UNCHANGED <<troubles, faulted>>

-----------------------------------------------------------------------------
(* Replacing a record: write_record, write_seed_file, write_record_at.     *)

Begin(p, r, v, then) ==
  /\ pc' = [pc EXCEPT ![p] = "open"]
  /\ job' = [job EXCEPT ![p] = [kind |-> r, value |-> v, fd |-> NoInode, then |-> then]]

\* A failure ends a daemon start, but for the fingerprint, which is optional.
Fail(p) ==
  /\ pc' = [pc EXCEPT ![p] = IF p # Daemon THEN "idle"
                             ELSE IF job[p].kind = "fingerprint" THEN "seed" ELSE "failed"]
  /\ job' = [job EXCEPT ![p] = NoJob]

\* O_TRUNC, but O_EXCL for the seed.
OpenTemp(p) ==
  LET r == job[p].kind
      t == Temp(r)
      i == IF dir[t] = NoInode THEN NextInode ELSE dir[t]
  IN  /\ r = "seed" => dir[t] = NoInode
      /\ dir[t] = NoInode => Free # {}
      /\ Goto(p, "open", "write")
      /\ IF dir[t] = NoInode THEN SetDir([dir EXCEPT ![t] = i])
                             ELSE UNCHANGED <<dir, versions>>
      /\ inode' = [inode EXCEPT ![i] = Unused]
      /\ job' = [job EXCEPT ![p].fd = i]
      /\ attempted' = [attempted EXCEPT ![r] = @ \cup {job[p].value}]
      /\ contended' = (contended \/ \E q \in Procs \ {p} :
                         pc[q] \in {"write", "sync", "rename"} /\ Temp(job[q].kind) = t)
      /\ UNCHANGED <<pid, seeds, bounds, faulted, acked, lossy>>

OpenFails(p) ==
  /\ pc[p] = "open"
  /\ IF job[p].kind = "seed" /\ dir[Temp("seed")] # NoInode THEN NoFault ELSE Fault(p)
  /\ Fail(p)
  /\ UNCHANGED <<fs, pid, seeds, applies, acked, attempted, lossy, contended>>

WriteTemp(p) ==
  /\ Goto(p, "write", "sync")
  /\ inode' = [inode EXCEPT ![job[p].fd] = [data |-> job[p].value, synced |-> FALSE]]
  /\ UNCHANGED <<dir, versions, pid, job, seeds, bounds, history>>

\* Faulty variant: the file is renamed without having been synced.
SyncTempSkipped(p) ==
  /\ Goto(p, "sync", "rename")
  /\ job' = [job EXCEPT ![p].fd = NoInode]
  /\ UNCHANGED <<fs, pid, seeds, bounds, history>>

SyncTemp(p) ==
  /\ Goto(p, "sync", "rename")
  /\ inode' = [inode EXCEPT ![job[p].fd].synced = TRUE]
  /\ job' = [job EXCEPT ![p].fd = NoInode]
  /\ UNCHANGED <<dir, versions, pid, seeds, bounds, history>>

RenameTemp(p) ==
  LET r == job[p].kind
      t == Temp(r)
  IN  /\ dir[t] # NoInode
      /\ Goto(p, "rename", "syncdir")
      /\ SetDir([dir EXCEPT ![Final(r)] = dir[t], ![t] = NoInode])
      /\ UNCHANGED <<inode, pid, job, seeds, bounds, history>>

\* Any failure up to the rename removes the temporary file.  The rename fails
\* also when another writer has renamed the shared file.
WriteFails(p) ==
  LET t == Temp(job[p].kind) IN
  /\ pc[p] \in {"write", "sync", "rename"}
  /\ IF pc[p] = "rename" /\ dir[t] = NoInode THEN NoFault ELSE Fault(p)
  /\ SetDir(Unlinked({t}))
  /\ Fail(p)
  /\ UNCHANGED <<inode, pid, seeds, applies, acked, attempted, lossy, contended>>

Report(p) ==
  LET r == job[p].kind IN
  /\ Goto(p, "syncdir", job[p].then)
  /\ job' = [job EXCEPT ![p] = IF @.then \in {"verifySeed", "verifyControl"} THEN @ ELSE NoJob]
  /\ acked' = [acked EXCEPT ![r] = Read(r)]
  /\ attempted' = [attempted EXCEPT ![r] =
       {job[q].value : q \in {x \in Procs \ {p} : /\ pc[x] \in Writing \ {"open"}
                                                  /\ job[x].kind = r}}]

\* Faulty variant: the directory is not synced.
SyncDirSkipped(p) ==
  /\ pc[p] = "syncdir"
  /\ Report(p)
  /\ UNCHANGED <<fs, pid, seeds, bounds, faulted, lossy, contended>>

SyncDir(p) ==
  /\ pc[p] = "syncdir"
  /\ SyncNames
  /\ lossy' = FALSE
  /\ Report(p)
  /\ UNCHANGED <<pid, seeds, bounds, faulted, contended>>

\* Only write_record_at reports that the directory could not be synced.
SyncDirFails(p) ==
  /\ pc[p] = "syncdir"
  /\ Fault(p)
  /\ lossy' = TRUE
  /\ IF job[p].kind = "fingerprint" THEN Fail(p) /\ UNCHANGED <<acked, attempted>>
                                    ELSE Report(p)
  /\ UNCHANGED <<fs, pid, seeds, applies, contended>>

Replacing(p) ==
  \/ OpenTemp(p) \/ OpenFails(p) \/ WriteTemp(p) \/ SyncTemp(p) \/ RenameTemp(p)
  \/ WriteFails(p) \/ SyncDir(p) \/ SyncDirFails(p)

-----------------------------------------------------------------------------
(* A daemon start.                                                         *)

StartDaemon(q) ==
  /\ pc[Daemon] \in {"off", "failed"}
  /\ pc' = [pc EXCEPT ![Daemon] = "orphans"]
  /\ pid' = q
  /\ faulted' = FALSE
  /\ UNCHANGED <<fs, job, seeds, bounds, acked, attempted, lossy, contended>>

\* Faulty variant: temporary seed files of earlier processes are kept.
KeepOrphans ==
  /\ Goto(Daemon, "orphans", "fingerprint")
  /\ UNCHANGED <<fs, pid, job, seeds, bounds, history>>

\* cleanup_seed_temp_orphans, under the daemon lock.
CleanOrphans ==
  /\ Goto(Daemon, "orphans", "fingerprint")
  /\ SetDir(Unlinked(SeedTemps))
  /\ UNCHANGED <<inode, pid, job, seeds, bounds, history>>

\* capture_original_id_fingerprint_if_missing: an error is only logged.
CaptureFingerprint(answered) ==
  /\ pc[Daemon] = "fingerprint"
  /\ IF Read("fingerprint") = Absent /\ answered
       THEN Begin(Daemon, "fingerprint", Original, "seed")
       ELSE Goto(Daemon, "fingerprint", "seed") /\ UNCHANGED job
  /\ UNCHANGED <<fs, pid, seeds, bounds, history>>

\* load_or_create_runtime_profile.
LoadSeed ==
  /\ pc[Daemon] = "seed"
  /\ IF Read("seed") = Absent
       THEN /\ Begin(Daemon, "seed", seeds + 1, "verifySeed")
            /\ seeds' = seeds + 1
       ELSE /\ Goto(Daemon, "seed", IF Read("seed") = Torn THEN "failed" ELSE "migrate")
            /\ UNCHANGED <<job, seeds>>
  /\ UNCHANGED <<fs, pid, bounds, history>>

\* What was written is read back and compared.
Verify(from, to) ==
  /\ Goto(Daemon, from, IF Read(job[Daemon].kind) = job[Daemon].value THEN to ELSE "failed")
  /\ UNCHANGED <<fs, pid, job, seeds, bounds, history>>

VerifySeed == Verify("verifySeed", "migrate")
VerifyControl == Verify("verifyControl", "cleanup")

\* Faulty variants: the v2 record is removed when its migration begins; it is
\* looked at first, and so again when it could not be removed.
MigrateByMove ==
  /\ pc[Daemon] = "migrate"
  /\ IF Read("control") = Absent /\ Content(dir[Legacy]) = LegacyId
       THEN /\ Begin(Daemon, "control", LegacyId, "verifyControl")
            /\ SetDir(Unlinked({Legacy}))
       ELSE /\ Goto(Daemon, "migrate", IF Read("control") = Torn THEN "failed" ELSE "cleanup")
            /\ UNCHANGED <<job, dir, versions>>
  /\ UNCHANGED <<inode, pid, seeds, bounds, history>>

MigrateAgain ==
  /\ pc[Daemon] = "migrate"
  /\ IF Content(dir[Legacy]) = LegacyId
       THEN Begin(Daemon, "control", LegacyId, "verifyControl")
       ELSE Goto(Daemon, "migrate", IF Read("control") = Torn THEN "failed" ELSE "cleanup")
            /\ UNCHANGED job
  /\ UNCHANGED <<fs, pid, seeds, bounds, history>>

\* migrate_runtime_control_v2.
Migrate ==
  LET current == Read("control")
      legacy == Content(dir[Legacy])
  IN  /\ pc[Daemon] = "migrate"
      /\ IF current = Absent /\ legacy = LegacyId
           THEN Begin(Daemon, "control", LegacyId, "verifyControl")
           ELSE /\ Goto(Daemon, "migrate",
                        IF current = Torn \/ (current = Absent /\ legacy = Torn)
                          THEN "failed" ELSE "cleanup")
                /\ UNCHANGED job
      /\ UNCHANGED <<fs, pid, seeds, bounds, history>>

\* cleanup_legacy_target_state_after_global_migration.
CleanLegacy ==
  /\ Goto(Daemon, "cleanup", IF dir[Legacy] = NoInode THEN "load" ELSE "syncLegacy")
  /\ SetDir(Unlinked({Legacy}))
  /\ UNCHANGED <<inode, pid, job, seeds, bounds, history>>

SyncLegacy ==
  /\ Goto(Daemon, "syncLegacy", "load")
  /\ SyncNames
  /\ lossy' = FALSE
  /\ UNCHANGED <<pid, job, seeds, bounds, faulted, acked, attempted, contended>>

\* Orphans or the v2 record cannot be removed, or its removal not be synced:
\* the start goes on.
CleanupFails ==
  /\ pc[Daemon] \in {"orphans", "cleanup", "syncLegacy"}
  /\ Fault(Daemon)
  /\ pc' = [pc EXCEPT ![Daemon] = IF @ = "orphans" THEN "fingerprint" ELSE "load"]
  /\ UNCHANGED <<fs, pid, job, seeds, applies, acked, attempted, lossy, contended>>

\* The persisted configuration is taken, or the first one persisted.
LoadControl ==
  /\ pc[Daemon] = "load"
  /\ IF Read("control") = Absent
       THEN Begin(Daemon, "control", DerivedId, "serve")
       ELSE Goto(Daemon, "load", IF Read("control") = Torn THEN "failed" ELSE "serve")
            /\ UNCHANGED job
  /\ UNCHANGED <<fs, pid, seeds, bounds, history>>

\* A record cannot be opened or read.
ReadFails ==
  /\ pc[Daemon] \in {"fingerprint", "seed", "verifySeed", "migrate", "verifyControl", "load"}
  /\ Fault(Daemon)
  /\ pc' = [pc EXCEPT ![Daemon] = IF @ = "fingerprint" THEN "seed" ELSE "failed"]
  /\ UNCHANGED <<fs, pid, job, seeds, applies, acked, attempted, lossy, contended>>

Starting ==
  \/ \E q \in Pids : StartDaemon(q)
  \/ CleanOrphans \/ (\E answered \in BOOLEAN : CaptureFingerprint(answered))
  \/ LoadSeed \/ VerifySeed \/ Migrate \/ VerifyControl
  \/ CleanLegacy \/ SyncLegacy \/ CleanupFails
  \/ LoadControl \/ ReadFails

-----------------------------------------------------------------------------
(* The WebUI, and what can happen to every process.                        *)

\* handle_apply: the daemon has answered and the control record was read.
Apply(u, id) ==
  /\ pc[u] = "idle"
  /\ pc[Daemon] = "serve"
  /\ Read("control") \notin {Absent, Torn}
  /\ applies < MaxApplies
  /\ applies' = applies + 1
  /\ Begin(u, "control", id, "idle")
  /\ UNCHANGED <<fs, pid, seeds, troubles, history>>

\* A daemon that stops leaves its files as one that is killed while it serves.
Kill(p) ==
  /\ pc[p] \notin {"off", "idle", "failed"}
  /\ Trouble
  /\ pc' = [pc EXCEPT ![p] = Down[p]]
  /\ job' = [job EXCEPT ![p] = NoJob]
  /\ lossy' = (lossy \/ pc[p] = "syncdir")
  /\ UNCHANGED <<fs, pid, seeds, applies, faulted, acked, attempted, contended>>

Referenced(d, i) == \E n \in Names : d[n] = i

PowerLoss ==
  /\ Trouble
  /\ \E d \in versions :
       \E lost \in SUBSET {i \in Inodes : Referenced(d, i) /\ ~inode[i].synced} :
         /\ dir' = d
         /\ versions' = {d}
         /\ inode' = [i \in Inodes |->
              IF ~Referenced(d, i) THEN Unused
              ELSE [data |-> IF i \in lost THEN Torn ELSE inode[i].data, synced |-> TRUE]]
  /\ pc' = Down
  /\ job' = [p \in Procs |-> NoJob]
  /\ acked' = [r \in Kinds |->
       LET i == IF r = "control" /\ dir'[Final(r)] = NoInode THEN dir'[Legacy]
                ELSE dir'[Final(r)]
       IN  IF i = NoInode THEN Absent ELSE inode'[i].data]
  /\ attempted' = [r \in Kinds |-> {}]
  /\ lossy' = FALSE
  /\ faulted' = FALSE
  /\ UNCHANGED <<pid, seeds, applies, contended>>

Next ==
  \/ Starting
  \/ \E u \in Uis, id \in ChosenIds : Apply(u, id)
  \/ \E p \in Procs : Replacing(p) \/ Kill(p)
  \/ PowerLoss

Spec == Init /\ [][Next]_vars

-----------------------------------------------------------------------------
(* Properties.                                                             *)

Payloads == Ids \cup {Original} \cup (1..seeds)
Directories == [Names -> Inodes \cup {NoInode}]
Places == Writing \cup {"off", "orphans", "fingerprint", "seed", "verifySeed", "migrate",
            "verifyControl", "cleanup", "syncLegacy", "load", "serve", "failed", "idle"}

\* The type invariant: files and processes have the shapes the code gives them.
TypeOK ==
  /\ dir \in versions
  /\ versions \subseteq Directories
  /\ inode \in [Inodes -> [data : Payloads \cup {Torn}, synced : BOOLEAN]]
  /\ pc \in [Procs -> Places]
  /\ pid \in Pids
  /\ job \in [Procs -> [kind : Kinds, value : Payloads \cup {Absent},
                       fd : Inodes \cup {NoInode}, then : Places]]
  /\ seeds \in Nat \ {0}
  /\ troubles \in 0..MaxTroubles /\ applies \in 0..MaxApplies
  /\ acked \in [Kinds -> Payloads \cup {Absent, Torn}]
  /\ attempted \in [Kinds -> SUBSET Payloads]
  /\ faulted \in BOOLEAN /\ lossy \in BOOLEAN /\ contended \in BOOLEAN

\* Nothing an earlier crash left behind makes a daemon start fail: it fails
\* because a file operation of its own failed, because the v2 record to
\* migrate was damaged before, or because two writers shared a temporary file.
StartSurvivesCrashes ==
  pc[Daemon] = "failed" => faulted \/ contended \/ Content(dir[Legacy]) = Torn

\* What write_record, write_seed_file or write_record_at reported as written
\* survives a power loss at any moment, also in the middle of a later write or
\* of the migration, unless a rename was not followed by a directory sync.
ReportedSurvives ==
  ~lossy /\ ~contended =>
    \A r \in Kinds : Recoverable(r) \subseteq attempted[r] \cup {acked[r]}

\* The virtual ID of a v2 installation is never lost by its migration: the
\* derived ID does not take its place unless it was chosen, whatever syncs
\* fail and wherever the migration is interrupted.
MigrationKeepsId ==
  acked["control"] = LegacyId /\ ~contended =>
    Recoverable("control") \subseteq attempted["control"] \cup {LegacyId}

\* A daemon start never replaces a control record it finds, also not by the v2
\* record whose removal failed: only the WebUI replaces it.
OnlyWebUiReplaces ==
  [][Read("control") \in Ids /\ Read("control")' # Read("control")
       => \/ \E u \in Uis : pc[u] = "rename"
          \/ contended
          \/ troubles' # troubles]_vars

\* The control file is a durable record.
Register == INSTANCE DurableRecord WITH
  Records <- Ids,
  value <- Read("control"),
  recoverable <- UNION {Possible(d[Final("control")]) : d \in versions}

\* Replacing the file step by step amounts to replacing the record at once:
\* a reader, and the next start after a power loss, find a whole record.
RefinesDurableRecord == Register!Spec

=============================================================================
