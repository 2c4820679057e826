------------------------- MODULE RecordFilesProofs --------------------------
(***************************************************************************)
(* RecordFiles for any number of WebUI processes, process IDs, files and   *)
(* IDs, and any number of failures, kills and power losses: what a start   *)
(* finds, what survives, who replaces the control record, and that the     *)
(* control file is a durable record.                                       *)
(***************************************************************************)
EXTENDS RecordFiles, WellFoundedInduction, TLAPS

\* A record's temporary file is under its name from the open to the rename.
Holding == {"write", "sync", "rename"}
Temps == SeedTemps \cup {<<"control", "tmp">>, <<"fingerprint", "tmp">>}
Kept == {Final(r) : r \in Kinds} \cup {Legacy}

\* What a process that writes has to write, and where it goes from there.
UiJob(j) == j.kind = "control" /\ j.value \in ChosenIds /\ j.then = "idle"
DaemonJob(j) ==
  \/ j.kind = "fingerprint" /\ j.value = Original /\ j.then = "seed"
  \/ j.kind = "seed" /\ j.value \in 1..seeds /\ j.then = "verifySeed"
  \/ j.kind = "control" /\ j.value = LegacyId /\ j.then = "verifyControl"
  \/ j.kind = "control" /\ j.value = DerivedId /\ j.then = "serve"

JobInv ==
  /\ \A u \in Uis : /\ pc[u] \in Writing \cup {"idle"}
                    /\ pc[u] \in Writing => UiJob(job[u])
  /\ pc[Daemon] # "idle"
  /\ pc[Daemon] \in Writing => DaemonJob(job[Daemon])
  /\ pc[Daemon] = "verifySeed" => job[Daemon].kind = "seed" /\ job[Daemon].value \in 1..seeds
  /\ pc[Daemon] = "verifyControl" => job[Daemon].kind = "control" /\ job[Daemon].value = LegacyId
  /\ \A p \in Procs : pc[p] \notin {"write", "sync"} => job[p].fd = NoInode

\* The daemon writes a record only when there is none, and the control record
\* only while no WebUI process writes it; a WebUI process only when there is
\* one.
SoloInv ==
  /\ (pc[Daemon] \in Writing /\ job[Daemon].kind = "control") \/ pc[Daemon] = "verifyControl"
       => \A u \in Uis : pc[u] = "idle"
  /\ pc[Daemon] \in {"open"} \cup Holding => dir[Final(job[Daemon].kind)] = NoInode
  /\ \A u \in Uis : pc[u] # "idle" => dir[Final("control")] # NoInode
  /\ \A p \in Procs : pc[p] = "syncdir" => dir[Final(job[p].kind)] # NoInode

\* Records only appear, and the v2 record only disappears.
OrderInv ==
  \A d \in versions :
    /\ \A r \in Kinds : dir[Final(r)] = NoInode => d[Final(r)] = NoInode
    /\ dir[Legacy] # NoInode => d[Legacy] = dir[Legacy]

\* No file has two names, and a file that is written is not a record in any
\* directory that a power loss may leave.
NameInv ==
  /\ \A d \in versions, m, n \in Names : d[m] = d[n] /\ d[m] # NoInode => m = n
  /\ \A d \in versions, n \in Kept, t \in Temps : dir[t] # NoInode => d[n] # dir[t]

\* Records are whole and on disk; a v2 record is as it was found.
WholeInv ==
  \A d \in versions :
    /\ \A r \in Kinds : d[Final(r)] # NoInode =>
         LET f == inode[d[Final(r)]]
         IN  f.synced /\ f.data # Torn /\ (r = "control" => f.data \in Ids)
    /\ d[Legacy] # NoInode =>
         inode[d[Legacy]].synced /\ inode[d[Legacy]].data \in {LegacyId, Torn}

\* Writers have their temporary files to themselves.
WriterInv ==
  /\ \A p, q \in Procs : pc[p] \in Holding /\ pc[q] \in Holding /\ job[p].kind = job[q].kind => p = q
  /\ \A p \in Procs :
       LET i == dir[Temp(job[p].kind)]
       IN  /\ pc[p] \in Holding => i # NoInode
           /\ pc[p] \in {"write", "sync"} => job[p].fd = i
           /\ pc[p] \in {"sync", "rename"} => inode[i].data = job[p].value
           /\ pc[p] = "rename" => inode[i].synced

\* What was renamed is what is read until it is reported and verified.
ReadInv ==
  /\ \A u \in Uis : pc[u] = "syncdir" => Read("control") \in ChosenIds
  /\ pc[Daemon] \in {"syncdir", "verifySeed", "verifyControl"} =>
       Read(job[Daemon].kind) = job[Daemon].value

\* A start that had no failure has removed the seeds' temporary files.
OrphanInv ==
  ~faulted /\ \/ pc[Daemon] \in {"fingerprint", "seed"}
              \/ pc[Daemon] \in Writing /\ job[Daemon].kind = "fingerprint"
              \/ pc[Daemon] = "open" /\ job[Daemon].kind = "seed"
    => \A t \in SeedTemps : dir[t] = NoInode

\* The v2 record is removed only when there is a control record.
CleanInv == pc[Daemon] = "cleanup" => dir[Final("control")] # NoInode \/ dir[Legacy] = NoInode

\* What is read is what was reported, or is being written.
AttemptInv ==
  \A p \in Procs : pc[p] \in Holding \cup {"syncdir"} => job[p].value \in attempted[job[p].kind]
NowInv == \A r \in Kinds : Recovered(r, dir) \subseteq attempted[r] \cup {acked[r]}

\* Until a migration is reported nothing but the v2 record's ID may be found.
MigrateInv ==
  pc[Daemon] \in Writing /\ job[Daemon].kind = "control" /\ job[Daemon].value = LegacyId
    => Recoverable("control") \subseteq {LegacyId}

CalmInv ==
  ~contended =>
    WholeInv /\ WriterInv /\ ReadInv /\ CleanInv /\ NowInv

\* The ID of the v2 record is known by its value.
LegacyIsOwn == LegacyId \notin ChosenIds \cup {DerivedId}

IInv ==
  /\ TypeOK /\ JobInv /\ SoloInv /\ OrderInv /\ NameInv /\ OrphanInv /\ AttemptInv /\ CalmInv
  /\ StartSurvivesCrashes /\ ReportedSurvives

MInv == (~contended => MigrateInv) /\ MigrationKeepsId

-----------------------------------------------------------------------------
(* Names and inodes.                                                       *)

\* Records and temporary files have different names, one for each record.
LEMMA NameFacts ==
  /\ Names = Kept \cup Temps /\ Kept \cap Temps = {}
  /\ Legacy \in Kept /\ SeedTemps \subseteq Temps
  /\ \A r \in Kinds : Final(r) \in Kept /\ Final(r) # Legacy
  /\ \A r, s \in Kinds : Final(r) = Final(s) => r = s
<1>1. /\ Legacy \in Kept /\ SeedTemps \subseteq Temps
      /\ \A r \in Kinds : Final(r) \in Kept
      /\ Names = Kept \cup Temps
  BY DEF Kept, Temps, Names
<1>2. /\ \A r \in Kinds : Final(r) # Legacy
      /\ \A r, s \in Kinds : Final(r) = Final(s) => r = s
  BY DEF Final, Legacy, Kinds
<1>3. ASSUME NEW n \in Kept, n \in Temps PROVE FALSE
  <2>1. n[2] = "final"
    BY <1>3 DEF Kept, Final, Legacy
  <2>2. n[2] \in Pids \cup {"tmp"}
    BY <1>3 DEF Temps, SeedTemps
  <2> QED BY <2>1, <2>2, PidAssumption
<1> QED BY <1>1, <1>2, <1>3

\* Temp gives each record its own temporary file.
LEMMA TempFacts ==
  ASSUME pid \in Pids
  PROVE  /\ \A r \in Kinds : Temp(r) \in Temps
         /\ \A r, s \in Kinds : Temp(r) = Temp(s) => r = s
         /\ \A r \in Kinds : Temp(r) \in SeedTemps <=> r = "seed"
<1>1. Temp("seed") = <<"seed", pid>> /\ Temp("control") = <<"control", "tmp">>
      /\ Temp("fingerprint") = <<"fingerprint", "tmp">>
  BY DEF Temp
<1>2. Temp("seed") \in SeedTemps
  BY <1>1 DEF SeedTemps
<1>3. \A t \in SeedTemps : t[1] = "seed"
  BY DEF SeedTemps
<1> QED BY <1>1, <1>2, <1>3 DEF Kinds, Temps

\* A set of inodes that is not empty has a least one.
LEMMA LeastInode ==
  ASSUME NEW S \in SUBSET Nat, S # {}
  PROVE  \E i \in S : \A j \in S : i <= j
<1>1. IsWellFoundedOn(OpToRel(<, Nat), Nat)
  BY NatLessThanWellFounded
<1>2. PICK i \in S : \A j \in S : ~(<<j, i>> \in OpToRel(<, Nat))
  BY <1>1, WFMin
<1>3. \A j \in S : ~(j < i)
  BY <1>2 DEF OpToRel
<1> QED BY <1>3

\* The inode of a new file is one that nothing refers to.
LEMMA NewInode ==
  ASSUME Free # {}
  PROVE  /\ NextInode \in Inodes /\ NextInode # NoInode
         /\ \A d \in versions, n \in Names : d[n] # NextInode
         /\ \A p \in Procs : job[p].fd # NextInode
<1>1. Free \subseteq Inodes /\ Free \in SUBSET Nat
  BY InodeAssumption DEF Free
<1>2. \E i \in Free : \A j \in Free : i <= j
  BY <1>1, LeastInode
<1>3. NextInode \in Free
  BY <1>2, Zenon DEF NextInode
<1> QED BY <1>1, <1>3, InodeAssumption DEF Free, NoInode

-----------------------------------------------------------------------------
(* Types.                                                                  *)

\* An operation fails, or does not.
LEMMA FaultType ==
  ASSUME TypeOK, NEW p, Fault(p) \/ NoFault
  PROVE  troubles' \in 0..MaxTroubles /\ faulted' \in BOOLEAN
<1>1. CASE NoFault
  BY <1>1 DEF NoFault, TypeOK
<1>2. CASE Fault(p)
  <2>1. troubles' \in 0..MaxTroubles
    BY <1>2, BoundAssumption DEF Fault, Trouble, TypeOK
  <2>2. faulted' \in BOOLEAN
    BY <1>2 DEF Fault
  <2> QED BY <2>1, <2>2
<1> QED BY <1>1, <1>2

\* A failure leaves a process where it can go on.
LEMMA FailType ==
  ASSUME TypeOK, NEW p \in Procs, Fail(p), UNCHANGED seeds
  PROVE  /\ Payloads' = Payloads
         /\ pc' \in [Procs -> Places]
         /\ job' \in [Procs -> [kind : Kinds, value : Payloads \cup {Absent},
                                fd : Inodes \cup {NoInode}, then : Places]]
<1>1. NoJob \in [kind : Kinds, value : Payloads \cup {Absent}, fd : Inodes \cup {NoInode}, then : Places]
  BY DEF NoJob, Kinds, Places
<1>2. {"idle", "seed", "failed"} \subseteq Places
  BY DEF Places
<1>3. PICK x \in {"idle", "seed", "failed"} : pc' = [pc EXCEPT ![p] = x]
  BY DEF Fail
<1>4. Payloads' = Payloads /\ job' = [job EXCEPT ![p] = NoJob]
  BY DEF Fail, Payloads
<1> QED BY <1>1, <1>2, <1>3, <1>4 DEF TypeOK

\* The steps of a process through a record's replacement keep the types.
LEMMA ReplacingType ==
  ASSUME TypeOK, JobInv, NEW p \in Procs, Replacing(p)
  PROVE  TypeOK'
<1> USE DEF Goto, bounds, history, fs
<1>1. /\ job[p] \in [kind : Kinds, value : Payloads \cup {Absent},
                     fd : Inodes \cup {NoInode}, then : Places]
      /\ NoJob \in [kind : Kinds, value : Payloads \cup {Absent},
                    fd : Inodes \cup {NoInode}, then : Places]
      /\ Temp(job[p].kind) \in Names /\ Final(job[p].kind) \in Names
      /\ dir \in Directories /\ Unused \in [data : Payloads \cup {Torn}, synced : BOOLEAN]
  <2>1. pid \in Pids /\ job[p].kind \in Kinds
    BY DEF TypeOK
  <2>2. Temp(job[p].kind) \in Names /\ Final(job[p].kind) \in Names
    BY <2>1, TempFacts, NameFacts
  <2> QED BY <2>1, <2>2 DEF TypeOK, NoJob, Kinds, Places, Unused
<1>2. pc[p] \in Writing => job[p].value \in Payloads /\ job[p].then \in Places
  BY <1>1, ProcessAssumption DEF JobInv, UiJob, DaemonJob, Payloads, Ids, Procs
<1>3. CASE OpenTemp(p)
  <2> DEFINE t == Temp(job[p].kind)
             i == IF dir[t] = NoInode THEN NextInode ELSE dir[t]
  <2>1. i \in Inodes
    BY <1>1, <1>3, NewInode DEF OpenTemp, Directories
  <2>2. [dir EXCEPT ![t] = i] \in Directories
    BY <1>1, <2>1 DEF Directories
  <2>3. /\ Payloads' = Payloads /\ pc' = [pc EXCEPT ![p] = "write"]
        /\ dir' \in versions' /\ versions' \subseteq versions \cup {[dir EXCEPT ![t] = i]}
        /\ inode' = [inode EXCEPT ![i] = Unused] /\ job' = [job EXCEPT ![p].fd = i]
        /\ attempted' = [attempted EXCEPT ![job[p].kind] = @ \cup {job[p].value}]
        /\ UNCHANGED <<pid, seeds, troubles, applies, faulted, acked, lossy>>
        /\ contended' \in BOOLEAN
    BY <1>3 DEF OpenTemp, SetDir, Payloads, TypeOK
  <2>4. job[p].value \in Payloads
    BY <1>2, <1>3 DEF OpenTemp, Writing
  <2> HIDE DEF i, t
  <2> QED BY <1>1, <2>1, <2>2, <2>3, <2>4 DEF TypeOK, Places, Writing
<1>4. CASE OpenFails(p)
  <2>1. Fail(p) /\ UNCHANGED seeds
    BY <1>4 DEF OpenFails
  <2>2. Fault(p) \/ NoFault
    BY <1>4 DEF OpenFails
  <2> QED BY <1>4, <2>1, <2>2, FaultType, FailType DEF OpenFails, TypeOK
<1>5. CASE WriteTemp(p)
  <2>1. Payloads' = Payloads
    BY <1>5 DEF WriteTemp, Payloads
  <2>2. job[p].value \in Payloads
    BY <1>2, <1>5 DEF WriteTemp, Writing
  <2> QED BY <1>1, <1>5, <2>1, <2>2 DEF WriteTemp, TypeOK, Places, Writing
<1>6. CASE SyncTemp(p)
  <2>1. Payloads' = Payloads
    BY <1>6 DEF SyncTemp, Payloads
  <2> QED BY <1>1, <1>6, <2>1 DEF SyncTemp, TypeOK, Places, Writing
<1>7. CASE RenameTemp(p)
  <2>1. Payloads' = Payloads
    BY <1>7 DEF RenameTemp, Payloads
  <2>2. [dir EXCEPT ![Final(job[p].kind)] = dir[Temp(job[p].kind)], ![Temp(job[p].kind)] = NoInode] \in Directories
    BY <1>1 DEF Directories
  <2> QED BY <1>1, <1>7, <2>1, <2>2 DEF RenameTemp, SetDir, TypeOK, Places, Writing
<1>8. CASE WriteFails(p)
  <2>1. Fail(p) /\ UNCHANGED seeds
    BY <1>8 DEF WriteFails
  <2>2. Unlinked({Temp(job[p].kind)}) \in Directories
    BY <1>1 DEF Directories, Unlinked
  <2>3. Fault(p) \/ NoFault
    BY <1>8 DEF WriteFails
  <2> QED BY <1>8, <2>1, <2>2, <2>3, FaultType, FailType DEF WriteFails, SetDir, TypeOK
<1>9. ASSUME Report(p), pc[p] = "syncdir", UNCHANGED <<dir, seeds>>
      PROVE  /\ Payloads' = Payloads
             /\ pc' \in [Procs -> Places]
             /\ job' \in [Procs -> [kind : Kinds, value : Payloads \cup {Absent},
                                    fd : Inodes \cup {NoInode}, then : Places]]
             /\ acked' \in [Kinds -> Payloads \cup {Absent, Torn}]
             /\ attempted' \in [Kinds -> SUBSET Payloads]
  <2>1. Payloads' = Payloads
    BY <1>9 DEF Payloads
  <2>2. Read(job[p].kind) \in Payloads \cup {Absent, Torn}
    BY <1>1 DEF Read, Content, TypeOK, Directories
  <2>3. \A q \in Procs : pc[q] \in Writing => job[q].value \in Payloads
    BY ProcessAssumption DEF JobInv, UiJob, DaemonJob, Payloads, Ids, Procs
  <2>4. pc' \in [Procs -> Places]
    BY <1>1, <1>9 DEF Report, TypeOK
  <2>5. acked' \in [Kinds -> Payloads \cup {Absent, Torn}]
    BY <1>1, <1>9, <2>2 DEF Report, TypeOK
  <2>6. attempted' \in [Kinds -> SUBSET Payloads]
    BY <1>1, <1>9, <2>3 DEF Report, TypeOK
  <2>7. job' = job \/ job' = [job EXCEPT ![p] = NoJob]
    BY <1>9 DEF Report, TypeOK
  <2>8. job' \in [Procs -> [kind : Kinds, value : Payloads \cup {Absent},
                            fd : Inodes \cup {NoInode}, then : Places]]
    BY <1>1, <2>7 DEF TypeOK
  <2> QED BY <2>1, <2>4, <2>5, <2>6, <2>8
<1>10. CASE SyncDir(p)
  <2>1. Report(p) /\ pc[p] = "syncdir" /\ UNCHANGED <<dir, seeds>>
    BY <1>10 DEF SyncDir, SyncNames
  <2>2. inode' \in [Inodes -> [data : Payloads \cup {Torn}, synced : BOOLEAN]]
    BY <1>1, <1>10 DEF SyncDir, SyncNames, TypeOK
  <2> QED BY <1>1, <1>9, <1>10, <2>1, <2>2 DEF SyncDir, SyncNames, TypeOK
<1>11. CASE SyncDirFails(p)
  <2>1. troubles' \in 0..MaxTroubles /\ faulted' \in BOOLEAN
    BY <1>11, FaultType DEF SyncDirFails
  <2>2. CASE job[p].kind = "fingerprint"
    <3>1. Fail(p) /\ UNCHANGED seeds
      BY <1>11, <2>2 DEF SyncDirFails
    <3> QED BY <1>11, <2>1, <2>2, <3>1, FailType DEF SyncDirFails, TypeOK
  <2>3. CASE job[p].kind # "fingerprint"
    <3>1. Report(p) /\ pc[p] = "syncdir" /\ UNCHANGED <<dir, seeds>>
      BY <1>11, <2>3 DEF SyncDirFails
    <3> QED BY <1>1, <1>9, <1>11, <2>1, <3>1 DEF SyncDirFails, TypeOK
  <2> QED BY <2>2, <2>3
<1> QED BY <1>3, <1>4, <1>5, <1>6, <1>7, <1>8, <1>10, <1>11 DEF Replacing

\* The steps of a daemon start keep the types.
LEMMA StartingType ==
  ASSUME TypeOK, JobInv, Starting
  PROVE  TypeOK'
<1> DEFINE Jobs == [kind : Kinds, value : Payloads \cup {Absent},
                    fd : Inodes \cup {NoInode}, then : Places]
<1>1. /\ Daemon \in Procs /\ dir \in Directories /\ Payloads \subseteq Ids \cup {Original} \cup Nat
      /\ LegacyId \in Payloads /\ DerivedId \in Payloads /\ Original \in Payloads
  BY DEF Procs, TypeOK, Payloads, Ids
<1>2. ASSUME NEW r \in Kinds, NEW v \in Payloads, NEW x \in Places, Begin(Daemon, r, v, x)
      PROVE  pc' \in [Procs -> Places] /\ job' \in [Procs -> Jobs]
  BY <1>1, <1>2 DEF Begin, TypeOK, Places, Writing
<1>3. ASSUME NEW y, NEW x \in Places, Goto(Daemon, y, x)
      PROVE  pc' \in [Procs -> Places]
  BY <1>1, <1>3 DEF Goto, TypeOK
<1>4. ASSUME NEW names PROVE Unlinked(names) \in Directories
  BY <1>1 DEF Unlinked, Directories
<1>5. ASSUME UNCHANGED seeds PROVE Payloads' = Payloads
  BY <1>5 DEF Payloads
<1>6. /\ {"control", "seed", "fingerprint"} = Kinds
      /\ {"orphans", "fingerprint", "seed", "verifySeed", "migrate", "verifyControl",
          "cleanup", "syncLegacy", "load", "serve", "failed"} \subseteq Places
  BY DEF Kinds, Places
<1> HIDE DEF Jobs
<1>7. TypeOK <=>
        /\ dir \in versions /\ versions \subseteq Directories
        /\ inode \in [Inodes -> [data : Payloads \cup {Torn}, synced : BOOLEAN]]
        /\ pc \in [Procs -> Places] /\ pid \in Pids /\ job \in [Procs -> Jobs]
        /\ seeds \in Nat \ {0} /\ troubles \in 0..MaxTroubles /\ applies \in 0..MaxApplies
        /\ acked \in [Kinds -> Payloads \cup {Absent, Torn}]
        /\ attempted \in [Kinds -> SUBSET Payloads]
        /\ faulted \in BOOLEAN /\ lossy \in BOOLEAN /\ contended \in BOOLEAN
  BY DEF TypeOK, Jobs
<1> USE DEF fs, bounds, history
<1>8. ASSUME NEW q \in Pids, StartDaemon(q) PROVE TypeOK'
  <2>1. Payloads' = Payloads
    BY <1>5, <1>8 DEF StartDaemon
  <2> QED BY <1>1, <1>6, <1>8, <2>1 DEF StartDaemon, TypeOK
<1>9. CASE CleanOrphans
  <2>1. Payloads' = Payloads /\ Unlinked(SeedTemps) \in Directories
    BY <1>4, <1>5, <1>9 DEF CleanOrphans
  <2>2. pc' \in [Procs -> Places]
    BY <1>3, <1>6, <1>9 DEF CleanOrphans
  <2> QED BY <1>9, <2>1, <2>2 DEF CleanOrphans, SetDir, TypeOK
<1>10. ASSUME NEW answered \in BOOLEAN, CaptureFingerprint(answered) PROVE TypeOK'
  <2>1. Payloads' = Payloads
    BY <1>5, <1>10 DEF CaptureFingerprint
  <2>2. pc' \in [Procs -> Places] /\ job' \in [Procs -> Jobs]
    BY <1>1, <1>2, <1>3, <1>6, <1>7, <1>10 DEF CaptureFingerprint
  <2> QED BY <1>10, <2>1, <2>2 DEF CaptureFingerprint, TypeOK, Jobs
<1>11. CASE LoadSeed
  <2>1. CASE Read("seed") = Absent
    <3>1. /\ seeds' = seeds + 1 /\ Begin(Daemon, "seed", seeds + 1, "verifySeed")
          /\ UNCHANGED <<fs, pid, bounds, history>>
      BY <1>11, <2>1 DEF LoadSeed
    <3>2. Payloads \subseteq Payloads' /\ seeds + 1 \in Payloads' /\ seeds' \in Nat \ {0}
      BY <3>1 DEF Payloads, TypeOK
    <3>3. pc' \in [Procs -> Places]
      BY <1>1, <3>1 DEF Begin, TypeOK, Places, Writing
    <3>4. job' \in [Procs -> [kind : Kinds, value : Payloads' \cup {Absent},
                              fd : Inodes \cup {NoInode}, then : Places]]
      <4>1. job' = [job EXCEPT ![Daemon] = [kind |-> "seed", value |-> seeds + 1,
                                            fd |-> NoInode, then |-> "verifySeed"]]
        BY <3>1 DEF Begin
      <4> QED BY <1>1, <1>6, <3>2, <4>1 DEF TypeOK
    <3>5. /\ inode' \in [Inodes -> [data : Payloads' \cup {Torn}, synced : BOOLEAN]]
          /\ acked' \in [Kinds -> Payloads' \cup {Absent, Torn}]
          /\ attempted' \in [Kinds -> SUBSET (Payloads')]
      BY <3>1, <3>2 DEF TypeOK
    <3> QED BY <3>1, <3>2, <3>3, <3>4, <3>5 DEF TypeOK
  <2>2. CASE Read("seed") # Absent
    <3>1. Payloads' = Payloads
      BY <1>5, <1>11, <2>2 DEF LoadSeed
    <3>2. pc' \in [Procs -> Places]
      BY <1>3, <1>6, <1>11, <2>2 DEF LoadSeed
    <3> QED BY <1>11, <2>2, <3>1, <3>2 DEF LoadSeed, TypeOK
  <2> QED BY <2>1, <2>2
<1>12. CASE VerifySeed \/ VerifyControl
  <2>1. Payloads' = Payloads
    BY <1>5, <1>12 DEF VerifySeed, VerifyControl, Verify
  <2>2. pc' \in [Procs -> Places]
    BY <1>3, <1>6, <1>12 DEF VerifySeed, VerifyControl, Verify
  <2> QED BY <1>12, <2>1, <2>2 DEF VerifySeed, VerifyControl, Verify, TypeOK
<1>13. CASE Migrate
  <2>1. Payloads' = Payloads
    BY <1>5, <1>13 DEF Migrate
  <2>2. pc' \in [Procs -> Places] /\ job' \in [Procs -> Jobs]
    BY <1>1, <1>2, <1>3, <1>6, <1>7, <1>13 DEF Migrate
  <2> QED BY <1>13, <2>1, <2>2 DEF Migrate, TypeOK, Jobs
<1>14. CASE CleanLegacy
  <2>1. Payloads' = Payloads /\ Unlinked({Legacy}) \in Directories
    BY <1>4, <1>5, <1>14 DEF CleanLegacy
  <2>2. pc' \in [Procs -> Places]
    BY <1>3, <1>6, <1>14 DEF CleanLegacy
  <2> QED BY <1>14, <2>1, <2>2 DEF CleanLegacy, SetDir, TypeOK
<1>15. CASE SyncLegacy
  <2>1. Payloads' = Payloads
    BY <1>5, <1>15 DEF SyncLegacy
  <2>2. pc' \in [Procs -> Places]
    BY <1>3, <1>6, <1>15 DEF SyncLegacy
  <2>3. inode' \in [Inodes -> [data : Payloads \cup {Torn}, synced : BOOLEAN]]
    BY <1>15 DEF SyncLegacy, SyncNames, Unused, TypeOK
  <2> QED BY <1>1, <1>15, <2>1, <2>2, <2>3 DEF SyncLegacy, SyncNames, TypeOK
<1>16. CASE CleanupFails \/ ReadFails
  <2>1. Payloads' = Payloads
    BY <1>5, <1>16 DEF CleanupFails, ReadFails
  <2>2. PICK x \in Places : pc' = [pc EXCEPT ![Daemon] = x]
    BY <1>6, <1>16 DEF CleanupFails, ReadFails, TypeOK
  <2>3. troubles' \in 0..MaxTroubles /\ faulted' \in BOOLEAN
    BY <1>16, FaultType DEF CleanupFails, ReadFails
  <2> QED BY <1>16, <2>1, <2>2, <2>3 DEF CleanupFails, ReadFails, TypeOK
<1>17. CASE LoadControl
  <2>1. Payloads' = Payloads
    BY <1>5, <1>17 DEF LoadControl
  <2>2. pc' \in [Procs -> Places] /\ job' \in [Procs -> Jobs]
    BY <1>1, <1>2, <1>3, <1>6, <1>7, <1>17 DEF LoadControl
  <2> QED BY <1>17, <2>1, <2>2 DEF LoadControl, TypeOK, Jobs
<1> QED BY <1>8, <1>9, <1>10, <1>11, <1>12, <1>13, <1>14, <1>15, <1>16, <1>17 DEF Starting

\* Every step keeps the types.
LEMMA TypeStep ==
  ASSUME TypeOK, JobInv, [Next]_vars
  PROVE  TypeOK'
<1> USE DEF fs, bounds, history
<1>1. ASSUME NEW u \in Uis, NEW id \in ChosenIds, Apply(u, id) PROVE TypeOK'
  <2>1. Payloads' = Payloads /\ id \in Payloads /\ u \in Procs
    BY <1>1 DEF Apply, Payloads, Ids, Procs
  <2>2. job' \in [Procs -> [kind : Kinds, value : Payloads \cup {Absent},
                            fd : Inodes \cup {NoInode}, then : Places]]
    BY <1>1, <2>1 DEF Apply, Begin, TypeOK, Kinds, Places
  <2>3. applies' \in 0..MaxApplies
    BY <1>1, BoundAssumption DEF Apply, TypeOK
  <2> QED BY <1>1, <2>1, <2>2, <2>3 DEF Apply, Begin, TypeOK, Places, Writing
<1>2. /\ NoJob \in [kind : Kinds, value : Payloads \cup {Absent}, fd : Inodes \cup {NoInode}, then : Places]
      /\ Down \in [Procs -> Places]
  BY DEF NoJob, Kinds, Places, Down
<1>3. ASSUME Trouble PROVE troubles' \in 0..MaxTroubles
  BY <1>3, BoundAssumption DEF Trouble, TypeOK
<1>4. ASSUME NEW p \in Procs, Kill(p) PROVE TypeOK'
  <2>1. Payloads' = Payloads
    BY <1>4 DEF Kill, Payloads
  <2>2. job' \in [Procs -> [kind : Kinds, value : Payloads \cup {Absent},
                            fd : Inodes \cup {NoInode}, then : Places]]
    BY <1>2, <1>4 DEF Kill, TypeOK
  <2>3. pc' \in [Procs -> Places] /\ troubles' \in 0..MaxTroubles /\ lossy' \in BOOLEAN
    BY <1>2, <1>3, <1>4 DEF Kill, TypeOK
  <2> QED BY <1>4, <2>1, <2>2, <2>3 DEF Kill, TypeOK
<1>5. CASE PowerLoss
  <2>1. PICK d \in versions :
          \E lost \in SUBSET {i \in Inodes : Referenced(d, i) /\ ~inode[i].synced} :
            /\ dir' = d
            /\ versions' = {d}
            /\ inode' = [i \in Inodes |->
                 IF ~Referenced(d, i) THEN Unused
                 ELSE [data |-> IF i \in lost THEN Torn ELSE inode[i].data, synced |-> TRUE]]
    BY <1>5 DEF PowerLoss
  <2>2. Payloads' = Payloads
    BY <1>5 DEF PowerLoss, Payloads
  <2>3. inode' \in [Inodes -> [data : Payloads \cup {Torn}, synced : BOOLEAN]]
    BY <2>1 DEF Unused, TypeOK
  <2>4. \A n \in Names : dir'[n] \in Inodes \cup {NoInode}
    BY <2>1 DEF TypeOK, Directories
  <2>5. acked' \in [Kinds -> Payloads \cup {Absent, Torn}]
    <3>1. Legacy \in Names /\ \A r \in Kinds : Final(r) \in Names
      BY NameFacts
    <3> QED BY <1>5, <2>3, <2>4, <3>1 DEF PowerLoss
  <2>6. troubles' \in 0..MaxTroubles
    BY <1>3, <1>5 DEF PowerLoss
  <2>7. job' \in [Procs -> [kind : Kinds, value : Payloads \cup {Absent},
                            fd : Inodes \cup {NoInode}, then : Places]]
    BY <1>2, <1>5 DEF PowerLoss
  <2>8. attempted' \in [Kinds -> SUBSET Payloads]
    BY <1>5 DEF PowerLoss
  <2> QED BY <1>2, <1>5, <2>1, <2>2, <2>3, <2>5, <2>6, <2>7, <2>8 DEF PowerLoss, TypeOK
<1>6. CASE UNCHANGED vars
  <2>1. Payloads' = Payloads
    BY <1>6 DEF vars, Payloads
  <2> QED BY <1>6, <2>1 DEF vars, procs, TypeOK
<1> QED BY <1>1, <1>4, <1>5, <1>6, ReplacingType, StartingType DEF Next

-----------------------------------------------------------------------------
(* What each process writes.                                               *)

\* The places of the other processes, and what they write, stay.
Others(p) == \A q \in Procs \ {p} : pc'[q] = pc[q] /\ job'[q] = job[q]

\* A process begins to write.
LEMMA BeginEffect ==
  ASSUME TypeOK, NEW p \in Procs, NEW r, NEW v, NEW then, Begin(p, r, v, then)
  PROVE  /\ pc'[p] = "open" /\ Others(p)
         /\ job'[p] = [kind |-> r, value |-> v, fd |-> NoInode, then |-> then]
BY DEF Begin, TypeOK, Others

\* A process moves and goes on writing what it wrote.
LEMMA GotoEffect ==
  ASSUME TypeOK, NEW p \in Procs, NEW from, NEW to, Goto(p, from, to), UNCHANGED job
  PROVE  pc[p] = from /\ pc'[p] = to /\ job'[p] = job[p] /\ Others(p)
BY DEF Goto, TypeOK, Others

\* Where a process goes to that gives up.
AfterFailure(p) ==
  IF p # Daemon THEN "idle" ELSE IF job[p].kind = "fingerprint" THEN "seed" ELSE "failed"

\* A process gives up.
LEMMA FailEffect ==
  ASSUME TypeOK, NEW p \in Procs, Fail(p)
  PROVE  pc'[p] = AfterFailure(p) /\ job'[p] = NoJob /\ Others(p)
BY DEF Fail, TypeOK, Others, AfterFailure

\* A process reports what it wrote.
LEMMA ReportEffect ==
  ASSUME TypeOK, NEW p \in Procs, Report(p)
  PROVE  /\ pc[p] = "syncdir" /\ pc'[p] = job[p].then /\ Others(p)
         /\ job'[p] = IF job[p].then \in {"verifySeed", "verifyControl"} THEN job[p] ELSE NoJob
         /\ \A r \in Kinds \ {job[p].kind} : acked'[r] = acked[r] /\ attempted'[r] = attempted[r]
         /\ acked'[job[p].kind] = Read(job[p].kind)
         /\ attempted'[job[p].kind] =
              {job[q].value : q \in {x \in Procs \ {p} : /\ pc[x] \in Writing \ {"open"}
                                                        /\ job[x].kind = job[p].kind}}
<1>1. /\ pc[p] = "syncdir" /\ pc'[p] = job[p].then
      /\ job'[p] = IF job[p].then \in {"verifySeed", "verifyControl"} THEN job[p] ELSE NoJob
      /\ Others(p)
  BY DEF Report, Goto, TypeOK, Others
<1>2. job[p].kind \in Kinds
  BY DEF TypeOK
<1> DEFINE r == job[p].kind
           written == {job[q].value : q \in {x \in Procs \ {p} : /\ pc[x] \in Writing \ {"open"}
                                                                /\ job[x].kind = r}}
<1>3. acked' = [acked EXCEPT ![r] = Read(r)] /\ attempted' = [attempted EXCEPT ![r] = written]
  BY DEF Report
<1> HIDE DEF r, written
<1>4. r \in Kinds
  BY <1>2 DEF r
<1>5. /\ \A s \in Kinds \ {r} : acked'[s] = acked[s] /\ attempted'[s] = attempted[s]
      /\ acked'[r] = Read(r) /\ attempted'[r] = written
  BY <1>3, <1>4 DEF TypeOK
<1> QED BY <1>1, <1>5 DEF r, written

\* JobInv for one process.
JobOk(p) ==
  /\ p # Daemon => /\ pc[p] \in Writing \cup {"idle"}
                   /\ pc[p] \in Writing => UiJob(job[p])
  /\ p = Daemon => /\ pc[p] # "idle"
                   /\ pc[p] \in Writing => DaemonJob(job[p])
                   /\ pc[p] = "verifySeed" => job[p].kind = "seed" /\ job[p].value \in 1..seeds
                   /\ pc[p] = "verifyControl" => job[p].kind = "control" /\ job[p].value = LegacyId
  /\ pc[p] \notin {"write", "sync"} => job[p].fd = NoInode

\* JobInv, process by process.
LEMMA JobSplit == JobInv <=> \A p \in Procs : JobOk(p)
BY ProcessAssumption DEF JobInv, JobOk, Procs

\* A step of one process keeps the jobs of the others.
LEMMA OthersJobs ==
  ASSUME TypeOK, JobInv, NEW p \in Procs, Others(p), seeds' \in Nat, seeds <= seeds', JobOk(p)'
  PROVE  JobInv'
<1>1. ASSUME NEW q \in Procs \ {p} PROVE JobOk(q)'
  <2>1. JobOk(q) /\ pc'[q] = pc[q] /\ job'[q] = job[q]
    BY JobSplit DEF Others
  <2>2. \A v \in 1..seeds : v \in 1..seeds'
    BY DEF TypeOK
  <2>3. DaemonJob(job[q]) => DaemonJob(job[q])'
    BY <2>1, <2>2 DEF DaemonJob
  <2>4. UiJob(job[q]) => UiJob(job[q])'
    BY <2>1 DEF UiJob
  <2> QED BY <2>1, <2>2, <2>3, <2>4 DEF JobOk
<1>2. (\A q \in Procs : JobOk(q))'
  BY <1>1
<1> QED BY <1>2, ProcessAssumption DEF JobInv, JobOk, Procs

\* Every step keeps the jobs.
LEMMA JobStep ==
  ASSUME TypeOK, JobInv, [Next]_vars
  PROVE  JobInv'
<1>1. seeds \in Nat /\ Daemon \in Procs /\ \A p \in Procs : JobOk(p)
  BY JobSplit DEF TypeOK, Procs
<1> USE DEF Writing
<1>2. ASSUME NEW p \in Procs, Replacing(p) PROVE JobInv'
  <2>1. seeds' = seeds /\ JobOk(p)
    BY <1>1, <1>2 DEF Replacing, OpenTemp, OpenFails, WriteTemp, SyncTemp, RenameTemp, WriteFails,
                SyncDir, SyncDirFails
  <2>2. CASE OpenTemp(p)
    <3>1. PICK i : job' = [job EXCEPT ![p].fd = i]
      BY <2>2 DEF OpenTemp
    <3>2. /\ pc[p] = "open" /\ pc'[p] = "write" /\ Others(p)
          /\ job'[p].kind = job[p].kind /\ job'[p].value = job[p].value /\ job'[p].then = job[p].then
      BY <2>2, <3>1 DEF OpenTemp, Goto, Others, TypeOK
    <3>3. JobOk(p)'
      BY <2>1, <3>2 DEF JobOk, UiJob, DaemonJob
    <3> QED BY <1>1, <2>1, <3>2, <3>3, OthersJobs
  <2>3. CASE WriteTemp(p) \/ RenameTemp(p)
    <3>1. /\ \/ pc[p] = "write" /\ pc'[p] = "sync"
             \/ pc[p] = "rename" /\ pc'[p] = "syncdir"
          /\ job'[p] = job[p] /\ Others(p)
      BY <2>3, GotoEffect DEF WriteTemp, RenameTemp
    <3>2. JobOk(p)'
      BY <2>1, <3>1 DEF JobOk, UiJob, DaemonJob
    <3> QED BY <1>1, <2>1, <3>1, <3>2, OthersJobs
  <2>4. CASE SyncTemp(p)
    <3>1. /\ pc[p] = "sync" /\ pc'[p] = "rename" /\ Others(p)
          /\ job'[p].kind = job[p].kind /\ job'[p].value = job[p].value /\ job'[p].then = job[p].then
          /\ job'[p].fd = NoInode
      BY <2>4 DEF SyncTemp, Goto, Others, TypeOK
    <3>2. JobOk(p)'
      BY <2>1, <3>1 DEF JobOk, UiJob, DaemonJob
    <3> QED BY <1>1, <2>1, <3>1, <3>2, OthersJobs
  <2>5. CASE Fail(p)
    <3>1. pc'[p] = AfterFailure(p) /\ job'[p] = NoJob /\ Others(p)
      BY <2>5, FailEffect
    <3>2. JobOk(p)'
      BY <3>1 DEF JobOk, AfterFailure, NoJob
    <3> QED BY <1>1, <2>1, <3>1, <3>2, OthersJobs
  <2>6. CASE Report(p)
    <3>1. /\ pc[p] = "syncdir" /\ pc'[p] = job[p].then /\ Others(p)
          /\ job'[p] = IF job[p].then \in {"verifySeed", "verifyControl"} THEN job[p] ELSE NoJob
      BY <2>6, ReportEffect
    <3>2. CASE p # Daemon
      <4>1. pc'[p] = "idle" /\ job'[p] = NoJob
        BY <2>1, <3>1, <3>2 DEF JobOk, UiJob
      <4>2. JobOk(p)'
        BY <3>2, <4>1 DEF JobOk, NoJob
      <4> QED BY <1>1, <2>1, <3>1, <4>2, OthersJobs
    <3>3. CASE p = Daemon
      <4>1. DaemonJob(job[p]) /\ job[p].fd = NoInode
        BY <2>1, <3>1, <3>3 DEF JobOk
      <4>2. \/ pc'[p] \in {"seed", "serve"} /\ job'[p] = NoJob
            \/ /\ pc'[p] = "verifySeed" /\ job'[p] = job[p]
               /\ job[p].kind = "seed" /\ job[p].value \in 1..seeds
            \/ /\ pc'[p] = "verifyControl" /\ job'[p] = job[p]
               /\ job[p].kind = "control" /\ job[p].value = LegacyId
        BY <3>1, <4>1 DEF DaemonJob
      <4>3. JobOk(p)'
        BY <2>1, <3>3, <4>1, <4>2 DEF JobOk, NoJob
      <4> QED BY <1>1, <2>1, <3>1, <4>3, OthersJobs
    <3> QED BY <3>2, <3>3
  <2>7. \/ OpenTemp(p) \/ WriteTemp(p) \/ RenameTemp(p) \/ SyncTemp(p) \/ Fail(p) \/ Report(p)
    BY <1>2 DEF Replacing, OpenFails, WriteFails, SyncDir, SyncDirFails
  <2> QED BY <2>2, <2>3, <2>4, <2>5, <2>6, <2>7
<1>3. CASE Starting
  <2>1. JobOk(Daemon)
    BY <1>1
  <2>2. ASSUME seeds' = seeds, UNCHANGED job, NEW to, pc' = [pc EXCEPT ![Daemon] = to],
               pc[Daemon] \notin {"write", "sync"},
               to \in {"orphans", "fingerprint", "seed", "migrate", "cleanup", "syncLegacy",
                       "load", "serve", "failed"}
        PROVE  JobInv'
    <3>1. pc'[Daemon] = to /\ job'[Daemon] = job[Daemon] /\ Others(Daemon)
      BY <1>1, <2>2 DEF Others, TypeOK
    <3>2. JobOk(Daemon)'
      BY <2>1, <2>2, <3>1 DEF JobOk
    <3> QED BY <1>1, <2>2, <3>1, <3>2, OthersJobs
  <2>3. ASSUME NEW r, NEW v, NEW then, Begin(Daemon, r, v, then), seeds' \in Nat, seeds <= seeds',
               \/ r = "fingerprint" /\ v = Original /\ then = "seed"
               \/ r = "seed" /\ v \in 1..seeds' /\ then = "verifySeed"
               \/ r = "control" /\ v = LegacyId /\ then = "verifyControl"
               \/ r = "control" /\ v = DerivedId /\ then = "serve"
        PROVE  JobInv'
    <3>1. /\ pc'[Daemon] = "open" /\ Others(Daemon)
          /\ job'[Daemon] = [kind |-> r, value |-> v, fd |-> NoInode, then |-> then]
      BY <1>1, <2>3, BeginEffect
    <3>2. JobOk(Daemon)'
      BY <2>3, <3>1 DEF JobOk, DaemonJob
    <3> QED BY <1>1, <2>3, <3>1, <3>2, OthersJobs
  <2>4. ASSUME NEW q \in Pids, StartDaemon(q) PROVE JobInv'
    BY <2>2, <2>4 DEF StartDaemon
  <2>5. CASE CleanOrphans \/ CleanLegacy \/ SyncLegacy \/ VerifySeed \/ VerifyControl
    BY <2>2, <2>5 DEF CleanOrphans, CleanLegacy, SyncLegacy, VerifySeed, VerifyControl, Verify, Goto
  <2>6. ASSUME NEW answered \in BOOLEAN, CaptureFingerprint(answered) PROVE JobInv'
    <3>1. CASE Read("fingerprint") = Absent /\ answered
      BY <1>1, <2>3, <2>6, <3>1 DEF CaptureFingerprint
    <3>2. CASE ~(Read("fingerprint") = Absent /\ answered)
      BY <2>2, <2>6, <3>2 DEF CaptureFingerprint, Goto
    <3> QED BY <3>1, <3>2
  <2>7. CASE LoadSeed
    <3>1. CASE Read("seed") = Absent
      <4>1. Begin(Daemon, "seed", seeds + 1, "verifySeed") /\ seeds' = seeds + 1
        BY <2>7, <3>1 DEF LoadSeed
      <4>2. seeds' \in Nat /\ seeds <= seeds' /\ seeds + 1 \in 1..seeds'
        BY <1>1, <4>1
      <4> QED BY <2>3, <4>1, <4>2
    <3>2. CASE Read("seed") # Absent
      BY <2>2, <2>7, <3>2 DEF LoadSeed, Goto
    <3> QED BY <3>1, <3>2
  <2>8. CASE Migrate
    <3>1. CASE Read("control") = Absent /\ Content(dir[Legacy]) = LegacyId
      BY <1>1, <2>3, <2>8, <3>1 DEF Migrate
    <3>2. CASE ~(Read("control") = Absent /\ Content(dir[Legacy]) = LegacyId)
      BY <2>2, <2>8, <3>2 DEF Migrate, Goto
    <3> QED BY <3>1, <3>2
  <2>9. CASE LoadControl
    <3>1. CASE Read("control") = Absent
      BY <1>1, <2>3, <2>9, <3>1 DEF LoadControl
    <3>2. CASE Read("control") # Absent
      BY <2>2, <2>9, <3>2 DEF LoadControl, Goto
    <3> QED BY <3>1, <3>2
  <2>10. CASE CleanupFails \/ ReadFails
    <3>1. PICK to \in {"fingerprint", "load", "seed", "failed"} : pc' = [pc EXCEPT ![Daemon] = to]
      BY <1>1, <2>10 DEF CleanupFails, ReadFails, TypeOK
    <3> QED BY <2>2, <2>10, <3>1 DEF CleanupFails, ReadFails
  <2> QED BY <1>3, <2>4, <2>5, <2>6, <2>7, <2>8, <2>9, <2>10 DEF Starting
<1>4. ASSUME NEW u \in Uis, NEW id \in ChosenIds, Apply(u, id) PROVE JobInv'
  <2>1. u \in Procs /\ u # Daemon /\ seeds' = seeds
    BY <1>4, ProcessAssumption DEF Apply, Procs
  <2>2. /\ pc'[u] = "open" /\ Others(u)
        /\ job'[u] = [kind |-> "control", value |-> id, fd |-> NoInode, then |-> "idle"]
    BY <1>4, <2>1, BeginEffect DEF Apply
  <2>3. JobOk(u)'
    BY <2>1, <2>2 DEF JobOk, UiJob
  <2> QED BY <1>1, <2>1, <2>2, <2>3, OthersJobs
<1>5. ASSUME NEW p \in Procs, Kill(p) PROVE JobInv'
  <2>1. pc'[p] = Down[p] /\ job'[p] = NoJob /\ Others(p) /\ seeds' = seeds
    BY <1>5 DEF Kill, TypeOK, Others
  <2>2. JobOk(p)'
    BY <2>1 DEF JobOk, NoJob, Down
  <2> QED BY <1>1, <2>1, <2>2, OthersJobs
<1>6. CASE PowerLoss
  <2>1. \A p \in Procs : pc'[p] = Down[p] /\ job'[p] = NoJob
    BY <1>6 DEF PowerLoss
  <2>2. (\A p \in Procs : JobOk(p))'
    BY <2>1 DEF JobOk, NoJob, Down
  <2> QED BY <2>2, ProcessAssumption DEF JobInv, JobOk, Procs
<1>7. CASE UNCHANGED vars
  BY <1>7 DEF vars, procs, JobInv, UiJob, DaemonJob
<1> QED BY <1>2, <1>3, <1>4, <1>5, <1>6, <1>7 DEF Next

-----------------------------------------------------------------------------
(* What the steps of a replacement do to the files.                        *)

\* There is a record exactly if something is read.
LEMMA ReadAbsent ==
  ASSUME TypeOK, NEW n \in Names
  PROVE  /\ dir[n] \in Inodes \cup {NoInode} /\ NoInode \notin Inodes
         /\ Content(dir[n]) = Absent <=> dir[n] = NoInode
         /\ dir[n] # NoInode => Content(dir[n]) = inode[dir[n]].data
<1>1. dir[n] \in Inodes \cup {NoInode} /\ NoInode \notin Inodes
  BY InodeAssumption DEF TypeOK, Directories, NoInode
<1>2. \A i \in Inodes : inode[i].data # Absent
  BY RecordAssumption DEF TypeOK, Payloads
<1> QED BY <1>1, <1>2 DEF Content

\* The other processes, and what a process that goes on writing writes.
SameJob(p) ==
  /\ job'[p].kind = job[p].kind /\ job'[p].value = job[p].value /\ job'[p].then = job[p].then
  /\ Others(p)

\* A temporary file is opened: a new one, or one that was left is cut off.
LEMMA OpenEffect ==
  ASSUME TypeOK, NEW p \in Procs, OpenTemp(p)
  PROVE  LET t == Temp(job[p].kind) IN
         /\ pc[p] = "open" /\ pc'[p] = "write" /\ SameJob(p) /\ job'[p].fd = dir'[t]
         /\ t \in Temps /\ dir'[t] \in Inodes /\ dir'[t] # NoInode
         /\ \A n \in Names \ {t} : dir'[n] = dir[n]
         /\ versions' = versions \cup {dir'}
         /\ \/ dir'[t] = dir[t]
            \/ \A d \in versions, n \in Names : d[n] # dir'[t]
         /\ inode'[dir'[t]] = Unused /\ \A i \in Inodes \ {dir'[t]} : inode'[i] = inode[i]
         /\ \A r \in Kinds : attempted[r] \subseteq attempted'[r]
         /\ job[p].value \in attempted'[job[p].kind]
         /\ contended' = (contended \/ \E q \in Procs \ {p} : pc[q] \in Holding /\ Temp(job[q].kind) = t)
         /\ UNCHANGED <<pid, seeds, faulted, acked, lossy, troubles>>
<1> DEFINE t == Temp(job[p].kind)
           i == IF dir[t] = NoInode THEN NextInode ELSE dir[t]
<1>1. t \in Temps /\ t \in Names /\ job[p].kind \in Kinds /\ dir \in Directories
  BY TempFacts, NameFacts DEF TypeOK
<1>2. /\ i \in Inodes /\ i # NoInode
      /\ i = dir[t] \/ \A d \in versions, n \in Names : d[n] # i
  BY <1>1, NewInode, InodeAssumption DEF OpenTemp, Directories, NoInode
<1>3. /\ pc[p] = "open" /\ pc'[p] = "write" /\ SameJob(p) /\ job'[p].fd = i
  BY DEF OpenTemp, Goto, SameJob, Others, TypeOK
<1>4. /\ versions' = versions \cup {dir'} /\ dir' = [dir EXCEPT ![t] = i]
  <2>1. CASE dir[t] = NoInode
    BY <2>1 DEF OpenTemp, SetDir
  <2>2. CASE dir[t] # NoInode
    <3>1. dir' = dir /\ versions' = versions /\ i = dir[t]
      BY <2>2 DEF OpenTemp
    <3> QED BY <1>1, <3>1 DEF TypeOK, Directories
  <2> QED BY <2>1, <2>2
<1>5. /\ inode' = [inode EXCEPT ![i] = Unused]
      /\ attempted' = [attempted EXCEPT ![job[p].kind] = @ \cup {job[p].value}]
      /\ UNCHANGED <<pid, seeds, faulted, acked, lossy, troubles>>
  BY DEF OpenTemp, bounds
<1>6. contended' = (contended \/ \E q \in Procs \ {p} : pc[q] \in Holding /\ Temp(job[q].kind) = t)
  BY DEF OpenTemp, Holding
<1> HIDE DEF t, i
<1>7. dir'[t] = i /\ \A n \in Names \ {t} : dir'[n] = dir[n]
  BY <1>1, <1>4 DEF Directories
<1>8. inode'[i] = Unused /\ \A j \in Inodes \ {i} : inode'[j] = inode[j]
  BY <1>2, <1>5 DEF TypeOK
<1>9. /\ \A r \in Kinds : attempted[r] \subseteq attempted'[r]
      /\ job[p].value \in attempted'[job[p].kind]
  BY <1>1, <1>5 DEF TypeOK
<1> QED BY <1>1, <1>2, <1>3, <1>4, <1>5, <1>6, <1>7, <1>8, <1>9 DEF t

\* The temporary file becomes the record.
LEMMA RenameEffect ==
  ASSUME TypeOK, NEW p \in Procs, RenameTemp(p)
  PROVE  LET r == job[p].kind
             t == Temp(r) IN
         /\ pc[p] = "rename" /\ pc'[p] = "syncdir" /\ job'[p] = job[p] /\ Others(p)
         /\ r \in Kinds /\ t \in Temps /\ dir[t] \in Inodes /\ dir[t] # NoInode
         /\ dir'[Final(r)] = dir[t] /\ dir'[t] = NoInode
         /\ \A n \in Names \ {t, Final(r)} : dir'[n] = dir[n]
         /\ versions' = versions \cup {dir'}
         /\ UNCHANGED <<inode, pid, seeds, faulted, acked, attempted, lossy, contended, troubles>>
<1> DEFINE r == job[p].kind
           t == Temp(r)
<1>1. /\ t \in Temps /\ t \in Names /\ r \in Kinds /\ dir \in Directories
      /\ Final(r) \in Names /\ Final(r) # t
  BY TempFacts, NameFacts DEF TypeOK
<1>2. pc[p] = "rename" /\ pc'[p] = "syncdir" /\ job'[p] = job[p] /\ Others(p)
  BY GotoEffect DEF RenameTemp
<1>3. /\ dir' = [dir EXCEPT ![Final(r)] = dir[t], ![t] = NoInode] /\ versions' = versions \cup {dir'}
      /\ UNCHANGED <<inode, pid, seeds, faulted, acked, attempted, lossy, contended, troubles>>
      /\ dir[t] # NoInode
  BY DEF RenameTemp, SetDir, history, bounds
<1> HIDE DEF t, r
<1>4. dir'[Final(r)] = dir[t] /\ dir'[t] = NoInode /\ \A n \in Names \ {t, Final(r)} : dir'[n] = dir[n]
  BY <1>1, <1>3 DEF Directories
<1>5. dir[t] \in Inodes
  BY <1>1, <1>3 DEF Directories
<1> QED BY <1>1, <1>2, <1>3, <1>4, <1>5 DEF t, r

\* Files are unlinked.
LEMMA UnlinkEffect ==
  ASSUME TypeOK, NEW names \in SUBSET Names, SetDir(Unlinked(names))
  PROVE  /\ \A n \in Names \ names : dir'[n] = dir[n]
         /\ \A n \in names : dir'[n] = NoInode
         /\ versions' = versions \cup {dir'}
BY DEF SetDir, Unlinked

\* The temporary file of a write that fails is unlinked.
LEMMA WriteFailsEffect ==
  ASSUME TypeOK, NEW p \in Procs, WriteFails(p)
  PROVE  LET t == Temp(job[p].kind) IN
         /\ pc[p] \in Holding /\ pc'[p] = AfterFailure(p) /\ job'[p] = NoJob /\ Others(p)
         /\ t \in Temps /\ dir'[t] = NoInode
         /\ \A n \in Names \ {t} : dir'[n] = dir[n]
         /\ versions' = versions \cup {dir'}
         /\ UNCHANGED <<inode, pid, seeds, acked, attempted, lossy, contended>>
         /\ IF pc[p] = "rename" /\ dir[t] = NoInode THEN NoFault ELSE Fault(p)
<1> DEFINE t == Temp(job[p].kind)
<1>1. t \in Temps /\ {t} \in SUBSET Names
  BY TempFacts, NameFacts DEF TypeOK
<1>2. pc'[p] = AfterFailure(p) /\ job'[p] = NoJob /\ Others(p)
  BY FailEffect DEF WriteFails
<1>3. SetDir(Unlinked({t}))
  BY DEF WriteFails
<1>4. dir'[t] = NoInode /\ (\A n \in Names \ {t} : dir'[n] = dir[n]) /\ versions' = versions \cup {dir'}
  BY <1>1, <1>3, UnlinkEffect
<1> QED BY <1>1, <1>2, <1>4 DEF WriteFails, Holding

\* The temporary file is written.
LEMMA WriteEffect ==
  ASSUME TypeOK, NEW p \in Procs, WriteTemp(p), job[p].fd # NoInode
  PROVE  /\ pc[p] = "write" /\ pc'[p] = "sync" /\ job'[p] = job[p] /\ Others(p)
         /\ job[p].fd \in Inodes
         /\ inode'[job[p].fd] = [data |-> job[p].value, synced |-> FALSE]
         /\ \A i \in Inodes \ {job[p].fd} : inode'[i] = inode[i]
<1>1. pc[p] = "write" /\ pc'[p] = "sync" /\ job'[p] = job[p] /\ Others(p)
  BY GotoEffect DEF WriteTemp
<1>2. job[p].fd \in Inodes
  BY DEF TypeOK
<1> QED BY <1>1, <1>2 DEF WriteTemp, TypeOK

\* The temporary file is synced.
LEMMA SyncEffect ==
  ASSUME TypeOK, NEW p \in Procs, SyncTemp(p), job[p].fd # NoInode
  PROVE  /\ pc[p] = "sync" /\ pc'[p] = "rename" /\ SameJob(p)
         /\ job[p].fd \in Inodes
         /\ inode'[job[p].fd].data = inode[job[p].fd].data /\ inode'[job[p].fd].synced
         /\ \A i \in Inodes \ {job[p].fd} : inode'[i] = inode[i]
<1>1. pc[p] = "sync" /\ pc'[p] = "rename" /\ SameJob(p)
  BY DEF SyncTemp, Goto, SameJob, Others, TypeOK
<1>2. job[p].fd \in Inodes
  BY DEF TypeOK
<1> QED BY <1>1, <1>2 DEF SyncTemp, TypeOK

\* A directory sync leaves one directory, and the files in it as they are.
LEMMA SyncNamesEffect ==
  ASSUME TypeOK, SyncNames
  PROVE  /\ dir' = dir /\ versions' = {dir}
         /\ \A n \in Names : dir[n] \in Inodes => inode'[dir[n]] = inode[dir[n]]
BY DEF SyncNames

\* Power is lost: one of the directories is left, synced files as they are.
LEMMA PowerLossEffect ==
  ASSUME TypeOK, PowerLoss
  PROVE  /\ dir' \in versions /\ versions' = {dir'}
         /\ \A n \in Names : dir'[n] # NoInode =>
              /\ dir'[n] \in Inodes /\ inode'[dir'[n]].synced
              /\ inode'[dir'[n]].data \in {inode[dir'[n]].data, Torn}
              /\ inode[dir'[n]].synced => inode'[dir'[n]].data = inode[dir'[n]].data
         /\ \A p \in Procs : pc'[p] = Down[p] /\ job'[p] = NoJob
         /\ \A r \in Kinds :
              /\ attempted'[r] = {}
              /\ acked'[r] = LET i == IF r = "control" /\ dir'[Final(r)] = NoInode
                                        THEN dir'[Legacy] ELSE dir'[Final(r)]
                             IN  IF i = NoInode THEN Absent ELSE inode'[i].data
         /\ UNCHANGED <<seeds, pid, contended>> /\ troubles' # troubles
         /\ lossy' = FALSE /\ faulted' = FALSE
<1>1. PICK d \in versions :
        \E lost \in SUBSET {i \in Inodes : Referenced(d, i) /\ ~inode[i].synced} :
          /\ dir' = d
          /\ versions' = {d}
          /\ inode' = [i \in Inodes |->
               IF ~Referenced(d, i) THEN Unused
               ELSE [data |-> IF i \in lost THEN Torn ELSE inode[i].data, synced |-> TRUE]]
  BY DEF PowerLoss
<1>2. PICK lost \in SUBSET {i \in Inodes : Referenced(d, i) /\ ~inode[i].synced} :
          /\ dir' = d
          /\ versions' = {d}
          /\ inode' = [i \in Inodes |->
               IF ~Referenced(d, i) THEN Unused
               ELSE [data |-> IF i \in lost THEN Torn ELSE inode[i].data, synced |-> TRUE]]
  BY <1>1
<1>3. ASSUME NEW n \in Names, d[n] # NoInode
      PROVE  /\ d[n] \in Inodes /\ inode'[d[n]].synced
             /\ inode'[d[n]].data \in {inode[d[n]].data, Torn}
             /\ inode[d[n]].synced => inode'[d[n]].data = inode[d[n]].data
  <2>1. d[n] \in Inodes /\ Referenced(d, d[n])
    BY <1>3 DEF TypeOK, Directories, Referenced
  <2>2. inode'[d[n]] = [data |-> IF d[n] \in lost THEN Torn ELSE inode[d[n]].data, synced |-> TRUE]
    BY <1>2, <2>1
  <2>3. inode[d[n]].synced => d[n] \notin lost
    BY <1>2
  <2> QED BY <2>1, <2>2, <2>3
<1>4. \A p \in Procs : pc'[p] = Down[p] /\ job'[p] = NoJob
  BY DEF PowerLoss
<1>5. \A r \in Kinds :
        /\ attempted'[r] = {}
        /\ acked'[r] = LET i == IF r = "control" /\ dir'[Final(r)] = NoInode
                                  THEN dir'[Legacy] ELSE dir'[Final(r)]
                       IN  IF i = NoInode THEN Absent ELSE inode'[i].data
  BY DEF PowerLoss
<1>6. UNCHANGED <<seeds, pid, contended>> /\ lossy' = FALSE /\ faulted' = FALSE
  BY DEF PowerLoss
<1>7. troubles' # troubles
  BY DEF PowerLoss, Trouble, TypeOK
<1> QED BY <1>2, <1>3, <1>4, <1>5, <1>6, <1>7

\* A process moves, or begins to write, and touches no file.
Quiet(p) ==
  /\ UNCHANGED <<dir, versions, inode, contended>> /\ Others(p)
  /\ pc'[p] \notin Holding \cup {"syncdir"}
  /\ pc'[p] \in {"verifySeed", "verifyControl"} => pc[p] = "syncdir" /\ job'[p] = job[p]
  /\ p # Daemon => pid' = pid

\* The steps, by what they do to the files.
LEMMA StepKinds ==
  ASSUME TypeOK, JobInv, Next
  PROVE  \/ \E p \in Procs : \/ OpenTemp(p) \/ WriteTemp(p) \/ SyncTemp(p) \/ RenameTemp(p)
                             \/ WriteFails(p) \/ SyncDir(p)
         \/ CleanOrphans \/ CleanLegacy \/ SyncLegacy \/ PowerLoss
         \/ \E p \in Procs : Quiet(p)
<1> USE DEF fs, bounds, history
<1>1. Daemon \in Procs
  BY DEF Procs
<1>2. ASSUME NEW p \in Procs, OpenFails(p) PROVE Quiet(p)
  <2>1. pc'[p] = AfterFailure(p) /\ Others(p)
    BY <1>2, FailEffect DEF OpenFails
  <2> QED BY <1>2, <2>1 DEF OpenFails, Quiet, AfterFailure, Holding
<1>3. ASSUME NEW p \in Procs, SyncDirFails(p) PROVE Quiet(p)
  <2>1. CASE job[p].kind = "fingerprint"
    <3>1. pc'[p] = AfterFailure(p) /\ Others(p)
      BY <1>3, <2>1, FailEffect DEF SyncDirFails
    <3> QED BY <1>3, <3>1 DEF SyncDirFails, Quiet, AfterFailure, Holding
  <2>2. CASE job[p].kind # "fingerprint"
    <3>1. /\ pc[p] = "syncdir" /\ pc'[p] = job[p].then /\ Others(p)
          /\ pc'[p] \in {"verifySeed", "verifyControl"} => job'[p] = job[p]
      BY <1>3, <2>2, ReportEffect DEF SyncDirFails
    <3>2. job[p].then \notin Holding \cup {"syncdir"}
      BY <3>1, ProcessAssumption DEF JobInv, UiJob, DaemonJob, Writing, Procs, Holding
    <3> QED BY <1>3, <3>1, <3>2 DEF SyncDirFails, Quiet
  <2> QED BY <2>1, <2>2
<1>4. ASSUME NEW p \in Procs, Kill(p) PROVE Quiet(p)
  BY <1>4 DEF Kill, Quiet, Others, TypeOK, Down, Holding
<1>5. ASSUME NEW u \in Uis, NEW id \in ChosenIds, Apply(u, id) PROVE u \in Procs /\ Quiet(u)
  <2>1. u \in Procs
    BY DEF Procs
  <2>2. pc'[u] = "open" /\ Others(u)
    BY <1>5, <2>1, BeginEffect DEF Apply
  <2> QED BY <1>5, <2>1, <2>2 DEF Apply, Quiet, Holding
<1>6. ASSUME NEW q \in Pids, StartDaemon(q) PROVE Quiet(Daemon)
  BY <1>1, <1>6 DEF StartDaemon, Quiet, Others, TypeOK, Holding
<1>7. ASSUME NEW answered \in BOOLEAN, CaptureFingerprint(answered) PROVE Quiet(Daemon)
  <2>1. pc'[Daemon] \in {"open", "seed"} /\ Others(Daemon)
    BY <1>1, <1>7 DEF CaptureFingerprint, Begin, Goto, TypeOK, Others
  <2> QED BY <1>7, <2>1 DEF CaptureFingerprint, Quiet, Holding
<1>8. CASE LoadSeed
  <2>1. pc'[Daemon] \in {"open", "failed", "migrate"} /\ Others(Daemon)
    BY <1>1, <1>8 DEF LoadSeed, Begin, Goto, TypeOK, Others
  <2> QED BY <1>1, <1>8, <2>1 DEF LoadSeed, Quiet, Holding
<1>9. CASE VerifySeed \/ VerifyControl
  <2>1. pc'[Daemon] \in {"cleanup", "failed", "migrate"} /\ Others(Daemon)
    BY <1>1, <1>9 DEF VerifySeed, VerifyControl, Verify, Goto, TypeOK, Others
  <2> QED BY <1>1, <1>9, <2>1 DEF VerifySeed, VerifyControl, Verify, Quiet, Holding
<1>10. CASE Migrate
  <2>1. pc'[Daemon] \in {"open", "failed", "cleanup"} /\ Others(Daemon)
    BY <1>1, <1>10 DEF Migrate, Begin, Goto, TypeOK, Others
  <2> QED BY <1>1, <1>10, <2>1 DEF Migrate, Quiet, Holding
<1>11. CASE LoadControl
  <2>1. pc'[Daemon] \in {"open", "failed", "serve"} /\ Others(Daemon)
    BY <1>1, <1>11 DEF LoadControl, Begin, Goto, TypeOK, Others
  <2> QED BY <1>1, <1>11, <2>1 DEF LoadControl, Quiet, Holding
<1>12. CASE CleanupFails \/ ReadFails
  <2>1. pc'[Daemon] \in {"fingerprint", "load", "seed", "failed"} /\ Others(Daemon)
    BY <1>1, <1>12 DEF CleanupFails, ReadFails, TypeOK, Others
  <2> QED BY <1>1, <1>12, <2>1 DEF CleanupFails, ReadFails, Quiet, Holding
<1> QED BY <1>1, <1>2, <1>3, <1>4, <1>5, <1>6, <1>7, <1>8, <1>9, <1>10, <1>11, <1>12
        DEF Next, Starting, Replacing

-----------------------------------------------------------------------------
(* The order in which names appear, and who writes when.                   *)

\* A directory operation makes a record appear or the v2 record disappear, or
\* touches neither; or one directory is left.
LEMMA DirStep ==
  ASSUME TypeOK, JobInv, Next
  PROVE  \/ versions' = {dir'} /\ dir' \in versions
         \/ /\ versions' = versions \cup {dir'}
            /\ \A r \in Kinds : dir'[Final(r)] # NoInode \/ dir'[Final(r)] = dir[Final(r)]
            /\ dir'[Legacy] = NoInode \/ dir'[Legacy] = dir[Legacy]
<1>1. /\ dir \in versions /\ Kept \subseteq Names /\ Legacy \in Kept
      /\ \A r \in Kinds : Final(r) \in Kept /\ Final(r) # Legacy
  BY NameFacts DEF TypeOK
<1>2. Kept \cap Temps = {} /\ SeedTemps \subseteq Temps /\ Temps \subseteq Names
  BY NameFacts
<1>3. ASSUME NEW p \in Procs, OpenTemp(p)
      PROVE  versions' = versions \cup {dir'} /\ \A n \in Kept : dir'[n] = dir[n]
  <2>1. /\ Temp(job[p].kind) \in Temps /\ versions' = versions \cup {dir'}
        /\ \A n \in Names \ {Temp(job[p].kind)} : dir'[n] = dir[n]
    BY <1>3, OpenEffect
  <2> QED BY <1>1, <1>2, <2>1
<1>4. ASSUME NEW p \in Procs, WriteTemp(p) \/ SyncTemp(p) \/ Quiet(p)
      PROVE  versions' = versions \cup {dir'} /\ dir' = dir
  BY <1>1, <1>4 DEF WriteTemp, SyncTemp, Quiet
<1>5. ASSUME NEW p \in Procs, RenameTemp(p)
      PROVE  /\ versions' = versions \cup {dir'}
             /\ \A r \in Kinds : dir'[Final(r)] # NoInode \/ dir'[Final(r)] = dir[Final(r)]
             /\ dir'[Legacy] = dir[Legacy]
  <2> DEFINE s == job[p].kind
             t == Temp(s)
  <2>1. /\ t \in Temps /\ s \in Kinds /\ versions' = versions \cup {dir'} /\ dir[t] # NoInode
        /\ dir'[Final(s)] = dir[t]
        /\ \A n \in Names \ {t, Final(s)} : dir'[n] = dir[n]
    BY <1>5, RenameEffect
  <2> HIDE DEF s, t
  <2> QED BY <1>1, <1>2, <2>1
<1>6. ASSUME NEW p \in Procs, WriteFails(p)
      PROVE  versions' = versions \cup {dir'} /\ \A n \in Kept : dir'[n] = dir[n]
  <2>1. /\ Temp(job[p].kind) \in Temps /\ versions' = versions \cup {dir'}
        /\ \A n \in Names \ {Temp(job[p].kind)} : dir'[n] = dir[n]
    BY <1>6, WriteFailsEffect
  <2> QED BY <1>1, <1>2, <2>1
<1>7. CASE CleanOrphans
  <2>1. SeedTemps \in SUBSET Names /\ SetDir(Unlinked(SeedTemps))
    BY <1>2, <1>7 DEF CleanOrphans
  <2>2. versions' = versions \cup {dir'} /\ \A n \in Names \ SeedTemps : dir'[n] = dir[n]
    BY <2>1, UnlinkEffect
  <2>3. \A n \in Kept : dir'[n] = dir[n]
    BY <1>1, <1>2, <2>2
  <2> QED BY <1>1, <2>2, <2>3
<1>8. CASE CleanLegacy
  <2>1. {Legacy} \in SUBSET Names /\ SetDir(Unlinked({Legacy}))
    BY <1>1, <1>8 DEF CleanLegacy
  <2>2. /\ versions' = versions \cup {dir'} /\ \A n \in Names \ {Legacy} : dir'[n] = dir[n]
        /\ dir'[Legacy] = NoInode
    BY <2>1, UnlinkEffect
  <2> QED BY <1>1, <2>2
<1>9. ASSUME SyncNames PROVE versions' = {dir'} /\ dir' \in versions
  BY <1>1, <1>9 DEF SyncNames
<1>10. CASE PowerLoss
  BY <1>10, PowerLossEffect
<1>11. (\E p \in Procs : SyncDir(p)) \/ SyncLegacy => SyncNames
  BY DEF SyncDir, SyncLegacy
<1> QED BY <1>1, <1>3, <1>4, <1>5, <1>6, <1>7, <1>8, <1>9, <1>10, <1>11, StepKinds

\* Every step keeps the order of the directories.
LEMMA OrderStep ==
  ASSUME TypeOK, JobInv, OrderInv, [Next]_vars
  PROVE  OrderInv'
<1>1. CASE UNCHANGED vars
  BY <1>1 DEF vars, fs, OrderInv
<1>2. CASE versions' = {dir'}
  BY <1>2 DEF OrderInv
<1>3. CASE /\ versions' = versions \cup {dir'}
           /\ \A r \in Kinds : dir'[Final(r)] # NoInode \/ dir'[Final(r)] = dir[Final(r)]
           /\ dir'[Legacy] = NoInode \/ dir'[Legacy] = dir[Legacy]
  BY <1>3 DEF OrderInv
<1> QED BY <1>1, <1>2, <1>3, DirStep

\* What a process may do without changing who writes when.
Moves(p) ==
  \/ pc'[p] = pc[p] /\ job'[p].kind = job[p].kind
  \/ /\ pc[p] \in {"open"} \cup Holding /\ pc'[p] \in Holding
     /\ job'[p].kind = job[p].kind
  \/ /\ pc'[p] \notin Writing \cup {"verifyControl"}
     /\ p # Daemon => pc'[p] = "idle"
  \/ /\ p = Daemon /\ pc[p] = "syncdir" /\ pc'[p] = "verifyControl"
     /\ job[p].kind = "control"

\* A step that moves a process and keeps the records keeps SoloInv.
LEMMA SoloKept ==
  ASSUME TypeOK, JobInv, SoloInv, NEW p \in Procs, Others(p), Moves(p),
         \A r \in Kinds : dir'[Final(r)] = dir[Final(r)]
  PROVE  SoloInv'
<1>1. \A q \in Procs : Moves(q)
  BY DEF Others, Moves
<1>2. Daemon \in Procs /\ Uis \subseteq Procs /\ Daemon \notin Uis
  BY ProcessAssumption DEF Procs
<1>3. \A q \in Procs : job[q].kind \in Kinds
  BY DEF TypeOK
<1>4. "control" \in Kinds
  BY DEF Kinds
<1>5. \A u \in Uis : pc'[u] # "idle" => pc[u] # "idle"
  BY <1>1, <1>2 DEF Moves, Holding
<1>6. (pc'[Daemon] \in Writing /\ job'[Daemon].kind = "control") \/ pc'[Daemon] = "verifyControl"
        => (pc[Daemon] \in Writing /\ job[Daemon].kind = "control") \/ pc[Daemon] = "verifyControl"
  BY <1>1, <1>2 DEF Moves, Holding, Writing
<1>7. pc'[Daemon] \in {"open"} \cup Holding
        => pc[Daemon] \in {"open"} \cup Holding /\ job'[Daemon].kind = job[Daemon].kind
  BY <1>1, <1>2 DEF Moves, Holding, Writing
<1>8. \A q \in Procs : pc'[q] = "syncdir" => pc[q] = "syncdir" /\ job'[q].kind = job[q].kind
  BY <1>1, <1>2 DEF Moves, Holding, Writing
<1> QED BY <1>2, <1>3, <1>4, <1>5, <1>6, <1>7, <1>8 DEF SoloInv

\* Every step keeps SoloInv.
LEMMA SoloStep ==
  ASSUME TypeOK, JobInv, SoloInv, [Next]_vars
  PROVE  SoloInv'
<1> USE DEF fs, bounds, history
<1>1. /\ Daemon \in Procs /\ Uis \subseteq Procs /\ Daemon \notin Uis
      /\ \A q \in Procs : job[q].kind \in Kinds
  BY ProcessAssumption DEF Procs, TypeOK
<1>2. /\ \A r \in Kinds : Final(r) \in Kept /\ Final(r) \in Names /\ Final(r) # Legacy
      /\ Kept \cap Temps = {} /\ SeedTemps \subseteq Temps /\ Temps \subseteq Names /\ Legacy \in Names
      /\ \A r, s \in Kinds : Final(r) = Final(s) => r = s
  BY NameFacts
<1>3. {"control", "seed", "fingerprint"} = Kinds
  BY DEF Kinds
<1>4. ASSUME NEW to, pc'[Daemon] = to, Others(Daemon), UNCHANGED dir,
             to \notin Writing \cup {"verifyControl"}
      PROVE  SoloInv'
  BY <1>1, <1>4, SoloKept DEF Moves
<1>5. ASSUME NEW r \in Kinds, NEW v, NEW then, Begin(Daemon, r, v, then), Read(r) = Absent, UNCHANGED dir
      PROVE  SoloInv'
  <2>0. job'[Daemon] = [kind |-> r, value |-> v, fd |-> NoInode, then |-> then]
    BY <1>1, <1>5, BeginEffect
  <2>1. pc'[Daemon] = "open" /\ Others(Daemon) /\ job'[Daemon].kind = r
    BY <1>1, <1>5, <2>0, BeginEffect
  <2>2. dir[Final(r)] = NoInode
    BY <1>2, <1>5, ReadAbsent DEF Read
  <2>3. r = "control" => \A u \in Uis : pc[u] = "idle"
    BY <2>2 DEF SoloInv
  <2>4. \A u \in Uis : pc'[u] = pc[u] /\ job'[u] = job[u]
    BY <1>1, <2>1 DEF Others
  <2> QED BY <1>1, <1>5, <2>1, <2>2, <2>3, <2>4 DEF SoloInv, Procs, Holding
<1>6. ASSUME NEW p \in Procs, OpenTemp(p) PROVE SoloInv'
  <2>1. /\ pc[p] = "open" /\ pc'[p] = "write" /\ SameJob(p) /\ Temp(job[p].kind) \in Temps
        /\ \A n \in Names \ {Temp(job[p].kind)} : dir'[n] = dir[n]
    BY <1>6, OpenEffect
  <2>2. \A r \in Kinds : dir'[Final(r)] = dir[Final(r)]
    BY <1>2, <2>1
  <2>3. Moves(p) /\ Others(p)
    BY <2>1 DEF Moves, SameJob, Holding
  <2> QED BY <2>2, <2>3, SoloKept
<1>7. ASSUME NEW p \in Procs, WriteTemp(p) PROVE SoloInv'
  <2>1. pc[p] = "write" /\ pc'[p] = "sync" /\ job'[p] = job[p] /\ Others(p) /\ UNCHANGED dir
    BY <1>7, GotoEffect DEF WriteTemp
  <2>2. Moves(p)
    BY <2>1 DEF Moves, Holding
  <2> QED BY <2>1, <2>2, SoloKept
<1>8. ASSUME NEW p \in Procs, SyncTemp(p) PROVE SoloInv'
  <2>1. /\ pc[p] = "sync" /\ pc'[p] = "rename" /\ job'[p].kind = job[p].kind /\ Others(p)
        /\ UNCHANGED dir
    BY <1>8 DEF SyncTemp, Goto, Others, TypeOK
  <2>2. Moves(p)
    BY <2>1 DEF Moves, Holding
  <2> QED BY <2>1, <2>2, SoloKept
<1>9. ASSUME NEW p \in Procs, RenameTemp(p) PROVE SoloInv'
  <2> DEFINE s == job[p].kind
             t == Temp(s)
  <2>1. /\ pc[p] = "rename" /\ pc'[p] = "syncdir" /\ job'[p] = job[p] /\ Others(p)
        /\ t \in Temps /\ dir[t] # NoInode /\ dir'[Final(s)] = dir[t]
        /\ \A n \in Names \ {t, Final(s)} : dir'[n] = dir[n]
    BY <1>9, RenameEffect
  <2>2. s \in Kinds /\ (p # Daemon => s = "control")
    BY <1>1, <2>1 DEF JobInv, UiJob, Procs, Writing
  <2> HIDE DEF s, t
  <2>3. /\ \A r \in Kinds \ {s} : dir'[Final(r)] = dir[Final(r)]
        /\ dir'[Final(s)] # NoInode
    BY <1>2, <2>1, <2>2
  <2>4. s = "control" /\ p # Daemon =>
          ~((pc[Daemon] \in Writing /\ job[Daemon].kind = "control") \/ pc[Daemon] = "verifyControl")
    BY <1>1, <2>1 DEF SoloInv, Procs
  <2>5. s = "control" /\ p = Daemon => \A u \in Uis : pc[u] = "idle"
    BY <2>1 DEF SoloInv, s, Writing
  <2>6. \A q \in Procs : job'[q].kind = job[q].kind
    BY <2>1 DEF Others
  <2>7. \A q \in Procs : pc'[q] = "syncdir" => pc[q] = "syncdir" \/ q = p
    BY <2>1 DEF Others
  <2>8. (\A q \in Procs : pc[q] = "syncdir" => dir[Final(job[q].kind)] # NoInode)'
    BY <1>1, <2>3, <2>6, <2>7 DEF SoloInv, s
  <2>9. (\A u \in Uis : pc[u] # "idle" => dir[Final("control")] # NoInode)'
    BY <1>1, <1>3, <2>1, <2>3 DEF SoloInv, Others
  <2>10. (pc[Daemon] \in {"open"} \cup Holding => dir[Final(job[Daemon].kind)] = NoInode)'
    <3>1. CASE p = Daemon
      BY <2>1, <3>1 DEF Holding
    <3>2. CASE p # Daemon
      <4>1. pc'[Daemon] = pc[Daemon] /\ job'[Daemon] = job[Daemon] /\ s = "control"
        BY <1>1, <2>1, <2>2, <3>2 DEF Others
      <4>2. pc[Daemon] \in {"open"} \cup Holding => job[Daemon].kind # "control"
        BY <2>4, <3>2, <4>1 DEF Holding, Writing
      <4> QED BY <1>1, <2>3, <4>1, <4>2 DEF SoloInv
    <3> QED BY <3>1, <3>2
  <2>11. ((pc[Daemon] \in Writing /\ job[Daemon].kind = "control") \/ pc[Daemon] = "verifyControl"
           => \A u \in Uis : pc[u] = "idle")'
    <3>1. CASE p = Daemon
      BY <1>1, <2>1, <2>5, <3>1 DEF Others, s
    <3>2. CASE p # Daemon
      BY <1>1, <2>1, <2>2, <2>4, <3>2 DEF Others
    <3> QED BY <3>1, <3>2
  <2> QED BY <2>8, <2>9, <2>10, <2>11 DEF SoloInv
<1>10. ASSUME NEW p \in Procs, Fail(p), \A r \in Kinds : dir'[Final(r)] = dir[Final(r)] PROVE SoloInv'
  <2>1. pc'[p] = AfterFailure(p) /\ Others(p)
    BY <1>10, FailEffect
  <2>2. Moves(p)
    BY <2>1 DEF Moves, AfterFailure, Writing
  <2> QED BY <1>10, <2>1, <2>2, SoloKept
<1>11. ASSUME NEW p \in Procs, Report(p), UNCHANGED dir PROVE SoloInv'
  <2>1. pc[p] = "syncdir" /\ pc'[p] = job[p].then /\ Others(p)
    BY <1>11, ReportEffect
  <2>2. CASE p # Daemon
    <3>1. pc'[p] = "idle"
      BY <1>1, <2>1, <2>2 DEF JobInv, UiJob, Procs, Writing
    <3>2. Moves(p)
      BY <3>1 DEF Moves, Writing
    <3> QED BY <1>11, <2>1, <3>2, SoloKept
  <2>3. CASE p = Daemon
    <3>1. DaemonJob(job[p])
      BY <2>1, <2>3 DEF JobInv, Writing
    <3>2. \/ pc'[p] \in {"seed", "verifySeed", "serve"}
          \/ pc'[p] = "verifyControl" /\ job[p].kind = "control"
      BY <2>1, <3>1 DEF DaemonJob
    <3>3. Moves(p)
      BY <2>1, <2>3, <3>2 DEF Moves, Writing
    <3> QED BY <1>11, <2>1, <3>3, SoloKept
  <2> QED BY <2>2, <2>3
<1>12. ASSUME NEW p \in Procs, Replacing(p) PROVE SoloInv'
  <2>1. CASE WriteFails(p)
    <3>1. /\ Temp(job[p].kind) \in Temps
          /\ \A n \in Names \ {Temp(job[p].kind)} : dir'[n] = dir[n]
      BY <2>1, WriteFailsEffect
    <3>2. \A r \in Kinds : dir'[Final(r)] = dir[Final(r)]
      BY <1>2, <3>1
    <3> QED BY <1>10, <2>1, <3>2 DEF WriteFails
  <2>2. CASE SyncDir(p) \/ SyncDirFails(p)
    BY <1>10, <1>11, <2>2 DEF SyncDir, SyncNames, SyncDirFails
  <2>3. CASE OpenFails(p)
    BY <1>10, <2>3 DEF OpenFails
  <2> QED BY <1>6, <1>7, <1>8, <1>9, <1>12, <2>1, <2>2, <2>3 DEF Replacing
<1>13. CASE Starting
  <2>1. ASSUME NEW q \in Pids, StartDaemon(q) PROVE SoloInv'
    <3>1. pc'[Daemon] = "orphans" /\ Others(Daemon) /\ UNCHANGED dir
      BY <1>1, <2>1 DEF StartDaemon, Others, TypeOK
    <3> QED BY <1>4, <3>1 DEF Writing
  <2>2. CASE CleanOrphans \/ CleanLegacy
    <3>1. pc'[Daemon] \in {"fingerprint", "load", "syncLegacy"} /\ Others(Daemon)
      BY <1>1, <2>2 DEF CleanOrphans, CleanLegacy, Goto, Others, TypeOK
    <3>2. SetDir(Unlinked(SeedTemps)) \/ SetDir(Unlinked({Legacy}))
      BY <2>2 DEF CleanOrphans, CleanLegacy
    <3>3. \A r \in Kinds : dir'[Final(r)] = dir[Final(r)]
      BY <1>2, <3>2 DEF SetDir, Unlinked
    <3>4. Moves(Daemon)
      BY <3>1 DEF Moves, Writing
    <3> QED BY <1>1, <3>1, <3>3, <3>4, SoloKept
  <2>3. ASSUME NEW answered \in BOOLEAN, CaptureFingerprint(answered) PROVE SoloInv'
    <3>1. CASE Read("fingerprint") = Absent /\ answered
      BY <1>3, <1>5, <2>3, <3>1 DEF CaptureFingerprint
    <3>2. CASE ~(Read("fingerprint") = Absent /\ answered)
      <4>1. pc'[Daemon] = "seed" /\ Others(Daemon) /\ UNCHANGED dir
        BY <1>1, <2>3, <3>2, GotoEffect DEF CaptureFingerprint
      <4> QED BY <1>4, <4>1 DEF Writing
    <3> QED BY <3>1, <3>2
  <2>4. CASE LoadSeed
    <3>1. CASE Read("seed") = Absent
      BY <1>3, <1>5, <2>4, <3>1 DEF LoadSeed
    <3>2. CASE Read("seed") # Absent
      <4>1. pc'[Daemon] \in {"failed", "migrate"} /\ Others(Daemon) /\ UNCHANGED dir
        BY <1>1, <2>4, <3>2, GotoEffect DEF LoadSeed
      <4> QED BY <1>4, <4>1 DEF Writing
    <3> QED BY <3>1, <3>2
  <2>5. CASE VerifySeed \/ VerifyControl
    <3>1. pc'[Daemon] \in {"failed", "migrate", "cleanup"} /\ Others(Daemon) /\ UNCHANGED dir
      BY <1>1, <2>5, GotoEffect DEF VerifySeed, VerifyControl, Verify
    <3> QED BY <1>4, <3>1 DEF Writing
  <2>6. CASE Migrate
    <3>1. CASE Read("control") = Absent /\ Content(dir[Legacy]) = LegacyId
      BY <1>3, <1>5, <2>6, <3>1 DEF Migrate
    <3>2. CASE ~(Read("control") = Absent /\ Content(dir[Legacy]) = LegacyId)
      <4>1. pc'[Daemon] \in {"failed", "cleanup"} /\ Others(Daemon) /\ UNCHANGED dir
        BY <1>1, <2>6, <3>2, GotoEffect DEF Migrate
      <4> QED BY <1>4, <4>1 DEF Writing
    <3> QED BY <3>1, <3>2
  <2>7. CASE LoadControl
    <3>1. CASE Read("control") = Absent
      BY <1>3, <1>5, <2>7, <3>1 DEF LoadControl
    <3>2. CASE Read("control") # Absent
      <4>1. pc'[Daemon] \in {"failed", "serve"} /\ Others(Daemon) /\ UNCHANGED dir
        BY <1>1, <2>7, <3>2, GotoEffect DEF LoadControl
      <4> QED BY <1>4, <4>1 DEF Writing
    <3> QED BY <3>1, <3>2
  <2>8. CASE SyncLegacy \/ CleanupFails \/ ReadFails
    <3>1. /\ pc'[Daemon] \in {"load", "fingerprint", "seed", "failed"} /\ Others(Daemon)
          /\ UNCHANGED dir
      BY <1>1, <2>8 DEF SyncLegacy, SyncNames, CleanupFails, ReadFails, Goto, Others, TypeOK
    <3> QED BY <1>4, <3>1 DEF Writing
  <2> QED BY <1>13, <2>1, <2>2, <2>3, <2>4, <2>5, <2>6, <2>7, <2>8 DEF Starting
<1>14. ASSUME NEW u \in Uis, NEW id \in ChosenIds, Apply(u, id) PROVE SoloInv'
  <2>0. /\ pc'[u] = "open" /\ Others(u)
        /\ job'[u] = [kind |-> "control", value |-> id, fd |-> NoInode, then |-> "idle"]
    BY <1>1, <1>14, BeginEffect DEF Apply
  <2>1. /\ pc[u] = "idle" /\ pc[Daemon] = "serve" /\ UNCHANGED dir /\ u # Daemon
        /\ pc'[u] = "open" /\ Others(u) /\ job'[u].kind = "control"
    BY <1>1, <1>14, <2>0 DEF Apply
  <2>2. dir[Final("control")] # NoInode
    BY <1>2, <1>3, <1>14, ReadAbsent DEF Apply, Read
  <2>3. pc'[Daemon] = "serve" /\ \A q \in Procs \ {u} : pc'[q] = pc[q] /\ job'[q] = job[q]
    BY <1>1, <2>1 DEF Others
  <2> QED BY <1>1, <2>1, <2>2, <2>3 DEF SoloInv, Writing, Holding
<1>15. ASSUME NEW p \in Procs, Kill(p) PROVE SoloInv'
  <2>1. pc'[p] = Down[p] /\ Others(p) /\ UNCHANGED dir
    BY <1>15 DEF Kill, TypeOK, Others
  <2>2. Moves(p)
    BY <2>1 DEF Moves, Down, Writing
  <2> QED BY <2>1, <2>2, SoloKept
<1>16. CASE PowerLoss
  <2>1. \A p \in Procs : pc'[p] = Down[p]
    BY <1>16, PowerLossEffect
  <2> QED BY <1>1, <2>1 DEF SoloInv, Down, Writing, Holding
<1>17. CASE UNCHANGED vars
  BY <1>17 DEF vars, procs, SoloInv
<1> QED BY <1>12, <1>13, <1>14, <1>15, <1>16, <1>17 DEF Next

-----------------------------------------------------------------------------
(* Names, contents and writers.                                            *)

\* A step that gives files new names so that none has two keeps NameInv.
LEMMA NameKept ==
  ASSUME TypeOK, NameInv, versions' \subseteq versions \cup {dir'}, dir' \in versions',
         \A m, n \in Names : dir'[m] = dir'[n] /\ dir'[m] # NoInode => m = n,
         \A t \in Temps : dir'[t] # NoInode =>
           dir'[t] = dir[t] \/ \A d \in versions, n \in Names : d[n] # dir'[t]
  PROVE  NameInv'
<1>1. Kept \subseteq Names /\ Temps \subseteq Names /\ Kept \cap Temps = {}
  BY NameFacts
<1>2. ASSUME NEW d \in versions', NEW m \in Names, NEW n \in Names, d[m] = d[n], d[m] # NoInode
      PROVE  m = n
  BY <1>2 DEF NameInv
<1>3. ASSUME NEW d \in versions', NEW n \in Kept, NEW t \in Temps, dir'[t] # NoInode, d[n] = dir'[t]
      PROVE  FALSE
  <2>1. CASE d = dir'
    BY <1>1, <1>3, <2>1
  <2>2. CASE d \in versions
    BY <1>1, <1>3, <2>2 DEF NameInv
  <2> QED BY <2>1, <2>2
<1> QED BY <1>2, <1>3 DEF NameInv

\* Every step gives each file one name at most.
LEMMA NameStep ==
  ASSUME TypeOK, JobInv, NameInv, [Next]_vars
  PROVE  NameInv'
<1>1. /\ dir \in versions /\ dir \in Directories
      /\ Kept \subseteq Names /\ Temps \subseteq Names /\ Kept \cap Temps = {}
      /\ SeedTemps \subseteq Temps /\ Legacy \in Names /\ \A r \in Kinds : Final(r) \in Kept
  BY NameFacts DEF TypeOK
<1>2. \A m, n \in Names : dir[m] = dir[n] /\ dir[m] # NoInode => m = n
  BY <1>1 DEF NameInv
<1>3. ASSUME NEW p \in Procs, OpenTemp(p) PROVE NameInv'
  <2> DEFINE t == Temp(job[p].kind)
  <2>1. /\ t \in Temps /\ \A n \in Names \ {t} : dir'[n] = dir[n]
        /\ versions' = versions \cup {dir'}
        /\ dir'[t] = dir[t] \/ \A d \in versions, n \in Names : d[n] # dir'[t]
    BY <1>3, OpenEffect
  <2> HIDE DEF t
  <2>2. \A m, n \in Names : dir'[m] = dir'[n] /\ dir'[m] # NoInode => m = n
    BY <1>1, <1>2, <2>1
  <2>3. \A x \in Temps : dir'[x] = dir[x] \/ \A d \in versions, n \in Names : d[n] # dir'[x]
    BY <1>1, <2>1
  <2> QED BY <2>1, <2>2, <2>3, NameKept
<1>4. ASSUME NEW p \in Procs, RenameTemp(p) PROVE NameInv'
  <2> DEFINE s == job[p].kind
             t == Temp(s)
  <2>1. /\ t \in Temps /\ s \in Kinds /\ dir[t] # NoInode /\ dir'[t] = NoInode
        /\ dir'[Final(s)] = dir[t] /\ versions' = versions \cup {dir'}
        /\ \A n \in Names \ {t, Final(s)} : dir'[n] = dir[n]
    BY <1>4, RenameEffect
  <2> HIDE DEF s, t
  <2>2. Final(s) \in Kept /\ t \in Names /\ Final(s) \in Names
    BY <1>1, <2>1
  <2>3. \A m, n \in Names : dir'[m] = dir'[n] /\ dir'[m] # NoInode => m = n
    BY <1>2, <2>1, <2>2
  <2>4. \A x \in Temps : dir'[x] # NoInode => dir'[x] = dir[x]
    BY <1>1, <2>1, <2>2
  <2> QED BY <2>1, <2>3, <2>4, NameKept
<1>5. ASSUME versions' \subseteq versions \cup {dir'}, dir' \in versions',
             \A n \in Names : dir'[n] = dir[n] \/ dir'[n] = NoInode
      PROVE  NameInv'
  <2>1. \A m, n \in Names : dir'[m] = dir'[n] /\ dir'[m] # NoInode => m = n
    BY <1>2, <1>5
  <2>2. \A x \in Temps : dir'[x] # NoInode => dir'[x] = dir[x]
    BY <1>1, <1>5
  <2> QED BY <1>5, <2>1, <2>2, NameKept
<1>6. ASSUME NEW p \in Procs, WriteTemp(p) \/ SyncTemp(p) \/ Quiet(p) PROVE NameInv'
  BY <1>1, <1>5, <1>6 DEF WriteTemp, SyncTemp, Quiet
<1>7. ASSUME NEW p \in Procs, WriteFails(p) PROVE NameInv'
  BY <1>5, <1>7, WriteFailsEffect
<1>8. CASE CleanOrphans \/ CleanLegacy
  <2>1. SetDir(Unlinked(SeedTemps)) \/ SetDir(Unlinked({Legacy}))
    BY <1>8 DEF CleanOrphans, CleanLegacy
  <2>2. /\ versions' = versions \cup {dir'}
        /\ \A n \in Names : dir'[n] = dir[n] \/ dir'[n] = NoInode
    BY <2>1 DEF SetDir, Unlinked
  <2> QED BY <1>5, <2>2
<1>9. ASSUME SyncNames PROVE NameInv'
  BY <1>1, <1>5, <1>9 DEF SyncNames
<1>10. CASE PowerLoss
  <2>1. dir' \in versions /\ versions' = {dir'}
    BY <1>10, PowerLossEffect
  <2>2. \A m, n \in Names : dir'[m] = dir'[n] /\ dir'[m] # NoInode => m = n
    BY <2>1 DEF NameInv
  <2> QED BY <1>1, <2>1, <2>2 DEF NameInv
<1>11. CASE UNCHANGED vars
  BY <1>11 DEF vars, fs, NameInv
<1>12. (\E p \in Procs : SyncDir(p)) \/ SyncLegacy => SyncNames
  BY DEF SyncDir, SyncLegacy
<1> QED BY <1>3, <1>4, <1>6, <1>7, <1>8, <1>9, <1>10, <1>11, <1>12, StepKinds

\* Contention is remembered.
LEMMA Remembered ==
  ASSUME TypeOK, [Next]_vars, ~contended'
  PROVE  ~contended
<1> USE DEF history
<1>1. ASSUME NEW p \in Procs, Replacing(p) PROVE ~contended
  BY <1>1 DEF Replacing, OpenTemp, OpenFails, WriteTemp, SyncTemp, RenameTemp, WriteFails,
       SyncDir, SyncDirFails
<1>2. CASE Starting
  BY <1>2 DEF Starting, StartDaemon, CleanOrphans, CaptureFingerprint, LoadSeed, VerifySeed,
       VerifyControl, Verify, Migrate, CleanLegacy, SyncLegacy, CleanupFails, LoadControl, ReadFails
<1>3. CASE \/ \E u \in Uis, id \in ChosenIds : Apply(u, id)
           \/ \E p \in Procs : Kill(p)
           \/ PowerLoss \/ UNCHANGED vars
  BY <1>3 DEF Apply, Kill, PowerLoss, vars
<1> QED BY <1>1, <1>2, <1>3 DEF Next

\* No process but one that crashes loses, cuts off or overwrites the file of
\* a record that a power loss may leave.
LEMMA RecordsKept ==
  ASSUME TypeOK, JobInv, NameInv, WriterInv, Next
  PROVE  \/ PowerLoss
         \/ \A d \in versions, n \in Kept :
              d \in versions' /\ d[n] # NoInode => inode'[d[n]] = inode[d[n]]
<1>1. /\ dir \in versions /\ Kept \subseteq Names /\ Temps \subseteq Names
      /\ versions \subseteq Directories
      /\ \A q \in Procs : Temp(job[q].kind) \in Temps
  BY NameFacts, TempFacts DEF TypeOK
<1>2. \A d \in versions, n \in Kept : d[n] # NoInode => d[n] \in Inodes
  BY <1>1 DEF Directories
<1>3. ASSUME NEW p \in Procs, OpenTemp(p), NEW d \in versions, NEW n \in Kept, d[n] # NoInode
      PROVE  inode'[d[n]] = inode[d[n]]
  <2> DEFINE t == Temp(job[p].kind)
  <2>1. /\ t \in Temps /\ dir'[t] # NoInode
        /\ dir'[t] = dir[t] \/ \A e \in versions, m \in Names : e[m] # dir'[t]
        /\ \A i \in Inodes \ {dir'[t]} : inode'[i] = inode[i]
    BY <1>3, OpenEffect
  <2> HIDE DEF t
  <2>2. d[n] # dir'[t]
    BY <1>1, <1>3, <2>1 DEF NameInv
  <2> QED BY <1>2, <1>3, <2>1, <2>2
<1>4. ASSUME NEW p \in Procs, WriteTemp(p) \/ SyncTemp(p), NEW d \in versions, NEW n \in Kept,
             d[n] # NoInode
      PROVE  inode'[d[n]] = inode[d[n]]
  <2> DEFINE t == Temp(job[p].kind)
  <2>1. pc[p] \in {"write", "sync"}
    BY <1>4 DEF WriteTemp, SyncTemp, Goto
  <2>2. job[p].fd = dir[t] /\ dir[t] # NoInode
    BY <2>1 DEF WriterInv, Holding
  <2>3. \A i \in Inodes \ {job[p].fd} : inode'[i] = inode[i]
    BY <1>4, <2>2, WriteEffect, SyncEffect
  <2>4. d[n] # dir[t]
    BY <1>1, <2>2 DEF NameInv
  <2> QED BY <1>2, <1>4, <2>2, <2>3, <2>4
<1>5. ASSUME SyncNames, NEW d \in versions, NEW n \in Kept, d \in versions', d[n] # NoInode
      PROVE  inode'[d[n]] = inode[d[n]]
  BY <1>1, <1>2, <1>5, SyncNamesEffect
<1>6. ASSUME NEW p \in Procs, RenameTemp(p) \/ WriteFails(p) \/ Quiet(p) PROVE inode' = inode
  BY <1>6 DEF RenameTemp, WriteFails, Quiet
<1>7. ASSUME CleanOrphans \/ CleanLegacy PROVE inode' = inode
  BY <1>7 DEF CleanOrphans, CleanLegacy
<1>8. (\E p \in Procs : SyncDir(p)) \/ SyncLegacy => SyncNames
  BY DEF SyncDir, SyncLegacy
<1> QED BY <1>3, <1>4, <1>5, <1>6, <1>7, <1>8, StepKinds

\* What a process may write is a whole record.
LEMMA WholeValue ==
  ASSUME TypeOK, JobInv, NEW p \in Procs, pc[p] \in Writing
  PROVE  /\ job[p].value # Torn /\ job[p].value # Absent
         /\ job[p].kind = "control" => job[p].value \in Ids
<1>1. UiJob(job[p]) \/ DaemonJob(job[p])
  BY DEF JobInv, Procs
<1>2. \A v \in 1..seeds : v \in Nat
  BY DEF TypeOK
<1> QED BY <1>1, <1>2, RecordAssumption DEF UiJob, DaemonJob, Ids

\* Every step keeps the records whole.
LEMMA WholeStep ==
  ASSUME TypeOK, JobInv, NameInv, WriterInv, WholeInv, Next
  PROVE  WholeInv'
<1>1. /\ dir \in versions /\ versions \subseteq Directories
      /\ Kept \subseteq Names /\ Temps \subseteq Names /\ Kept \cap Temps = {} /\ SeedTemps \subseteq Temps
      /\ Legacy \in Kept /\ \A r \in Kinds : Final(r) \in Kept /\ Final(r) # Legacy
      /\ \A r, s \in Kinds : Final(r) = Final(s) => r = s
  BY NameFacts DEF TypeOK
<1>2. CASE PowerLoss
  <2>1. /\ dir' \in versions /\ versions' = {dir'}
        /\ \A n \in Names : dir'[n] # NoInode =>
             /\ inode'[dir'[n]].synced
             /\ inode[dir'[n]].synced => inode'[dir'[n]].data = inode[dir'[n]].data
    BY <1>2, PowerLossEffect
  <2> QED BY <1>1, <2>1 DEF WholeInv
<1>3. ASSUME ~PowerLoss, versions' \subseteq versions \cup {dir'},
             \A n \in Kept : dir'[n] = dir[n] \/ dir'[n] = NoInode,
             dir \in versions'
      PROVE  WholeInv'
  <2>1. \A d \in versions, n \in Kept :
          d \in versions' /\ d[n] # NoInode => inode'[d[n]] = inode[d[n]]
    BY <1>3, RecordsKept
  <2>2. ASSUME NEW d \in versions'
        PROVE  \E e \in versions : e \in versions' /\ \A n \in Kept : d[n] = e[n] \/ d[n] = NoInode
    BY <1>1, <1>3
  <2>3. ASSUME NEW d \in versions', NEW n \in Kept, d[n] # NoInode
        PROVE  \E e \in versions : e[n] = d[n] /\ inode'[d[n]] = inode[e[n]]
    BY <2>1, <2>2, <2>3
  <2>4. ASSUME NEW d \in versions', NEW r \in Kinds, d[Final(r)] # NoInode
        PROVE  LET f == inode'[d[Final(r)]]
               IN  f.synced /\ f.data # Torn /\ (r = "control" => f.data \in Ids)
    <3>1. PICK e \in versions : e[Final(r)] = d[Final(r)] /\ inode'[d[Final(r)]] = inode[e[Final(r)]]
      BY <1>1, <2>3, <2>4
    <3> QED BY <2>4, <3>1 DEF WholeInv
  <2>5. ASSUME NEW d \in versions', d[Legacy] # NoInode
        PROVE  inode'[d[Legacy]].synced /\ inode'[d[Legacy]].data \in {LegacyId, Torn}
    <3>1. PICK e \in versions : e[Legacy] = d[Legacy] /\ inode'[d[Legacy]] = inode[e[Legacy]]
      BY <1>1, <2>3, <2>5
    <3> QED BY <2>5, <3>1 DEF WholeInv
  <2> QED BY <2>4, <2>5 DEF WholeInv
<1>4. ASSUME NEW p \in Procs, OpenTemp(p) \/ WriteFails(p), ~PowerLoss PROVE WholeInv'
  <2>1. /\ Temp(job[p].kind) \in Temps /\ versions' = versions \cup {dir'}
        /\ \A n \in Names \ {Temp(job[p].kind)} : dir'[n] = dir[n]
    BY <1>4, OpenEffect, WriteFailsEffect
  <2>2. \A n \in Kept : dir'[n] = dir[n]
    BY <1>1, <2>1
  <2> QED BY <1>1, <1>3, <1>4, <2>1, <2>2
<1>5. ASSUME NEW p \in Procs, WriteTemp(p) \/ SyncTemp(p) \/ Quiet(p), ~PowerLoss PROVE WholeInv'
  BY <1>1, <1>3, <1>5 DEF WriteTemp, SyncTemp, Quiet
<1>6. ASSUME NEW p \in Procs, RenameTemp(p) PROVE WholeInv'
  <2> DEFINE s == job[p].kind
             t == Temp(s)
  <2>1. /\ pc[p] = "rename" /\ s \in Kinds /\ t \in Temps /\ dir[t] # NoInode
        /\ dir'[Final(s)] = dir[t] /\ versions' = versions \cup {dir'}
        /\ \A n \in Names \ {t, Final(s)} : dir'[n] = dir[n]
        /\ inode' = inode
    BY <1>6, RenameEffect
  <2>2. /\ inode[dir[t]].synced /\ inode[dir[t]].data = job[p].value
    BY <2>1 DEF WriterInv
  <2>3. job[p].value # Torn /\ (s = "control" => job[p].value \in Ids)
    BY <2>1, WholeValue DEF Writing
  <2> HIDE DEF s, t
  <2>4. dir'[Legacy] = dir[Legacy] /\ \A r \in Kinds \ {s} : dir'[Final(r)] = dir[Final(r)]
    BY <1>1, <2>1
  <2>5. ASSUME NEW r \in Kinds, dir'[Final(r)] # NoInode
        PROVE  LET f == inode'[dir'[Final(r)]]
               IN  f.synced /\ f.data # Torn /\ (r = "control" => f.data \in Ids)
    <3>1. CASE r = s
      BY <2>1, <2>2, <2>3, <3>1
    <3>2. CASE r # s
      BY <1>1, <2>1, <2>4, <2>5, <3>2 DEF WholeInv
    <3> QED BY <3>1, <3>2
  <2>6. dir'[Legacy] # NoInode =>
          inode'[dir'[Legacy]].synced /\ inode'[dir'[Legacy]].data \in {LegacyId, Torn}
    BY <1>1, <2>1, <2>4 DEF WholeInv
  <2> QED BY <2>1, <2>5, <2>6 DEF WholeInv
<1>7. CASE (CleanOrphans \/ CleanLegacy) /\ ~PowerLoss
  <2>1. SetDir(Unlinked(SeedTemps)) \/ SetDir(Unlinked({Legacy}))
    BY <1>7 DEF CleanOrphans, CleanLegacy
  <2>2. /\ versions' = versions \cup {dir'}
        /\ \A n \in Names : dir'[n] = dir[n] \/ dir'[n] = NoInode
    BY <2>1 DEF SetDir, Unlinked
  <2> QED BY <1>1, <1>3, <1>7, <2>2
<1>8. ASSUME SyncNames, ~PowerLoss PROVE WholeInv'
  BY <1>1, <1>3, <1>8 DEF SyncNames
<1>9. (\E p \in Procs : SyncDir(p)) \/ SyncLegacy => SyncNames
  BY DEF SyncDir, SyncLegacy
<1> QED BY <1>2, <1>4, <1>5, <1>6, <1>7, <1>8, <1>9, StepKinds

\* WriterInv for one process.
WriterOk(p) ==
  LET i == dir[Temp(job[p].kind)]
  IN  /\ pc[p] \in Holding => i # NoInode
      /\ pc[p] \in {"write", "sync"} => job[p].fd = i
      /\ pc[p] \in {"sync", "rename"} => inode[i].data = job[p].value
      /\ pc[p] = "rename" => inode[i].synced

\* A step of one process that leaves the others' files alone keeps WriterInv.
LEMMA WriterKept ==
  ASSUME WriterInv, NEW p \in Procs, Others(p),
         \A q \in Procs \ {p} : pc[q] \in Holding =>
           LET t == Temp(job[q].kind)
           IN  /\ pid' = pid \/ job[q].kind = "control"
               /\ dir'[t] = dir[t] /\ inode'[dir[t]] = inode[dir[t]]
               /\ pc'[p] \in Holding => job[q].kind # job'[p].kind,
         pc'[p] \in Holding => WriterOk(p)'
  PROVE  WriterInv'
<1>1. ASSUME NEW q \in Procs, pc'[q] \in Holding PROVE WriterOk(q)'
  <2>1. CASE q = p
    BY <1>1, <2>1
  <2>2. CASE q # p
    <3>1. pc'[q] = pc[q] /\ job'[q] = job[q] /\ WriterOk(q)
      BY <2>2 DEF Others, WriterInv, WriterOk
    <3>2. Temp(job[q].kind)' = Temp(job[q].kind)
      BY <1>1, <2>2, <3>1 DEF Temp
    <3>3. /\ dir'[Temp(job[q].kind)] = dir[Temp(job[q].kind)]
          /\ inode'[dir[Temp(job[q].kind)]] = inode[dir[Temp(job[q].kind)]]
      BY <1>1, <2>2, <3>1
    <3> QED BY <3>1, <3>2, <3>3 DEF WriterOk
  <2> QED BY <2>1, <2>2
<1>2. ASSUME NEW q \in Procs, NEW x \in Procs, pc'[q] \in Holding, pc'[x] \in Holding,
             job'[q].kind = job'[x].kind
      PROVE  q = x
  BY <1>2 DEF Others, WriterInv
<1>3. ASSUME NEW q \in Procs, pc'[q] \notin Holding PROVE WriterOk(q)'
  BY <1>3 DEF WriterOk, Holding
<1>4. (\A q \in Procs : WriterOk(q))'
  BY <1>1, <1>3
<1> QED BY <1>2, <1>4 DEF WriterInv, WriterOk

\* Every step without contention keeps WriterInv.
LEMMA WriterStep ==
  ASSUME TypeOK, JobInv, NameInv, WriterInv, Next, ~contended'
  PROVE  WriterInv'
<1>1. /\ dir \in versions /\ dir \in Directories /\ Daemon \in Procs
      /\ Kept \subseteq Names /\ Temps \subseteq Names /\ Kept \cap Temps = {}
      /\ Legacy \in Kept /\ \A r \in Kinds : Final(r) \in Kept
      /\ \A q \in Procs : job[q].kind \in Kinds /\ Temp(job[q].kind) \in Temps
      /\ \A r, s \in Kinds : Temp(r) = Temp(s) => r = s
  BY NameFacts, TempFacts DEF TypeOK, Procs
<1>2. \A q \in Procs : pc[q] \in Holding /\ q # Daemon => job[q].kind = "control"
  BY DEF JobInv, UiJob, Procs, Holding, Writing
<1>3. \A q \in Procs : pc[q] \in Holding =>
        dir[Temp(job[q].kind)] # NoInode /\ dir[Temp(job[q].kind)] \in Inodes
  BY <1>1 DEF WriterInv, Directories
<1>4. ASSUME NEW p \in Procs, pc[p] \in Holding, NEW q \in Procs \ {p}, pc[q] \in Holding
      PROVE  /\ job[q].kind # job[p].kind /\ Temp(job[q].kind) # Temp(job[p].kind)
             /\ dir[Temp(job[q].kind)] # dir[Temp(job[p].kind)]
  BY <1>1, <1>3, <1>4 DEF WriterInv, NameInv
<1>5. ASSUME NEW p \in Procs, OpenTemp(p) PROVE WriterInv'
  <2> DEFINE t == Temp(job[p].kind)
  <2>1. /\ pc'[p] = "write" /\ SameJob(p) /\ job'[p].fd = dir'[t] /\ pid' = pid
        /\ t \in Temps /\ dir'[t] # NoInode
        /\ \A n \in Names \ {t} : dir'[n] = dir[n]
        /\ dir'[t] = dir[t] \/ \A d \in versions, n \in Names : d[n] # dir'[t]
        /\ \A i \in Inodes \ {dir'[t]} : inode'[i] = inode[i]
        /\ contended' = (contended \/ \E q \in Procs \ {p} : pc[q] \in Holding /\ Temp(job[q].kind) = t)
    BY <1>5, OpenEffect
  <2>2. ASSUME NEW q \in Procs \ {p}, pc[q] \in Holding
        PROVE  LET x == Temp(job[q].kind)
               IN  /\ dir'[x] = dir[x] /\ inode'[dir[x]] = inode[dir[x]]
                   /\ job[q].kind # job'[p].kind
    <3> DEFINE x == Temp(job[q].kind)
    <3>1. x # t /\ x \in Temps
      BY <1>1, <2>1, <2>2
    <3>2. job[q].kind # job'[p].kind
      BY <2>1, <3>1 DEF SameJob
    <3>3. dir[x] # NoInode /\ dir[x] \in Inodes
      BY <1>3, <2>2
    <3> HIDE DEF x, t
    <3>4. dir'[x] = dir[x]
      BY <1>1, <2>1, <3>1
    <3>5. dir[x] # dir'[t]
      BY <1>1, <2>1, <3>1, <3>3 DEF NameInv
    <3> QED BY <2>1, <3>2, <3>3, <3>4, <3>5 DEF x
  <2>3. Temp(job[p].kind)' = t
    BY <2>1 DEF SameJob, Temp
  <2>4. WriterOk(p)'
    BY <2>1, <2>3 DEF WriterOk
  <2>5. Others(p)
    BY <2>1 DEF SameJob
  <2> QED BY <2>1, <2>2, <2>4, <2>5, WriterKept
<1>6. ASSUME NEW p \in Procs, WriteTemp(p) \/ SyncTemp(p) PROVE WriterInv'
  <2> DEFINE t == Temp(job[p].kind)
  <2>1. pc[p] \in {"write", "sync"} /\ pc[p] \in Holding /\ dir' = dir /\ pid' = pid
    BY <1>6 DEF WriteTemp, SyncTemp, Goto, Holding
  <2>2. job[p].fd = dir[t] /\ dir[t] # NoInode /\ (pc[p] = "sync" => inode[dir[t]].data = job[p].value)
    BY <2>1 DEF WriterInv
  <2>3. /\ SameJob(p) /\ \A i \in Inodes \ {dir[t]} : inode'[i] = inode[i]
        /\ inode'[dir[t]].data = job[p].value
        /\ \/ pc'[p] = "sync"
           \/ pc'[p] = "rename" /\ inode'[dir[t]].synced
        /\ pc'[p] = "sync" => job'[p].fd = dir[t]
    <3>1. CASE WriteTemp(p)
      <4>1. /\ pc'[p] = "sync" /\ job'[p] = job[p] /\ Others(p)
            /\ inode'[dir[t]] = [data |-> job[p].value, synced |-> FALSE]
            /\ \A i \in Inodes \ {dir[t]} : inode'[i] = inode[i]
        BY <2>2, <3>1, WriteEffect
      <4> QED BY <2>2, <4>1 DEF SameJob
    <3>2. CASE SyncTemp(p)
      BY <2>2, <3>2, SyncEffect
    <3> QED BY <1>6, <3>1, <3>2
  <2>4. \A q \in Procs \ {p} : pc[q] \in Holding =>
          /\ inode'[dir[Temp(job[q].kind)]] = inode[dir[Temp(job[q].kind)]]
          /\ job[q].kind # job'[p].kind
    BY <1>3, <1>4, <2>1, <2>3 DEF SameJob
  <2>5. Temp(job[p].kind)' = t
    BY <2>1, <2>3 DEF SameJob, Temp
  <2>6. job'[p].value = job[p].value /\ Others(p)
    BY <2>3 DEF SameJob
  <2>7. WriterOk(p)'
    BY <2>1, <2>2, <2>3, <2>5, <2>6 DEF WriterOk
  <2> QED BY <2>1, <2>4, <2>6, <2>7, WriterKept
<1>7. ASSUME NEW p \in Procs, RenameTemp(p) PROVE WriterInv'
  <2> DEFINE s == job[p].kind
             t == Temp(s)
  <2>1. /\ pc[p] = "rename" /\ pc'[p] = "syncdir" /\ Others(p) /\ s \in Kinds /\ t \in Temps
        /\ \A n \in Names \ {t, Final(s)} : dir'[n] = dir[n]
        /\ UNCHANGED <<inode, pid>>
    BY <1>7, RenameEffect
  <2>2. pc[p] \in Holding /\ pc'[p] \notin Holding
    BY <2>1 DEF Holding
  <2>3. \A q \in Procs \ {p} : pc[q] \in Holding => Temp(job[q].kind) # t
    BY <1>4, <2>2
  <2> HIDE DEF s, t
  <2>4. \A q \in Procs \ {p} : pc[q] \in Holding => dir'[Temp(job[q].kind)] = dir[Temp(job[q].kind)]
    BY <1>1, <2>1, <2>3
  <2> QED BY <2>1, <2>2, <2>4, WriterKept
<1>8. ASSUME NEW p \in Procs, WriteFails(p) PROVE WriterInv'
  <2>1. /\ pc[p] \in Holding /\ pc'[p] = AfterFailure(p) /\ Others(p)
        /\ \A n \in Names \ {Temp(job[p].kind)} : dir'[n] = dir[n]
        /\ UNCHANGED <<inode, pid>>
    BY <1>8, WriteFailsEffect
  <2>2. pc'[p] \notin Holding
    BY <2>1 DEF Holding, AfterFailure
  <2>3. \A q \in Procs \ {p} : pc[q] \in Holding => dir'[Temp(job[q].kind)] = dir[Temp(job[q].kind)]
    BY <1>1, <1>4, <2>1
  <2> QED BY <2>1, <2>2, <2>3, WriterKept
<1>9. ASSUME NEW p \in Procs, Quiet(p) PROVE WriterInv'
  <2>1. /\ UNCHANGED <<dir, inode>> /\ Others(p) /\ pc'[p] \notin Holding
        /\ p # Daemon => pid' = pid
    BY <1>9 DEF Quiet
  <2> QED BY <1>2, <2>1, WriterKept
<1>10. ASSUME NEW p \in Procs, SyncNames, Others(p), pc'[p] \notin Holding, pid' = pid PROVE WriterInv'
  <2>1. dir' = dir /\ \A n \in Names : dir[n] \in Inodes => inode'[dir[n]] = inode[dir[n]]
    BY <1>10, SyncNamesEffect
  <2> QED BY <1>1, <1>3, <1>10, <2>1, WriterKept
<1>11. ASSUME NEW p \in Procs, SyncDir(p) PROVE WriterInv'
  <2>1. pc[p] = "syncdir" /\ pc'[p] = job[p].then /\ Others(p) /\ SyncNames /\ pid' = pid
    BY <1>11, ReportEffect DEF SyncDir
  <2>2. job[p].then \notin Holding
    BY <2>1 DEF JobInv, UiJob, DaemonJob, Writing, Procs, Holding
  <2> QED BY <1>10, <2>1, <2>2
<1>12. CASE SyncLegacy
  <2>1. pc'[Daemon] = "load" /\ Others(Daemon) /\ SyncNames /\ pid' = pid
    BY <1>1, <1>12, GotoEffect DEF SyncLegacy
  <2> QED BY <1>1, <1>10, <2>1 DEF Holding
<1>13. CASE CleanOrphans \/ CleanLegacy
  <2>1. /\ pc'[Daemon] \in {"fingerprint", "load", "syncLegacy"} /\ Others(Daemon)
        /\ UNCHANGED <<inode, pid>>
    BY <1>1, <1>13, GotoEffect DEF CleanOrphans, CleanLegacy
  <2>2. SetDir(Unlinked(SeedTemps)) \/ SetDir(Unlinked({Legacy}))
    BY <1>13 DEF CleanOrphans, CleanLegacy
  <2>3. "control" \in Kinds /\ Temp("control") \notin SeedTemps
    BY TempFacts DEF TypeOK, Kinds
  <2>4. \A q \in Procs \ {Daemon} : pc[q] \in Holding =>
          /\ Temp(job[q].kind) \in Names /\ Temp(job[q].kind) \notin SeedTemps
          /\ Temp(job[q].kind) # Legacy
    BY <1>1, <1>2, <2>3
  <2>5. \A q \in Procs \ {Daemon} : pc[q] \in Holding => dir'[Temp(job[q].kind)] = dir[Temp(job[q].kind)]
    BY <2>2, <2>4 DEF SetDir, Unlinked
  <2> QED BY <1>1, <2>1, <2>5, WriterKept DEF Holding
<1>14. CASE PowerLoss
  <2>1. \A p \in Procs : pc'[p] \notin Holding
    BY <1>14, PowerLossEffect DEF Down, Holding
  <2> QED BY <2>1 DEF WriterInv, Holding
<1> QED BY <1>5, <1>6, <1>7, <1>8, <1>9, <1>11, <1>12, <1>13, <1>14, StepKinds

-----------------------------------------------------------------------------
(* What is read.                                                           *)

\* How a process gets to where it holds a file, has renamed it, or verifies.
LEMMA Arrivals ==
  ASSUME TypeOK, JobInv, Next, NEW q \in Procs
  PROVE  /\ pc'[q] = "syncdir" => \/ pc[q] = "syncdir" /\ job'[q] = job[q]
                                  \/ RenameTemp(q)
         /\ pc'[q] \in {"verifySeed", "verifyControl"} =>
              pc[q] \in {"syncdir", "verifySeed", "verifyControl"} /\ job'[q] = job[q]
         /\ pc'[q] \in Holding \cup {"syncdir"} =>
              \/ /\ pc[q] \in Holding \cup {"syncdir"}
                 /\ job'[q].kind = job[q].kind /\ job'[q].value = job[q].value
              \/ OpenTemp(q)
<1> DEFINE Goal == /\ pc'[q] = "syncdir" => \/ pc[q] = "syncdir" /\ job'[q] = job[q]
                                            \/ RenameTemp(q)
                   /\ pc'[q] \in {"verifySeed", "verifyControl"} =>
                        pc[q] \in {"syncdir", "verifySeed", "verifyControl"} /\ job'[q] = job[q]
                   /\ pc'[q] \in Holding \cup {"syncdir"} =>
                        \/ /\ pc[q] \in Holding \cup {"syncdir"}
                           /\ job'[q].kind = job[q].kind /\ job'[q].value = job[q].value
                        \/ OpenTemp(q)
<1>1. ASSUME NEW p \in Procs, Others(p), q # p PROVE Goal
  BY <1>1 DEF Others
<1>2. Daemon \in Procs
  BY DEF Procs
<1>3. ASSUME NEW p \in Procs, OpenTemp(p) PROVE Goal
  <2>1. Others(p) /\ pc'[p] = "write"
    BY <1>3, OpenEffect DEF SameJob
  <2> QED BY <1>1, <1>3, <2>1
<1>4. ASSUME NEW p \in Procs, WriteTemp(p) PROVE Goal
  <2>1. Others(p) /\ pc[p] = "write" /\ pc'[p] = "sync" /\ job'[p] = job[p]
    BY <1>4, GotoEffect DEF WriteTemp
  <2> QED BY <1>1, <2>1 DEF Holding
<1>5. ASSUME NEW p \in Procs, SyncTemp(p) PROVE Goal
  <2>1. /\ pc[p] = "sync" /\ pc'[p] = "rename" /\ job'[p].kind = job[p].kind
        /\ job'[p].value = job[p].value /\ Others(p)
    BY <1>5 DEF SyncTemp, Goto, Others, TypeOK
  <2> QED BY <1>1, <2>1 DEF Holding
<1>6. ASSUME NEW p \in Procs, RenameTemp(p) PROVE Goal
  <2>1. Others(p) /\ pc[p] = "rename" /\ pc'[p] = "syncdir" /\ job'[p] = job[p]
    BY <1>6, RenameEffect
  <2> QED BY <1>1, <1>6, <2>1 DEF Holding
<1>7. ASSUME NEW p \in Procs, WriteFails(p) PROVE Goal
  <2>1. Others(p) /\ pc'[p] = AfterFailure(p)
    BY <1>7, WriteFailsEffect
  <2> QED BY <1>1, <2>1 DEF Holding, AfterFailure
<1>8. ASSUME NEW p \in Procs, SyncDir(p) PROVE Goal
  <2>1. /\ pc[p] = "syncdir" /\ pc'[p] = job[p].then /\ Others(p)
        /\ pc'[p] \in {"verifySeed", "verifyControl"} => job'[p] = job[p]
    BY <1>8, ReportEffect DEF SyncDir
  <2>2. job[p].then \notin Holding \cup {"syncdir"}
    BY <2>1 DEF JobInv, UiJob, DaemonJob, Writing, Procs, Holding
  <2> QED BY <1>1, <2>1, <2>2
<1>9. CASE CleanOrphans \/ CleanLegacy \/ SyncLegacy
  <2>1. pc'[Daemon] \in {"fingerprint", "load", "syncLegacy"} /\ Others(Daemon)
    BY <1>2, <1>9, GotoEffect DEF CleanOrphans, CleanLegacy, SyncLegacy
  <2> QED BY <1>1, <1>2, <2>1 DEF Holding
<1>10. CASE PowerLoss
  <2>1. pc'[q] \in {"off", "idle"}
    BY <1>10, PowerLossEffect DEF Down
  <2> QED BY <2>1 DEF Holding
<1>11. ASSUME NEW p \in Procs, Quiet(p) PROVE Goal
  BY <1>1, <1>11 DEF Quiet
<1>12. Goal
  BY <1>3, <1>4, <1>5, <1>6, <1>7, <1>8, <1>9, <1>10, <1>11, StepKinds
<1> QED BY <1>12

\* Only a rename gives a record another file, only the cleanup takes the v2
\* record's.
LEMMA KeptNames ==
  ASSUME TypeOK, JobInv, Next
  PROVE  \/ PowerLoss
         \/ /\ dir \in versions'
            /\ \A r \in Kinds : \/ dir'[Final(r)] = dir[Final(r)]
                                \/ \E p \in Procs : RenameTemp(p) /\ job[p].kind = r
            /\ dir'[Legacy] = dir[Legacy] \/ CleanLegacy
<1>1. /\ dir \in versions /\ Kept \subseteq Names /\ Legacy \in Kept
      /\ \A r \in Kinds : Final(r) \in Kept /\ Final(r) # Legacy
      /\ Kept \cap Temps = {} /\ SeedTemps \subseteq Temps /\ Temps \subseteq Names
      /\ \A r, s \in Kinds : Final(r) = Final(s) => r = s
  BY NameFacts DEF TypeOK
<1>2. ASSUME NEW p \in Procs, OpenTemp(p) \/ WriteFails(p)
      PROVE  versions' = versions \cup {dir'} /\ \A n \in Kept : dir'[n] = dir[n]
  <2>1. /\ Temp(job[p].kind) \in Temps /\ versions' = versions \cup {dir'}
        /\ \A n \in Names \ {Temp(job[p].kind)} : dir'[n] = dir[n]
    BY <1>2, OpenEffect, WriteFailsEffect
  <2> QED BY <1>1, <2>1
<1>3. ASSUME NEW p \in Procs, WriteTemp(p) \/ SyncTemp(p) \/ Quiet(p)
      PROVE  UNCHANGED <<dir, versions>>
  BY <1>3 DEF WriteTemp, SyncTemp, Quiet
<1>4. ASSUME NEW p \in Procs, RenameTemp(p)
      PROVE  /\ dir \in versions' /\ dir'[Legacy] = dir[Legacy]
             /\ \A r \in Kinds : dir'[Final(r)] = dir[Final(r)] \/ job[p].kind = r
  <2> DEFINE s == job[p].kind
             t == Temp(s)
  <2>1. /\ t \in Temps /\ s \in Kinds /\ versions' = versions \cup {dir'}
        /\ \A n \in Names \ {t, Final(s)} : dir'[n] = dir[n]
    BY <1>4, RenameEffect
  <2> HIDE DEF s, t
  <2> QED BY <1>1, <2>1 DEF s
<1>5. CASE CleanOrphans
  <2>1. SetDir(Unlinked(SeedTemps))
    BY <1>5 DEF CleanOrphans
  <2>2. dir \in versions' /\ \A n \in Kept : dir'[n] = dir[n]
    BY <1>1, <2>1 DEF SetDir, Unlinked
  <2> QED BY <1>1, <2>2
<1>6. CASE CleanLegacy
  <2>1. SetDir(Unlinked({Legacy}))
    BY <1>6 DEF CleanLegacy
  <2>2. dir \in versions' /\ \A n \in Kept \ {Legacy} : dir'[n] = dir[n]
    BY <1>1, <2>1 DEF SetDir, Unlinked
  <2> QED BY <1>1, <1>6, <2>2
<1>7. (\E p \in Procs : SyncDir(p)) \/ SyncLegacy => dir \in versions' /\ dir' = dir
  BY DEF SyncDir, SyncLegacy, SyncNames
<1> QED BY <1>1, <1>2, <1>3, <1>4, <1>5, <1>6, <1>7, StepKinds

\* Only a rename changes what is read, only the cleanup takes the v2 record.
LEMMA ReadsKept ==
  ASSUME TypeOK, JobInv, NameInv, WriterInv, Next
  PROVE  \/ PowerLoss
         \/ /\ \A r \in Kinds : \/ dir'[Final(r)] = dir[Final(r)] /\ Read(r)' = Read(r)
                                \/ \E p \in Procs : RenameTemp(p) /\ job[p].kind = r
            /\ \/ dir'[Legacy] = dir[Legacy] /\ Content(dir[Legacy])' = Content(dir[Legacy])
               \/ CleanLegacy
<1> SUFFICES ASSUME ~PowerLoss
             PROVE  /\ \A r \in Kinds : \/ dir'[Final(r)] = dir[Final(r)] /\ Read(r)' = Read(r)
                                        \/ \E p \in Procs : RenameTemp(p) /\ job[p].kind = r
                    /\ \/ dir'[Legacy] = dir[Legacy] /\ Content(dir[Legacy])' = Content(dir[Legacy])
                       \/ CleanLegacy
  OBVIOUS
<1>1. /\ dir \in versions /\ dir \in versions'
      /\ Legacy \in Kept /\ \A r \in Kinds : Final(r) \in Kept
  BY NameFacts, KeptNames DEF TypeOK
<1>2. ASSUME NEW n \in Kept, dir'[n] = dir[n] PROVE Content(dir[n])' = Content(dir[n])
  <2>1. dir[n] # NoInode => inode'[dir[n]] = inode[dir[n]]
    BY <1>1, RecordsKept
  <2> QED BY <1>2, <2>1 DEF Content
<1> QED BY <1>1, <1>2, KeptNames DEF Read

\* What is renamed is what is written.
LEMMA RenameRead ==
  ASSUME TypeOK, JobInv, WriterInv, NEW p \in Procs, RenameTemp(p), NEW r \in Kinds, job[p].kind = r
  PROVE  Read(r)' = job[p].value /\ dir'[Final(r)] # NoInode
<1>1. /\ pc[p] = "rename" /\ dir[Temp(r)] # NoInode /\ dir'[Final(r)] = dir[Temp(r)]
      /\ inode' = inode
  BY RenameEffect
<1>2. inode[dir[Temp(r)]].data = job[p].value
  BY <1>1 DEF WriterInv
<1> QED BY <1>1, <1>2 DEF Read, Content

\* Every step keeps ReadInv: the daemon and the WebUI do not replace the same
\* record at the same time.
LEMMA ReadStep ==
  ASSUME TypeOK, JobInv, SoloInv, NameInv, WriterInv, ReadInv, Next
  PROVE  ReadInv'
<1>1. Daemon \in Procs /\ Uis \subseteq Procs /\ Daemon \notin Uis /\ "control" \in Kinds
  BY ProcessAssumption DEF Procs, Kinds
<1>2. /\ \A u \in Uis : pc[u] \in Writing => job[u].kind = "control" /\ job[u].value \in ChosenIds
      /\ \A q \in Procs : job[q].kind \in Kinds
  BY <1>1 DEF JobInv, UiJob, TypeOK
<1>3. CASE PowerLoss
  <2>1. \A p \in Procs : pc'[p] \in {"off", "idle"}
    BY <1>3, PowerLossEffect DEF Down
  <2> QED BY <1>1, <2>1 DEF ReadInv
<1>4. CASE ~PowerLoss
  <2>1. ASSUME NEW u \in Uis, pc'[u] = "syncdir" PROVE Read("control")' \in ChosenIds
    <3>1. pc[u] = "syncdir" \/ RenameTemp(u)
      BY <1>1, <2>1, Arrivals
    <3>2. pc[u] # "idle" /\ pc[u] \in Writing
      BY <3>1 DEF RenameTemp, Goto, Writing
    <3>3. CASE \E p \in Procs : RenameTemp(p) /\ job[p].kind = "control"
      <4>1. PICK p \in Procs : RenameTemp(p) /\ job[p].kind = "control"
        BY <3>3
      <4>2. p # Daemon
        BY <3>2, <4>1 DEF RenameTemp, Goto, SoloInv, Writing
      <4>3. p \in Uis /\ pc[p] \in Writing
        BY <4>1, <4>2 DEF Procs, RenameTemp, Goto, Writing
      <4> QED BY <1>1, <1>2, <4>1, <4>3, RenameRead
    <3>4. CASE ~\E p \in Procs : RenameTemp(p) /\ job[p].kind = "control"
      <4>1. Read("control")' = Read("control")
        BY <1>1, <1>4, <3>4, ReadsKept
      <4>2. pc[u] = "syncdir"
        BY <1>1, <1>2, <3>1, <3>2, <3>4
      <4> QED BY <4>1, <4>2 DEF ReadInv
    <3> QED BY <3>3, <3>4
  <2>2. ASSUME pc'[Daemon] \in {"syncdir", "verifySeed", "verifyControl"}
        PROVE  (Read(job[Daemon].kind) = job[Daemon].value)'
    <3>0. PICK r \in Kinds : r = job[Daemon].kind
      BY <1>1, <1>2
    <3>1. CASE RenameTemp(Daemon)
      <4>1. Read(r)' = job[Daemon].value /\ job'[Daemon] = job[Daemon]
        BY <1>1, <3>0, <3>1, RenameRead, RenameEffect
      <4> QED BY <3>0, <4>1 DEF Read
    <3>2. CASE ~RenameTemp(Daemon)
      <4>1. /\ pc[Daemon] \in {"syncdir", "verifySeed", "verifyControl"}
            /\ job'[Daemon] = job[Daemon]
        BY <1>1, <2>2, <3>2, Arrivals
      <4>2. pc[Daemon] = "verifySeed" => r = "seed"
        BY <3>0 DEF JobInv
      <4>3. ASSUME NEW p \in Procs, RenameTemp(p), job[p].kind = r PROVE FALSE
        <5>1. p \in Uis /\ pc[p] = "rename"
          BY <3>2, <4>3 DEF Procs, RenameTemp, Goto
        <5>2. r = "control"
          BY <1>2, <4>3, <5>1 DEF Writing
        <5>3. (pc[Daemon] \in Writing /\ job[Daemon].kind = "control") \/ pc[Daemon] = "verifyControl"
          BY <3>0, <4>1, <4>2, <5>2 DEF Writing
        <5> QED BY <5>1, <5>3 DEF SoloInv
      <4>4. Read(r)' = Read(r)
        BY <1>1, <1>2, <1>4, <4>3, ReadsKept
      <4> QED BY <3>0, <4>1, <4>4 DEF ReadInv, Read
    <3> QED BY <3>1, <3>2
  <2> QED BY <2>1, <2>2 DEF ReadInv
<1> QED BY <1>3, <1>4

\* The daemon goes to clean up only from a finished migration.
LEMMA CleanupArrival ==
  ASSUME TypeOK, JobInv, Next, pc'[Daemon] = "cleanup"
  PROVE  /\ ~PowerLoss
         /\ \/ pc[Daemon] = "cleanup" /\ ~CleanLegacy
            \/ Migrate \/ VerifyControl
<1>1. Daemon \in Procs
  BY DEF Procs
<1>2. ~PowerLoss
  BY <1>1, PowerLossEffect DEF Down
<1>3. ASSUME NEW p \in Procs, Others(p), p # Daemon PROVE pc[Daemon] = "cleanup" /\ ~CleanLegacy
  <2>1. pc[Daemon] = "cleanup"
    BY <1>1, <1>3 DEF Others
  <2>2. ~CleanLegacy
    BY <1>1, <2>1, GotoEffect DEF CleanLegacy
  <2> QED BY <2>1, <2>2
<1>4. ASSUME NEW p \in Procs, Replacing(p) PROVE pc[Daemon] = "cleanup" /\ ~CleanLegacy
  <2>1. CASE OpenTemp(p)
    <3>1. pc'[p] = "write" /\ Others(p)
      BY <2>1, OpenEffect DEF SameJob
    <3> QED BY <1>3, <3>1
  <2>2. CASE WriteTemp(p) \/ SyncTemp(p) \/ RenameTemp(p)
    <3>1. pc'[p] \in {"sync", "rename", "syncdir"} /\ Others(p)
      BY <2>2 DEF WriteTemp, SyncTemp, RenameTemp, Goto, Others, TypeOK
    <3> QED BY <1>3, <3>1
  <2>3. CASE Fail(p)
    <3>1. pc'[p] # "cleanup" /\ Others(p)
      BY <2>3, FailEffect DEF AfterFailure
    <3> QED BY <1>3, <3>1
  <2>4. CASE Report(p)
    <3>1. pc[p] = "syncdir" /\ pc'[p] = job[p].then /\ Others(p)
      BY <2>4, ReportEffect
    <3>2. job[p].then # "cleanup"
      BY <3>1 DEF JobInv, UiJob, DaemonJob, Writing, Procs
    <3> QED BY <1>3, <3>1, <3>2
  <2> QED BY <1>4, <2>1, <2>2, <2>3, <2>4
          DEF Replacing, OpenFails, WriteFails, SyncDir, SyncDirFails
<1>5. ASSUME NEW u \in Uis, NEW id \in ChosenIds, Apply(u, id)
      PROVE  pc[Daemon] = "cleanup" /\ ~CleanLegacy
  BY <1>3, <1>5, BeginEffect, ProcessAssumption DEF Apply, Procs
<1>6. ASSUME NEW p \in Procs, Kill(p) PROVE pc[Daemon] = "cleanup" /\ ~CleanLegacy
  <2>1. pc'[p] = Down[p] /\ Others(p)
    BY <1>6 DEF Kill, Others, TypeOK
  <2> QED BY <1>3, <2>1 DEF Down
<1>7. ASSUME Starting PROVE Migrate \/ VerifyControl
  BY <1>1, <1>7 DEF Starting, StartDaemon, CleanOrphans, CaptureFingerprint, LoadSeed, VerifySeed,
       VerifyControl, Verify, Migrate, CleanLegacy, SyncLegacy, CleanupFails, LoadControl, ReadFails,
       Goto, Begin, TypeOK
<1> QED BY <1>2, <1>4, <1>5, <1>6, <1>7 DEF Next

\* Every step keeps CleanInv: a migration ends with a control record, or has
\* none to make.
LEMMA CleanStep ==
  ASSUME TypeOK, JobInv, NameInv, WholeInv, WriterInv, ReadInv, CleanInv, Next
  PROVE  CleanInv'
<1> SUFFICES ASSUME pc'[Daemon] = "cleanup"
             PROVE  dir'[Final("control")] # NoInode \/ dir'[Legacy] = NoInode
  BY DEF CleanInv
<1>1. /\ "control" \in Kinds /\ Final("control") \in Names /\ Legacy \in Names /\ Daemon \in Procs
      /\ dir \in versions
  BY NameFacts DEF Kinds, Procs, TypeOK
<1>2. CASE pc[Daemon] = "cleanup" /\ ~CleanLegacy /\ ~PowerLoss
  <2>1. dir[Final("control")] # NoInode \/ dir[Legacy] = NoInode
    BY <1>2 DEF CleanInv
  <2>2. dir'[Legacy] = dir[Legacy]
    BY <1>2, KeptNames
  <2>3. dir'[Final("control")] = dir[Final("control")] \/ dir'[Final("control")] # NoInode
    BY <1>1, <1>2, KeptNames, RenameEffect
  <2> QED BY <2>1, <2>2, <2>3
<1>3. CASE Migrate
  <2>1. dir' = dir /\ ~(Read("control") = Absent /\ Content(dir[Legacy]) \in {LegacyId, Torn})
    <3>1. CASE Read("control") = Absent /\ Content(dir[Legacy]) = LegacyId
      BY <1>1, <1>3, <3>1, BeginEffect DEF Migrate
    <3>2. CASE ~(Read("control") = Absent /\ Content(dir[Legacy]) = LegacyId)
      <4>1. pc'[Daemon] = IF Read("control") = Torn \/ (Read("control") = Absent /\ Content(dir[Legacy]) = Torn)
                            THEN "failed" ELSE "cleanup"
        BY <1>1, <1>3, <3>2, GotoEffect DEF Migrate
      <4> QED BY <1>3, <3>2, <4>1 DEF Migrate, fs
    <3> QED BY <3>1, <3>2
  <2>2. Read("control") = Absent <=> dir[Final("control")] = NoInode
    BY <1>1, ReadAbsent DEF Read
  <2>3. dir[Legacy] # NoInode => Content(dir[Legacy]) \in {LegacyId, Torn}
    BY <1>1 DEF WholeInv, Content
  <2> QED BY <2>1, <2>2, <2>3
<1>4. CASE VerifyControl
  <2>1. pc[Daemon] = "verifyControl" /\ dir' = dir
    BY <1>4 DEF VerifyControl, Verify, Goto, fs
  <2>2. Read("control") = LegacyId
    BY <2>1 DEF ReadInv, JobInv
  <2>3. LegacyId # Absent
    BY RecordAssumption DEF Ids
  <2> QED BY <1>1, <2>1, <2>2, <2>3, ReadAbsent DEF Read
<1> QED BY <1>2, <1>3, <1>4, CleanupArrival

-----------------------------------------------------------------------------
(* What was reported, and what survives.                                   *)

\* Only a report, or a power loss, changes what was reported.
LEMMA Reports ==
  ASSUME TypeOK, Next, ~PowerLoss, NEW r \in Kinds
  PROVE  \/ acked'[r] = acked[r] /\ attempted[r] \subseteq attempted'[r]
         \/ \E p \in Procs : /\ Report(p) /\ job[p].kind = r
                             /\ SyncDir(p) \/ SyncDirFails(p)
<1> USE DEF history
<1>1. ASSUME NEW p \in Procs, Replacing(p), ~OpenTemp(p), ~Report(p)
      PROVE  acked' = acked /\ attempted' = attempted
  BY <1>1 DEF Replacing, OpenFails, WriteTemp, SyncTemp, RenameTemp, WriteFails, SyncDir, SyncDirFails
<1>2. ASSUME NEW p \in Procs, OpenTemp(p)
      PROVE  acked' = acked /\ attempted[r] \subseteq attempted'[r]
  BY <1>2, OpenEffect
<1>3. ASSUME NEW p \in Procs, Report(p), job[p].kind # r
      PROVE  acked'[r] = acked[r] /\ attempted'[r] = attempted[r]
  BY <1>3, ReportEffect
<1>4. ASSUME NEW p \in Procs, Replacing(p), ~OpenTemp(p), Report(p) PROVE SyncDir(p) \/ SyncDirFails(p)
  <2>1. pc[p] = "syncdir"
    BY <1>4, ReportEffect
  <2> QED BY <1>4, <2>1 DEF Replacing, OpenFails, WriteTemp, SyncTemp, RenameTemp, WriteFails, Goto
<1>5. ASSUME Starting PROVE acked' = acked /\ attempted' = attempted
  BY <1>5 DEF Starting, StartDaemon, CleanOrphans, CaptureFingerprint, LoadSeed, VerifySeed,
       VerifyControl, Verify, Migrate, CleanLegacy, SyncLegacy, CleanupFails, LoadControl, ReadFails
<1>6. ASSUME \/ \E u \in Uis, id \in ChosenIds : Apply(u, id)
             \/ \E p \in Procs : Kill(p)
      PROVE  acked' = acked /\ attempted' = attempted
  BY <1>6 DEF Apply, Kill
<1> QED BY <1>1, <1>2, <1>3, <1>4, <1>5, <1>6 DEF Next

\* Every step keeps AttemptInv: a report of one writer does not forget what
\* another one is writing.
LEMMA AttemptStep ==
  ASSUME TypeOK, JobInv, AttemptInv, Next
  PROVE  AttemptInv'
<1> SUFFICES ASSUME NEW q \in Procs, pc'[q] \in Holding \cup {"syncdir"}
             PROVE  job'[q].value \in attempted'[job'[q].kind]
  BY DEF AttemptInv
<1>1. CASE OpenTemp(q)
  <2>1. /\ job'[q].value = job[q].value /\ job'[q].kind = job[q].kind
        /\ job[q].value \in attempted'[job[q].kind]
    BY <1>1, OpenEffect DEF SameJob
  <2> QED BY <2>1
<1>2. CASE ~OpenTemp(q)
  <2>1. /\ pc[q] \in Holding \cup {"syncdir"}
        /\ job'[q].kind = job[q].kind /\ job'[q].value = job[q].value
    BY <1>2, Arrivals
  <2>2. PICK r \in Kinds : r = job[q].kind
    BY DEF TypeOK
  <2>3. job[q].value \in attempted[r]
    BY <2>1, <2>2 DEF AttemptInv
  <2>4. ~PowerLoss
    BY PowerLossEffect DEF Down, Holding
  <2>5. CASE \E p \in Procs : Report(p) /\ job[p].kind = r
    <3>1. PICK p \in Procs : Report(p) /\ job[p].kind = r
      BY <2>5
    <3>2. /\ pc[p] = "syncdir" /\ pc'[p] = job[p].then
          /\ attempted'[r] = {job[x].value : x \in {y \in Procs \ {p} :
                                 pc[y] \in Writing \ {"open"} /\ job[y].kind = r}}
      BY <3>1, ReportEffect
    <3>3. p # q
      <4>1. job[p].then \notin Holding \cup {"syncdir"}
        BY <3>2 DEF JobInv, UiJob, DaemonJob, Writing, Procs, Holding
      <4> QED BY <3>2, <4>1
    <3>4. pc[q] \in Writing \ {"open"}
      BY <2>1 DEF Writing, Holding
    <3> QED BY <2>1, <2>2, <3>2, <3>3, <3>4
  <2>6. CASE ~\E p \in Procs : Report(p) /\ job[p].kind = r
    BY <2>1, <2>2, <2>3, <2>4, <2>6, Reports
  <2> QED BY <2>5, <2>6
<1> QED BY <1>1, <1>2

\* What a start finds for record r in a directory with whole records.
Held(r, d) == Content(IF r = "control" /\ d[Final(r)] = NoInode THEN d[Legacy] ELSE d[Final(r)])

\* Nothing else may be recovered.
LEMMA RecoveredHeld ==
  ASSUME TypeOK, WholeInv, NEW d \in versions, NEW r \in Kinds
  PROVE  Recovered(r, d) = {Held(r, d)}
BY DEF WholeInv, Recovered, Held, Possible, Content

\* Nor after a step.
LEMMA RecoveredHeldNext ==
  ASSUME WholeInv', NEW r \in Kinds, NEW d \in versions'
  PROVE  Recovered(r, d)' = {Held(r, d)'}
BY DEF WholeInv, Recovered, Held, Possible, Content

\* The directories that stay hold what they held.
LEMMA HeldKept ==
  ASSUME TypeOK, JobInv, NameInv, WriterInv, Next, ~PowerLoss,
         NEW d \in versions, d \in versions', NEW r \in Kinds
  PROVE  Held(r, d)' = Held(r, d)
<1>1. Legacy \in Kept /\ Final(r) \in Kept
  BY NameFacts
<1>2. \A n \in Kept : d[n] # NoInode => inode'[d[n]] = inode[d[n]]
  BY RecordsKept
<1> QED BY <1>1, <1>2 DEF Held, Content

\* Every step keeps NowInv.
LEMMA NowStep ==
  ASSUME TypeOK, JobInv, SoloInv, NameInv, AttemptInv, WholeInv, WriterInv, CleanInv, NowInv, Next,
         TypeOK', WholeInv'
  PROVE  NowInv'
<1>1. dir' \in versions' /\ dir \in versions
  BY DEF TypeOK
<1> SUFFICES ASSUME NEW r \in Kinds PROVE (Held(r, dir) \in attempted[r] \cup {acked[r]})'
  <2>1. \A r \in Kinds : (Recovered(r, dir) = {Held(r, dir)})'
    BY <1>1 DEF WholeInv, Recovered, Held, Possible, Content
  <2> QED BY <2>1 DEF NowInv
<1>2. Held(r, dir) \in attempted[r] \cup {acked[r]}
  BY <1>1, RecoveredHeld DEF NowInv
<1>3. CASE PowerLoss
  <2>1. acked'[r] = LET i == IF r = "control" /\ dir'[Final(r)] = NoInode
                               THEN dir'[Legacy] ELSE dir'[Final(r)]
                    IN  IF i = NoInode THEN Absent ELSE inode'[i].data
    BY <1>3, PowerLossEffect
  <2> QED BY <2>1 DEF Held, Content
<1>4. ASSUME NEW p \in Procs, RenameTemp(p), job[p].kind = r, ~PowerLoss
      PROVE  (Held(r, dir) \in attempted[r] \cup {acked[r]})'
  <2>1. pc[p] = "rename" /\ attempted' = attempted
    BY <1>4, RenameEffect
  <2>2. job[p].value \in attempted[r]
    BY <1>4, <2>1 DEF AttemptInv, Holding
  <2>3. Read(r)' = job[p].value /\ dir'[Final(r)] # NoInode
    BY <1>4, RenameRead
  <2> QED BY <2>1, <2>2, <2>3 DEF Held, Read
<1>5. ASSUME NEW p \in Procs, Report(p), job[p].kind = r, SyncDir(p) \/ SyncDirFails(p), ~PowerLoss
      PROVE  (Held(r, dir) \in attempted[r] \cup {acked[r]})'
  <2>1. pc[p] = "syncdir" /\ acked'[r] = Read(r)
    BY <1>5, ReportEffect
  <2>2. dir[Final(r)] # NoInode
    BY <1>5, <2>1 DEF SoloInv
  <2>3. dir' = dir
    BY <1>5 DEF SyncDir, SyncNames, SyncDirFails, fs
  <2>4. Final(r) \in Kept /\ dir \in versions'
    BY <1>1, <2>3, NameFacts
  <2>5. inode'[dir[Final(r)]] = inode[dir[Final(r)]]
    BY <1>1, <1>5, <2>2, <2>4, RecordsKept
  <2>6. Held(r, dir)' = Read(r)
    BY <2>2, <2>3, <2>5 DEF Held, Read, Content
  <2> QED BY <2>1, <2>6
<1>6. ASSUME ~PowerLoss, ~\E p \in Procs : RenameTemp(p) /\ job[p].kind = r,
             ~\E p \in Procs : Report(p) /\ job[p].kind = r /\ (SyncDir(p) \/ SyncDirFails(p))
      PROVE  (Held(r, dir) \in attempted[r] \cup {acked[r]})'
  <2>1. acked'[r] = acked[r] /\ attempted[r] \subseteq attempted'[r]
    BY <1>6, Reports
  <2>2. dir'[Final(r)] = dir[Final(r)] /\ Read(r)' = Read(r)
    BY <1>6, ReadsKept
  <2>3. CASE dir'[Legacy] = dir[Legacy] /\ Content(dir[Legacy])' = Content(dir[Legacy])
    <3>1. Held(r, dir)' = Held(r, dir)
      BY <2>2, <2>3 DEF Held, Read
    <3> QED BY <1>2, <2>1, <3>1
  <2>4. CASE CleanLegacy
    <3>1. r = "control" => dir[Final(r)] # NoInode \/ dir[Legacy] = NoInode
      BY <2>4 DEF CleanInv, CleanLegacy, Goto
    <3>2. dir'[Legacy] = NoInode
      <4>1. SetDir(Unlinked({Legacy})) /\ Legacy \in Names
        BY <2>4, NameFacts DEF CleanLegacy
      <4> QED BY <4>1 DEF SetDir, Unlinked
    <3>3. Held(r, dir)' = Held(r, dir)
      BY <2>2, <3>1, <3>2 DEF Held, Read, Content
    <3> QED BY <1>2, <2>1, <3>3
  <2> QED BY <1>6, <2>3, <2>4, ReadsKept
<1> QED BY <1>3, <1>4, <1>5, <1>6

\* Without a power loss, a directory sync, or a sync that is missing, the
\* directories that could be left still can, and one may be added.
LEMMA VersionStep ==
  ASSUME TypeOK, JobInv, Next
  PROVE  \/ versions' = {dir'}
         \/ /\ ~PowerLoss /\ versions' \subseteq versions \cup {dir'}
            /\ ~lossy' => /\ ~lossy
                          /\ \A r \in Kinds : acked'[r] = acked[r] /\ attempted[r] \subseteq attempted'[r]
<1> USE DEF history
<1> SUFFICES ASSUME versions' # {dir'}
             PROVE  /\ ~PowerLoss /\ versions' \subseteq versions \cup {dir'}
                    /\ ~lossy' => /\ ~lossy
                                  /\ \A r \in Kinds : acked'[r] = acked[r] /\ attempted[r] \subseteq attempted'[r]
  OBVIOUS
<1>1. ~PowerLoss /\ versions' \subseteq versions \cup {dir'}
  BY DirStep, PowerLossEffect
<1>2. ~\E p \in Procs : SyncDir(p)
  BY DEF SyncDir, SyncNames
<1>3. ~SyncLegacy
  BY DEF SyncLegacy, SyncNames
<1>4. ASSUME NEW p \in Procs, SyncDirFails(p) PROVE lossy'
  BY <1>4 DEF SyncDirFails
<1>5. ASSUME ~lossy', NEW r \in Kinds
      PROVE  acked'[r] = acked[r] /\ attempted[r] \subseteq attempted'[r]
  BY <1>1, <1>2, <1>4, <1>5, Reports
<1>6. ASSUME ~lossy' PROVE ~lossy
  <2>1. ASSUME NEW p \in Procs, Replacing(p) PROVE ~lossy
    BY <1>2, <1>6, <2>1 DEF Replacing, OpenTemp, OpenFails, WriteTemp, SyncTemp, RenameTemp,
         WriteFails, SyncDirFails
  <2>2. ASSUME Starting PROVE ~lossy
    BY <1>3, <1>6, <2>2 DEF Starting, StartDaemon, CleanOrphans, CaptureFingerprint, LoadSeed,
         VerifySeed, VerifyControl, Verify, Migrate, CleanLegacy, CleanupFails, LoadControl, ReadFails
  <2>3. ASSUME \/ \E u \in Uis, id \in ChosenIds : Apply(u, id)
               \/ \E p \in Procs : Kill(p)
        PROVE  ~lossy
    BY <1>6, <2>3 DEF Apply, Kill
  <2> QED BY <1>1, <2>1, <2>2, <2>3 DEF Next
<1> QED BY <1>1, <1>5, <1>6

\* Every step keeps ReportedSurvives.
LEMMA ReportedStep ==
  ASSUME TypeOK, JobInv, NameInv, WholeInv, WriterInv, ReportedSurvives, Next,
         ~contended, TypeOK', WholeInv', NowInv'
  PROVE  ReportedSurvives'
<1> SUFFICES ASSUME ~lossy', NEW r \in Kinds, NEW d \in versions'
             PROVE  Held(r, d)' \in attempted'[r] \cup {acked'[r]}
  <2>1. \A r \in Kinds, d \in versions' : Recovered(r, d)' = {Held(r, d)'}
    BY RecoveredHeldNext
  <2>2. \A r \in Kinds : Recoverable(r)' = UNION {Recovered(r, d)' : d \in versions'}
    BY DEF Recoverable
  <2> QED BY <2>1, <2>2 DEF ReportedSurvives
<1>1. CASE d = dir'
  <2>1. dir' \in versions'
    BY DEF TypeOK
  <2>2. (Recovered(r, dir) = {Held(r, dir)})'
    BY <2>1 DEF WholeInv, Recovered, Held, Possible, Content
  <2>3. Held(r, dir)' \in attempted'[r] \cup {acked'[r]}
    BY <2>2 DEF NowInv
  <2> QED BY <1>1, <2>3 DEF Held
<1>2. CASE d # dir'
  <2>1. /\ ~PowerLoss /\ d \in versions /\ ~lossy
        /\ acked'[r] = acked[r] /\ attempted[r] \subseteq attempted'[r]
    BY <1>2, VersionStep
  <2>2. Held(r, d)' = Held(r, d)
    BY <2>1, HeldKept
  <2>3. Held(r, d) \in Recoverable(r)
    BY <2>1, RecoveredHeld DEF Recoverable
  <2>4. Held(r, d) \in attempted[r] \cup {acked[r]}
    BY <2>1, <2>3 DEF ReportedSurvives
  <2> QED BY <2>1, <2>2, <2>4
<1> QED BY <1>1, <1>2

-----------------------------------------------------------------------------
(* A daemon start.                                                         *)

\* The daemon has still to look for a seed.
Unseeded ==
  \/ pc[Daemon] \in {"fingerprint", "seed"}
  \/ pc[Daemon] \in Writing /\ job[Daemon].kind = "fingerprint"
  \/ pc[Daemon] = "open" /\ job[Daemon].kind = "seed"

\* A start gets there by the removal of orphans, or by its failure.
LEMMA UnseededArrival ==
  ASSUME TypeOK, JobInv, Next, ~faulted', Unseeded'
  PROVE  (~faulted /\ Unseeded) \/ CleanOrphans
<1> USE DEF fs, bounds, history, Writing
<1>1. Daemon \in Procs /\ Daemon \notin Uis /\ Uis \subseteq Procs
  BY ProcessAssumption DEF Procs
<1>2. ASSUME NEW p \in Procs, Others(p), p # Daemon PROVE Unseeded
  BY <1>1, <1>2 DEF Others, Unseeded
<1>3. ASSUME NEW p \in Procs, Replacing(p) PROVE ~faulted /\ Unseeded
  <2>1. ~faulted
    BY <1>3 DEF Replacing, OpenTemp, OpenFails, WriteTemp, SyncTemp, RenameTemp, WriteFails,
         SyncDir, SyncDirFails, Fault, NoFault
  <2>2. CASE OpenTemp(p)
    <3>1. pc[p] = "open" /\ pc'[p] = "write" /\ Others(p) /\ job'[p].kind = job[p].kind
      BY <2>2, OpenEffect DEF SameJob
    <3> QED BY <1>2, <2>1, <3>1 DEF Unseeded
  <2>3. CASE WriteTemp(p) \/ SyncTemp(p) \/ RenameTemp(p)
    <3>1. /\ pc[p] \in Writing /\ pc'[p] \in {"sync", "rename", "syncdir"} /\ Others(p)
          /\ job'[p].kind = job[p].kind
      BY <2>3 DEF WriteTemp, SyncTemp, RenameTemp, Goto, Others, TypeOK
    <3> QED BY <1>2, <2>1, <3>1 DEF Unseeded
  <2>4. CASE Fail(p)
    <3>1. pc'[p] = AfterFailure(p) /\ Others(p)
      BY <2>4, FailEffect
    <3>2. pc[p] \in Writing
      BY <1>3, <2>4 DEF Replacing, OpenTemp, OpenFails, WriteTemp, SyncTemp, RenameTemp, WriteFails,
           SyncDir, SyncDirFails, Goto
    <3> QED BY <1>2, <2>1, <3>1, <3>2 DEF Unseeded, AfterFailure
  <2>5. CASE Report(p)
    <3>1. pc[p] = "syncdir" /\ pc'[p] = job[p].then /\ Others(p)
      BY <2>5, ReportEffect
    <3>2. p = Daemon => DaemonJob(job[p])
      BY <3>1 DEF JobInv
    <3> QED BY <1>2, <2>1, <3>1, <3>2 DEF Unseeded, DaemonJob
  <2> QED BY <1>3, <2>2, <2>3, <2>4, <2>5
          DEF Replacing, OpenFails, WriteFails, SyncDir, SyncDirFails
<1>4. ASSUME NEW u \in Uis, NEW id \in ChosenIds, Apply(u, id) PROVE ~faulted /\ Unseeded
  BY <1>1, <1>2, <1>4, BeginEffect DEF Apply
<1>5. ASSUME NEW p \in Procs, Kill(p) PROVE ~faulted /\ Unseeded
  <2>1. pc'[p] = Down[p] /\ Others(p) /\ ~faulted
    BY <1>5 DEF Kill, Others, TypeOK
  <2> QED BY <1>2, <2>1 DEF Down, Unseeded
<1>6. ~PowerLoss
  BY <1>1, PowerLossEffect DEF Down, Unseeded
<1>7. ASSUME Starting, ~CleanOrphans PROVE ~faulted /\ Unseeded
  <2>1. ASSUME NEW q \in Pids PROVE ~StartDaemon(q)
    BY <1>1 DEF StartDaemon, TypeOK, Unseeded
  <2>2. ~CleanupFails /\ ~ReadFails
    BY DEF CleanupFails, ReadFails, Fault
  <2>3. ~faulted
    BY <1>7, <2>1, <2>2 DEF Starting, CaptureFingerprint, LoadSeed, VerifySeed,
         VerifyControl, Verify, Migrate, CleanLegacy, SyncLegacy, LoadControl
  <2>4. ASSUME NEW r, NEW v, NEW then, Begin(Daemon, r, v, then), r = "control" PROVE FALSE
    <3>1. pc'[Daemon] = "open" /\ job'[Daemon] = [kind |-> r, value |-> v, fd |-> NoInode, then |-> then]
      BY <1>1, <2>4, BeginEffect
    <3> QED BY <2>4, <3>1 DEF Unseeded
  <2>5. ASSUME NEW from, NEW to, Goto(Daemon, from, to)
        PROVE  to \in {"fingerprint", "seed"} \cup Writing
    BY <1>1, <2>5 DEF Goto, TypeOK, Unseeded
  <2>6. ~VerifySeed /\ ~VerifyControl /\ ~SyncLegacy /\ ~CleanLegacy
    BY <2>5 DEF VerifySeed, VerifyControl, Verify, SyncLegacy, CleanLegacy
  <2>7. ~Migrate /\ ~LoadControl
    BY <2>4, <2>5 DEF Migrate, LoadControl
  <2>8. pc[Daemon] \in {"fingerprint", "seed"}
    BY <1>7, <2>1, <2>2, <2>6, <2>7 DEF Starting, CaptureFingerprint, LoadSeed
  <2> QED BY <2>3, <2>8 DEF Unseeded
<1> QED BY <1>3, <1>4, <1>5, <1>6, <1>7 DEF Next

\* Every step keeps OrphanInv.
LEMMA OrphanStep ==
  ASSUME TypeOK, JobInv, OrphanInv, Next
  PROVE  OrphanInv'
<1> SUFFICES ASSUME ~faulted', Unseeded', NEW t \in SeedTemps PROVE dir'[t] = NoInode
  BY DEF OrphanInv, Unseeded
<1>1. /\ t \in Temps /\ t \in Names /\ Daemon \in Procs
      /\ Kept \cap Temps = {} /\ \A r \in Kinds : Final(r) \in Kept
      /\ SeedTemps \in SUBSET Names /\ Legacy \in Names
  BY NameFacts DEF Procs
<1>2. CASE CleanOrphans
  BY <1>1, <1>2 DEF CleanOrphans, SetDir, Unlinked
<1>3. CASE ~CleanOrphans
  <2>1. dir[t] = NoInode
    BY <1>3, UnseededArrival DEF OrphanInv, Unseeded
  <2>2. ASSUME NEW p \in Procs, OpenTemp(p) PROVE dir'[t] = NoInode
    <3>1. /\ pc[p] = "open" /\ pc'[p] = "write" /\ job'[p].kind = job[p].kind
          /\ \A n \in Names \ {Temp(job[p].kind)} : dir'[n] = dir[n]
      BY <2>2, OpenEffect DEF SameJob
    <3>2. job[p].kind # "seed"
      BY <3>1 DEF JobInv, UiJob, Procs, Writing, Unseeded
    <3>3. Temp(job[p].kind) \notin SeedTemps
      BY <3>2, TempFacts DEF TypeOK
    <3> QED BY <1>1, <2>1, <3>1, <3>3
  <2>3. ASSUME NEW p \in Procs, RenameTemp(p) PROVE dir'[t] = NoInode
    <3> DEFINE s == job[p].kind
               x == Temp(s)
    <3>1. /\ s \in Kinds /\ dir'[x] = NoInode
          /\ \A n \in Names \ {x, Final(s)} : dir'[n] = dir[n]
      BY <2>3, RenameEffect
    <3> HIDE DEF s, x
    <3> QED BY <1>1, <2>1, <3>1
  <2>4. ASSUME NEW p \in Procs, WriteFails(p) PROVE dir'[t] = NoInode
    BY <1>1, <2>1, <2>4, WriteFailsEffect
  <2>5. ASSUME NEW p \in Procs, WriteTemp(p) \/ SyncTemp(p) \/ Quiet(p) \/ SyncDir(p)
        PROVE  dir'[t] = NoInode
    BY <2>1, <2>5 DEF WriteTemp, SyncTemp, Quiet, SyncDir, SyncNames
  <2>6. CASE CleanLegacy
    BY <1>1, <2>1, <2>6 DEF CleanLegacy, SetDir, Unlinked
  <2>7. CASE SyncLegacy
    BY <2>1, <2>7 DEF SyncLegacy, SyncNames
  <2>8. ~PowerLoss
    BY <1>1, PowerLossEffect DEF Down, Unseeded, Writing
  <2> QED BY <1>3, <2>2, <2>3, <2>4, <2>5, <2>6, <2>7, <2>8, StepKinds
<1> QED BY <1>2, <1>3

\* Every step keeps StartSurvivesCrashes: each way a start fails is excluded,
\* or is one of those that it names.
LEMMA StartStep ==
  ASSUME TypeOK, JobInv, NameInv, OrphanInv, WholeInv, WriterInv, ReadInv, StartSurvivesCrashes, Next,
         ~contended
  PROVE  StartSurvivesCrashes'
<1> USE DEF fs, bounds, history
<1> SUFFICES ASSUME pc'[Daemon] = "failed", ~faulted', ~contended'
             PROVE  Content(dir[Legacy])' = Torn
  BY DEF StartSurvivesCrashes
<1>1. /\ Daemon \in Procs /\ Daemon \notin Uis /\ Uis \subseteq Procs /\ dir \in versions
      /\ Kinds = {"control", "seed", "fingerprint"}
  BY ProcessAssumption DEF Procs, TypeOK, Kinds
<1>2. \A r \in Kinds : Read(r) # Torn
  BY <1>1, RecordAssumption DEF WholeInv, Read, Content
<1>3. ASSUME NEW p \in Procs, Others(p), p # Daemon, ~faulted, ~PowerLoss PROVE Content(dir[Legacy])' = Torn
  <2>1. pc[Daemon] = "failed"
    BY <1>1, <1>3 DEF Others
  <2>2. Content(dir[Legacy]) = Torn
    BY <1>3, <2>1 DEF StartSurvivesCrashes
  <2>3. ~CleanLegacy
    BY <2>1 DEF CleanLegacy, Goto
  <2> QED BY <1>3, <2>2, <2>3, ReadsKept
<1>4. ~PowerLoss
  BY <1>1, PowerLossEffect DEF Down
<1>5. ASSUME NEW p \in Procs, Replacing(p) PROVE Content(dir[Legacy])' = Torn
  <2>1. ~faulted
    BY <1>5 DEF Replacing, OpenTemp, OpenFails, WriteTemp, SyncTemp, RenameTemp, WriteFails,
         SyncDir, SyncDirFails, Fault, NoFault
  <2>2. CASE OpenTemp(p)
    <3>1. pc'[p] = "write" /\ Others(p)
      BY <2>2, OpenEffect DEF SameJob
    <3> QED BY <1>3, <1>4, <2>1, <3>1
  <2>3. CASE WriteTemp(p) \/ SyncTemp(p) \/ RenameTemp(p)
    <3>1. pc'[p] \in {"sync", "rename", "syncdir"} /\ Others(p)
      BY <2>3 DEF WriteTemp, SyncTemp, RenameTemp, Goto, Others, TypeOK
    <3> QED BY <1>3, <1>4, <2>1, <3>1
  <2>4. CASE OpenFails(p)
    <3>1. pc[p] = "open" /\ Others(p)
      BY <2>4, FailEffect DEF OpenFails
    <3>2. ASSUME p = Daemon PROVE FALSE
      <4>1. job[p].kind = "seed" /\ dir[Temp("seed")] # NoInode
        BY <2>4, <3>2 DEF OpenFails, Fault
      <4>2. Temp("seed") \in SeedTemps
        BY <1>1, TempFacts DEF TypeOK
      <4> QED BY <2>1, <3>1, <3>2, <4>1, <4>2 DEF OrphanInv
    <3> QED BY <1>3, <1>4, <2>1, <3>1, <3>2
  <2>5. CASE WriteFails(p)
    <3>1. /\ pc[p] \in Holding /\ Others(p)
          /\ IF pc[p] = "rename" /\ dir[Temp(job[p].kind)] = NoInode THEN NoFault ELSE Fault(p)
      BY <2>5, WriteFailsEffect
    <3>2. dir[Temp(job[p].kind)] # NoInode
      BY <3>1 DEF WriterInv
    <3>3. p # Daemon
      BY <3>1, <3>2 DEF Fault
    <3> QED BY <1>3, <1>4, <2>1, <3>1, <3>3
  <2>6. CASE SyncDirFails(p) /\ job[p].kind = "fingerprint"
    <3>1. Fail(p) /\ Fault(p)
      BY <2>6 DEF SyncDirFails
    <3>2. p # Daemon /\ Others(p)
      BY <3>1, FailEffect DEF Fault
    <3> QED BY <1>3, <1>4, <2>1, <3>2
  <2>7. CASE Report(p)
    <3>1. pc[p] = "syncdir" /\ pc'[p] = job[p].then /\ Others(p)
      BY <2>7, ReportEffect
    <3>2. p # Daemon
      BY <3>1 DEF JobInv, DaemonJob, Writing
    <3> QED BY <1>3, <1>4, <2>1, <3>1, <3>2
  <2> QED BY <1>5, <2>2, <2>3, <2>4, <2>5, <2>6, <2>7 DEF Replacing, SyncDir, SyncDirFails
<1>6. ASSUME NEW u \in Uis, NEW id \in ChosenIds, Apply(u, id) PROVE Content(dir[Legacy])' = Torn
  BY <1>1, <1>3, <1>4, <1>6, BeginEffect DEF Apply
<1>7. ASSUME NEW p \in Procs, Kill(p) PROVE Content(dir[Legacy])' = Torn
  <2>1. pc'[p] = Down[p] /\ Others(p) /\ ~faulted
    BY <1>7 DEF Kill, Others, TypeOK
  <2> QED BY <1>3, <1>4, <2>1 DEF Down
<1>8. CASE Starting
  <2>1. ASSUME NEW r, NEW v, NEW then PROVE ~Begin(Daemon, r, v, then)
    BY <1>1, BeginEffect
  <2>2. ASSUME NEW from, NEW to, Goto(Daemon, from, to) PROVE to = "failed"
    BY <1>1, <2>2 DEF Goto, TypeOK
  <2>3. ASSUME NEW q \in Pids PROVE ~StartDaemon(q)
    BY <1>1 DEF StartDaemon, TypeOK
  <2>4. ~CleanOrphans /\ ~CleanLegacy /\ ~SyncLegacy
    BY <2>2 DEF CleanOrphans, CleanLegacy, SyncLegacy
  <2>5. ASSUME NEW answered \in BOOLEAN PROVE ~CaptureFingerprint(answered)
    BY <2>1, <2>2 DEF CaptureFingerprint
  <2>6. ~LoadSeed /\ ~LoadControl
    BY <1>1, <1>2, <2>1, <2>2 DEF LoadSeed, LoadControl
  <2>7. ~VerifySeed /\ ~VerifyControl
    <3>1. pc[Daemon] \in {"verifySeed", "verifyControl"} => Read(job[Daemon].kind) = job[Daemon].value
      BY DEF ReadInv
    <3>2. ASSUME NEW from \in {"verifySeed", "verifyControl"}, NEW to, to # "failed", Verify(from, to)
          PROVE  FALSE
      BY <2>2, <3>1, <3>2 DEF Verify, Goto
    <3> QED BY <3>2 DEF VerifySeed, VerifyControl
  <2>8. ~CleanupFails /\ ~ReadFails
    BY DEF CleanupFails, ReadFails, Fault
  <2>9. CASE Migrate
    <3>1. ~(Read("control") = Absent /\ Content(dir[Legacy]) = LegacyId)
      BY <2>1, <2>9 DEF Migrate
    <3>2. Read("control") = Torn \/ (Read("control") = Absent /\ Content(dir[Legacy]) = Torn)
      BY <2>2, <2>9, <3>1 DEF Migrate
    <3>3. dir' = dir /\ inode' = inode
      BY <2>9 DEF Migrate
    <3> QED BY <1>1, <1>2, <3>2, <3>3 DEF Content
  <2> QED BY <1>8, <2>3, <2>4, <2>5, <2>6, <2>7, <2>8, <2>9 DEF Starting
<1> QED BY <1>4, <1>5, <1>6, <1>7, <1>8 DEF Next

-----------------------------------------------------------------------------
(* The invariant.                                                          *)

\* A new installation, or an updated one, satisfies the invariant.
LEMMA InitInv ==
  ASSUME Init
  PROVE  IInv
<1>1. PICK legacy \in {Absent, LegacyId, Torn} :
        /\ dir = Installed(legacy)
        /\ versions = {dir}
        /\ inode = [i \in Inodes |->
                      IF legacy # Absent /\ i = 1 THEN [data |-> legacy, synced |-> TRUE]
                      ELSE IF legacy # Absent /\ i = 2 THEN [data |-> 1, synced |-> TRUE]
                      ELSE Unused]
        /\ acked = [r \in Kinds |-> CASE r = "control" -> legacy
                                      [] r = "seed" /\ legacy # Absent -> 1
                                      [] OTHER -> Absent]
        /\ pc = Down /\ pid \in Pids /\ job = [p \in Procs |-> NoJob]
        /\ seeds = 1 /\ troubles = 0 /\ applies = 0 /\ faulted = FALSE
        /\ attempted = [r \in Kinds |-> {}] /\ lossy = FALSE /\ contended = FALSE
  BY DEF Init
<1>2. /\ 1 \in Inodes /\ 2 \in Inodes /\ NoInode \notin Inodes /\ 1 # NoInode /\ 2 # NoInode
      /\ 1 \in Payloads /\ LegacyId \in Payloads /\ Payloads \subseteq Ids \cup {Original} \cup Nat
      /\ Daemon \in Procs /\ Uis \subseteq Procs /\ Daemon \notin Uis
  BY <1>1, InodeAssumption, ProcessAssumption DEF NoInode, Payloads, Ids, Procs
<1>3. /\ Legacy \in Names /\ \A r \in Kinds : Final(r) \in Names /\ Final(r) # Legacy
      /\ \A r, s \in Kinds : Final(r) = Final(s) => r = s
      /\ Kinds = {"control", "seed", "fingerprint"}
      /\ Kept \subseteq Names /\ Temps \subseteq Names /\ Kept \cap Temps = {}
  BY NameFacts DEF Kinds
<1>4. dir = [n \in Names |-> IF legacy = Absent THEN NoInode
                             ELSE IF n = Legacy THEN 1 ELSE IF n = Final("seed") THEN 2 ELSE NoInode]
  BY <1>1 DEF Installed
<1>5. /\ \A n \in Names \ {Legacy, Final("seed")} : dir[n] = NoInode
      /\ legacy = Absent => \A n \in Names : dir[n] = NoInode
      /\ legacy # Absent => dir[Legacy] = 1 /\ dir[Final("seed")] = 2
  BY <1>3, <1>4
<1>6. legacy # Absent => /\ inode[1] = [data |-> legacy, synced |-> TRUE]
                         /\ inode[2] = [data |-> 1, synced |-> TRUE]
  BY <1>1, <1>2
<1>7. /\ acked["control"] = legacy /\ acked["fingerprint"] = Absent
      /\ acked["seed"] = IF legacy # Absent THEN 1 ELSE Absent
  BY <1>1, <1>3
<1>8. \A p \in Procs : /\ pc[p] = Down[p] /\ Down[p] \in {"off", "idle"}
                       /\ p # Daemon => pc[p] = "idle"
                       /\ p = Daemon => pc[p] = "off"
                       /\ job[p] = NoJob
  BY <1>1 DEF Down
<1>9. TypeOK
  <2>1. dir \in Directories
    BY <1>2, <1>4 DEF Directories
  <2>2. inode \in [Inodes -> [data : Payloads \cup {Torn}, synced : BOOLEAN]]
    BY <1>1, <1>2 DEF Unused
  <2>3. acked \in [Kinds -> Payloads \cup {Absent, Torn}]
    <3>1. \A r \in Kinds : acked[r] \in Payloads \cup {Absent, Torn}
      BY <1>2, <1>3, <1>7
    <3>2. acked = [r \in Kinds |-> acked[r]]
      BY <1>1
    <3> QED BY <3>1, <3>2
  <2>4. pc \in [Procs -> Places]
    BY <1>1 DEF Down, Places
  <2>5. job \in [Procs -> [kind : Kinds, value : Payloads \cup {Absent},
                           fd : Inodes \cup {NoInode}, then : Places]]
    BY <1>1, <1>3 DEF NoJob, Places
  <2>6. troubles \in 0..MaxTroubles /\ applies \in 0..MaxApplies /\ seeds \in Nat \ {0}
    BY <1>1, BoundAssumption
  <2> QED BY <1>1, <2>1, <2>2, <2>3, <2>4, <2>5, <2>6 DEF TypeOK
<1>10. JobInv
  BY <1>2, <1>8 DEF JobInv, NoJob, Writing
<1>11. SoloInv /\ OrphanInv /\ AttemptInv /\ StartSurvivesCrashes
  BY <1>2, <1>8 DEF SoloInv, OrphanInv, AttemptInv, StartSurvivesCrashes, Writing, Holding
<1>12. OrderInv
  BY <1>1 DEF OrderInv
<1>13. NameInv
  <2>1. \A m, n \in Names : dir[m] = dir[n] /\ dir[m] # NoInode => m = n
    BY <1>3, <1>5
  <2> QED BY <1>1, <1>3, <2>1 DEF NameInv
<1>14. WholeInv
  <2>1. 1 # Torn
    BY RecordAssumption
  <2>2. \A r \in Kinds : dir[Final(r)] # NoInode => r = "seed" /\ legacy # Absent
    BY <1>3, <1>5
  <2>3. dir[Legacy] # NoInode => legacy # Absent
    BY <1>3, <1>5
  <2>4. ASSUME NEW r \in Kinds, dir[Final(r)] # NoInode
        PROVE  /\ inode[dir[Final(r)]].synced /\ inode[dir[Final(r)]].data # Torn /\ r # "control"
    <3>1. r = "seed" /\ dir[Final(r)] = 2 /\ inode[2] = [data |-> 1, synced |-> TRUE]
      BY <1>5, <1>6, <2>2, <2>4
    <3> QED BY <2>1, <3>1
  <2>5. ASSUME dir[Legacy] # NoInode
        PROVE  inode[dir[Legacy]].synced /\ inode[dir[Legacy]].data \in {LegacyId, Torn}
    <3>1. dir[Legacy] = 1 /\ inode[1] = [data |-> legacy, synced |-> TRUE] /\ legacy \in {LegacyId, Torn}
      BY <1>5, <1>6, <2>3, <2>5
    <3> QED BY <3>1
  <2> QED BY <1>1, <2>4, <2>5 DEF WholeInv
<1>15. WriterInv /\ ReadInv /\ CleanInv
  BY <1>2, <1>8 DEF WriterInv, ReadInv, CleanInv, Holding
<1>16. \A r \in Kinds : Held(r, dir) = acked[r]
  <2>1. Content(dir[Legacy]) = legacy
    BY <1>2, <1>3, <1>5, <1>6 DEF Content
  <2>2. Content(dir[Final("seed")]) = IF legacy # Absent THEN 1 ELSE Absent
    BY <1>2, <1>3, <1>5, <1>6 DEF Content
  <2>3. dir[Final("control")] = NoInode /\ dir[Final("fingerprint")] = NoInode
    BY <1>3, <1>5
  <2> QED BY <1>3, <1>7, <2>1, <2>2, <2>3 DEF Held, Content
<1>17. \A r \in Kinds : Recovered(r, dir) = {acked[r]}
  BY <1>1, <1>9, <1>14, <1>16, RecoveredHeld
<1>18. NowInv /\ ReportedSurvives
  BY <1>1, <1>17 DEF NowInv, ReportedSurvives, Recoverable
<1> QED BY <1>9, <1>10, <1>11, <1>12, <1>13, <1>14, <1>15, <1>18 DEF IInv, CalmInv

\* Every step keeps the invariant.
LEMMA InvStep ==
  ASSUME IInv, [Next]_vars
  PROVE  IInv'
<1> USE DEF IInv
<1>1. TypeOK' /\ JobInv' /\ SoloInv' /\ OrderInv' /\ NameInv'
  BY TypeStep, JobStep, SoloStep, OrderStep, NameStep
<1>2. CASE UNCHANGED vars
  <2>1. OrphanInv' /\ AttemptInv' /\ StartSurvivesCrashes'
    BY <1>2 DEF vars, fs, procs, bounds, history, OrphanInv, AttemptInv, StartSurvivesCrashes, Content
  <2>2. (~contended => WholeInv /\ ReadInv /\ CleanInv)'
    BY <1>2 DEF vars, fs, procs, history, CalmInv, WholeInv, ReadInv, CleanInv, Read, Content
  <2>3. (~contended => WriterInv)'
    BY <1>2 DEF vars, fs, procs, history, CalmInv, WriterInv, Temp
  <2>4. (~contended => NowInv)' /\ ReportedSurvives'
    BY <1>2 DEF vars, fs, procs, history, CalmInv, NowInv, ReportedSurvives, Recoverable, Recovered,
                Possible, Content
  <2> QED BY <1>1, <2>1, <2>2, <2>3, <2>4 DEF CalmInv
<1>3. CASE Next
  <2>1. OrphanInv' /\ AttemptInv'
    BY <1>3, OrphanStep, AttemptStep
  <2>2. CASE contended'
    BY <1>1, <2>1, <2>2 DEF CalmInv, StartSurvivesCrashes, ReportedSurvives
  <2>3. CASE ~contended'
    <3>1. ~contended /\ WholeInv /\ WriterInv /\ ReadInv /\ CleanInv /\ NowInv
      BY <2>3, Remembered DEF CalmInv
    <3>2. WholeInv' /\ WriterInv' /\ ReadInv' /\ CleanInv'
      BY <1>3, <2>3, <3>1, WholeStep, WriterStep, ReadStep, CleanStep
    <3>3. NowInv'
      BY <1>1, <1>3, <3>1, <3>2, NowStep
    <3>4. ReportedSurvives' /\ StartSurvivesCrashes'
      BY <1>1, <1>3, <3>1, <3>2, <3>3, ReportedStep, StartStep
    <3> QED BY <1>1, <2>1, <3>2, <3>3, <3>4 DEF CalmInv
  <2> QED BY <2>2, <2>3
<1> QED BY <1>2, <1>3

\* The inductive invariant.
THEOREM Inductive == Spec => []IInv
<1>1. Init => IInv
  BY InitInv
<1>2. IInv /\ [Next]_vars => IInv'
  BY InvStep
<1> QED BY <1>1, <1>2, PTL DEF Spec

\* Files and processes have the shapes the code gives them, in every state.
THEOREM TypeCorrect == Spec => []TypeOK
BY Inductive, PTL DEF IInv

\* Nothing that any number of kills, power losses and failed syncs left
\* behind makes a daemon start fail: each way through the start that fails
\* follows a failure of its own, a damaged v2 record, or a shared temporary
\* file.
THEOREM StartsSurvive == Spec => []StartSurvivesCrashes
BY Inductive, PTL DEF IInv

\* What write_record, write_seed_file or write_record_at reported is what the
\* next start finds after a power loss at any moment, or what is being
\* written then.
THEOREM ReportsSurvive == Spec => []ReportedSurvives
BY Inductive, PTL DEF IInv

-----------------------------------------------------------------------------
(* The migration of the v2 record.                                         *)

\* A start writes the v2 record's ID only when it migrates that record.
LEMMA MigrateArrival ==
  ASSUME LegacyIsOwn, TypeOK, JobInv, Next,
         pc'[Daemon] \in Writing, job'[Daemon].kind = "control", job'[Daemon].value = LegacyId
  PROVE  \/ pc[Daemon] \in Writing /\ job[Daemon].kind = "control" /\ job[Daemon].value = LegacyId
         \/ /\ Read("control") = Absent /\ Content(dir[Legacy]) = LegacyId
            /\ UNCHANGED <<dir, versions, inode>>
<1> USE DEF fs
<1>1. Daemon \in Procs /\ Daemon \notin Uis /\ Uis \subseteq Procs
  BY ProcessAssumption DEF Procs
<1>2. CASE pc'[Daemon] # "open"
  <2>1. pc'[Daemon] \in Holding \cup {"syncdir"}
    BY <1>2 DEF Writing, Holding
  <2>2. ASSUME OpenTemp(Daemon)
        PROVE  pc[Daemon] = "open" /\ job'[Daemon].kind = job[Daemon].kind
               /\ job'[Daemon].value = job[Daemon].value
    BY <1>1, <2>2, OpenEffect DEF SameJob
  <2> QED BY <1>1, <2>1, <2>2, Arrivals DEF Writing, Holding
<1>3. CASE pc'[Daemon] = "open"
  <2>1. ASSUME NEW p \in Procs, Others(p), pc'[p] # "open"
        PROVE  pc[Daemon] \in Writing /\ job[Daemon].kind = "control" /\ job[Daemon].value = LegacyId
    BY <1>1, <1>3, <2>1 DEF Others
  <2>2. ASSUME NEW p \in Procs, Replacing(p) PROVE pc'[p] # "open" /\ Others(p)
    <3>1. CASE OpenTemp(p)
      BY <3>1, OpenEffect DEF SameJob
    <3>2. CASE WriteTemp(p) \/ SyncTemp(p) \/ RenameTemp(p)
      BY <3>2 DEF WriteTemp, SyncTemp, RenameTemp, Goto, Others, TypeOK
    <3>3. CASE Fail(p)
      BY <3>3, FailEffect DEF AfterFailure
    <3>4. CASE Report(p)
      <4>1. pc[p] = "syncdir" /\ pc'[p] = job[p].then /\ Others(p)
        BY <3>4, ReportEffect
      <4>2. job[p].then # "open"
        BY <4>1 DEF JobInv, UiJob, DaemonJob, Writing, Procs
      <4> QED BY <4>1, <4>2
    <3> QED BY <2>2, <3>1, <3>2, <3>3, <3>4
            DEF Replacing, OpenFails, WriteFails, SyncDir, SyncDirFails
  <2>3. ASSUME NEW p \in Procs, Kill(p) PROVE pc'[p] # "open" /\ Others(p)
    BY <2>3 DEF Kill, Others, TypeOK, Down
  <2>4. ASSUME NEW u \in Uis, NEW id \in ChosenIds, Apply(u, id)
        PROVE  pc[Daemon] \in Writing /\ job[Daemon].kind = "control" /\ job[Daemon].value = LegacyId
    <3>1. Others(u) /\ u # Daemon
      BY <1>1, <2>4, BeginEffect DEF Apply
    <3> QED BY <1>1, <1>3, <3>1 DEF Others
  <2>5. ~PowerLoss
    BY <1>1, <1>3, PowerLossEffect DEF Down
  <2>6. ASSUME Starting
        PROVE  /\ Read("control") = Absent /\ Content(dir[Legacy]) = LegacyId
               /\ UNCHANGED <<dir, versions, inode>>
    <3>1. ASSUME NEW from, NEW to, Goto(Daemon, from, to) PROVE to = "open"
      BY <1>1, <1>3, <3>1 DEF Goto, TypeOK
    <3>2. ASSUME NEW r, NEW v, NEW then, Begin(Daemon, r, v, then) PROVE r = "control" /\ v = LegacyId
      <4>1. job'[Daemon] = [kind |-> r, value |-> v, fd |-> NoInode, then |-> then]
        BY <1>1, <3>2, BeginEffect
      <4> QED BY <4>1
    <3>3. ASSUME NEW q \in Pids PROVE ~StartDaemon(q)
      BY <1>1, <1>3 DEF StartDaemon, TypeOK
    <3>4. ~CleanOrphans /\ ~CleanLegacy /\ ~SyncLegacy /\ ~VerifySeed /\ ~VerifyControl
      BY <3>1 DEF CleanOrphans, CleanLegacy, SyncLegacy, VerifySeed, VerifyControl, Verify
    <3>5. ~CleanupFails /\ ~ReadFails
      BY <1>1, <1>3 DEF CleanupFails, ReadFails, TypeOK
    <3>6. ASSUME NEW answered \in BOOLEAN PROVE ~CaptureFingerprint(answered)
      BY <3>1, <3>2 DEF CaptureFingerprint
    <3>7. ~LoadSeed
      BY <3>1, <3>2 DEF LoadSeed
    <3>8. ~LoadControl
      BY <3>1, <3>2 DEF LoadControl, LegacyIsOwn
    <3>9. Migrate
      BY <2>6, <3>3, <3>4, <3>5, <3>6, <3>7, <3>8 DEF Starting
    <3> QED BY <3>1, <3>9 DEF Migrate
  <2> QED BY <2>1, <2>2, <2>3, <2>4, <2>5, <2>6 DEF Next
<1> QED BY <1>2, <1>3

\* Every step keeps MigrateInv.
LEMMA MigrateStep ==
  ASSUME LegacyIsOwn, TypeOK, JobInv, SoloInv, OrderInv, NameInv, WholeInv, WriterInv, MigrateInv, Next,
         TypeOK', WholeInv'
  PROVE  MigrateInv'
<1> SUFFICES ASSUME pc'[Daemon] \in Writing, job'[Daemon].kind = "control", job'[Daemon].value = LegacyId,
                    NEW d \in versions'
             PROVE  Held("control", d)' = LegacyId
  <2>1. \A d \in versions' : Recovered("control", d)' = {Held("control", d)'}
    BY RecoveredHeldNext DEF Kinds
  <2>2. Recoverable("control")' = UNION {Recovered("control", d)' : d \in versions'}
    BY DEF Recoverable
  <2> QED BY <2>1, <2>2 DEF MigrateInv
<1>1. /\ Daemon \in Procs /\ Uis \subseteq Procs /\ "control" \in Kinds
      /\ dir \in versions /\ dir' \in versions'
  BY DEF Procs, Kinds, TypeOK
<1>2. ~PowerLoss
  BY <1>1, PowerLossEffect DEF Down, Writing
<1>3. dir \in versions'
  BY <1>2, KeptNames
<1>4. CASE pc[Daemon] \in Writing /\ job[Daemon].kind = "control" /\ job[Daemon].value = LegacyId
  <2>1. ASSUME NEW e \in versions, e \in versions' PROVE Held("control", e)' = LegacyId
    <3>1. Held("control", e) \in Recoverable("control")
      BY <1>1, RecoveredHeld DEF Recoverable
    <3>2. Held("control", e) = LegacyId
      BY <1>4, <3>1 DEF MigrateInv
    <3> QED BY <1>1, <1>2, <2>1, <3>2, HeldKept
  <2>2. CASE d \in versions
    BY <2>1, <2>2
  <2>3. CASE d = dir' /\ \E p \in Procs : RenameTemp(p) /\ job[p].kind = "control"
    <3>1. PICK p \in Procs : RenameTemp(p) /\ job[p].kind = "control"
      BY <2>3
    <3>2. p = Daemon
      BY <1>4, <3>1 DEF SoloInv, RenameTemp, Goto, Procs
    <3>3. Read("control")' = LegacyId /\ dir'[Final("control")] # NoInode
      BY <1>1, <1>4, <3>1, <3>2, RenameRead
    <3> QED BY <2>3, <3>3 DEF Held, Read
  <2>4. CASE d = dir' /\ ~\E p \in Procs : RenameTemp(p) /\ job[p].kind = "control"
    <3>1. ~CleanLegacy
      BY <1>4 DEF CleanLegacy, Goto, Writing
    <3>2. dir'[Legacy] = dir[Legacy] /\ dir'[Final("control")] = dir[Final("control")]
      BY <1>1, <1>2, <2>4, <3>1, KeptNames
    <3>3. Held("control", dir)' = LegacyId
      <4>1. PICK e \in versions : e = dir
        BY <1>1
      <4>2. Held("control", e)' = LegacyId
        BY <1>3, <2>1, <4>1
      <4> QED BY <3>2, <4>1, <4>2 DEF Held
    <3> QED BY <2>4, <3>3 DEF Held
  <2> QED BY <1>2, <2>2, <2>3, <2>4, DirStep
<1>5. CASE /\ Read("control") = Absent /\ Content(dir[Legacy]) = LegacyId
           /\ UNCHANGED <<dir, versions, inode>>
  <2>1. dir[Final("control")] = NoInode /\ dir[Legacy] # NoInode
    <3>1. Final("control") \in Names /\ Legacy \in Names /\ LegacyId # Absent
      BY <1>1, NameFacts, RecordAssumption DEF Ids
    <3> QED BY <1>5, <3>1, ReadAbsent DEF Read
  <2>2. d[Final("control")] = NoInode /\ d[Legacy] = dir[Legacy]
    BY <1>1, <1>5, <2>1 DEF OrderInv
  <2> QED BY <1>5, <2>2 DEF Held, Content
<1> QED BY <1>4, <1>5, MigrateArrival

\* Every step keeps MigrationKeepsId: only the migration reports the v2
\* record's ID.
LEMMA MigrationStep ==
  ASSUME LegacyIsOwn, TypeOK, JobInv, SoloInv, OrderInv, NameInv, WholeInv, WriterInv, ReadInv, MigrateInv,
         MigrationKeepsId, ~contended, Next, TypeOK', WholeInv', NowInv'
  PROVE  MigrationKeepsId'
<1>1. /\ "control" \in Kinds /\ dir \in versions /\ dir' \in versions'
  BY DEF Kinds, TypeOK
<1> SUFFICES ASSUME acked'["control"] = LegacyId, NEW d \in versions'
             PROVE  Held("control", d)' \in attempted'["control"] \cup {LegacyId}
  <2>1. \A d \in versions' : Recovered("control", d)' = {Held("control", d)'}
    BY <1>1, RecoveredHeldNext
  <2>2. Recoverable("control")' = UNION {Recovered("control", d)' : d \in versions'}
    BY DEF Recoverable
  <2> QED BY <2>1, <2>2 DEF MigrationKeepsId
<1>2. CASE d = dir'
  <2>1. (Recovered("control", dir) = {Held("control", dir)})'
    BY <1>1 DEF WholeInv, Recovered, Held, Possible, Content
  <2>2. Held("control", dir)' \in attempted'["control"] \cup {LegacyId}
    BY <1>1, <2>1 DEF NowInv
  <2> QED BY <1>2, <2>2 DEF Held
<1>3. CASE d # dir'
  <2>1. ~PowerLoss /\ versions' # {dir'} /\ d \in versions
    BY <1>3, VersionStep
  <2>2. Held("control", d)' = Held("control", d)
    BY <1>1, <2>1, HeldKept
  <2>3. Held("control", d) \in Recoverable("control")
    BY <1>1, <2>1, RecoveredHeld DEF Recoverable
  <2>4. CASE acked'["control"] = acked["control"] /\ attempted["control"] \subseteq attempted'["control"]
    BY <2>2, <2>3, <2>4 DEF MigrationKeepsId
  <2>5. CASE \E p \in Procs : Report(p) /\ job[p].kind = "control"
    <3>1. PICK p \in Procs : Report(p) /\ job[p].kind = "control"
      BY <2>5
    <3>2. pc[p] = "syncdir" /\ Read("control") = LegacyId
      BY <3>1, ReportEffect
    <3>3. p = Daemon
      BY <3>2 DEF Procs, ReadInv, LegacyIsOwn
    <3>4. job[p].value = LegacyId
      BY <3>1, <3>2, <3>3 DEF ReadInv
    <3> QED BY <2>2, <2>3, <3>1, <3>2, <3>3, <3>4 DEF MigrateInv, Writing
  <2> QED BY <1>1, <2>1, <2>4, <2>5, Reports
<1> QED BY <1>2, <1>3

\* The migration of a v2 record never loses its ID, whatever syncs fail and
\* wherever it is interrupted, if that ID is neither derived nor chosen in
\* the WebUI.
THEOREM MigrationKeepsLegacyId ==
  ASSUME LegacyIsOwn
  PROVE  Spec => []MigrationKeepsId
<1>1. Init => MInv
  <2> SUFFICES ASSUME Init PROVE MInv
    OBVIOUS
  <2>1. IInv /\ pc[Daemon] = "off" /\ versions = {dir} /\ "control" \in Kinds /\ ~contended
    BY InitInv DEF Init, Down, Procs, Kinds
  <2>2. attempted["control"] = {}
    BY <2>1 DEF Init
  <2>3. Recovered("control", dir) \subseteq {acked["control"]}
    BY <2>1, <2>2 DEF IInv, CalmInv, NowInv
  <2>4. MigrationKeepsId
    BY <2>1, <2>3 DEF MigrationKeepsId, Recoverable
  <2> QED BY <2>1, <2>4 DEF MInv, MigrateInv, Writing
<1>2. IInv /\ MInv /\ [Next]_vars => MInv'
  <2> SUFFICES ASSUME IInv, MInv, [Next]_vars PROVE MInv'
    OBVIOUS
  <2>1. CASE UNCHANGED vars
    <3>1. Recoverable("control")' = Recoverable("control")
      BY <2>1 DEF vars, fs, Recoverable, Recovered, Possible, Content
    <3> QED BY <2>1, <3>1 DEF vars, procs, history, MInv, MigrateInv, MigrationKeepsId
  <2>2. CASE Next /\ contended'
    BY <2>2 DEF MInv, MigrationKeepsId
  <2>3. CASE Next /\ ~contended'
    <3>1. ~contended /\ IInv'
      BY <2>3, Remembered, InvStep DEF IInv
    <3>2. WholeInv /\ WriterInv /\ ReadInv /\ MigrateInv /\ MigrationKeepsId
      BY <3>1 DEF IInv, CalmInv, MInv
    <3>3. TypeOK' /\ WholeInv' /\ NowInv'
      BY <2>3, <3>1 DEF IInv, CalmInv
    <3> QED BY <2>3, <3>1, <3>2, <3>3, MigrateStep, MigrationStep DEF IInv, MInv
  <2> QED BY <2>1, <2>2, <2>3
<1>3. MInv => MigrationKeepsId
  BY DEF MInv
<1> QED BY <1>1, <1>2, <1>3, Inductive, PTL DEF Spec

-----------------------------------------------------------------------------
(* Who replaces the control record, and what it amounts to.                *)

\* A daemon start never replaces a control record it finds.
THEOREM OnlyTheWebUiReplaces == Spec => OnlyWebUiReplaces
<1> DEFINE A == Read("control") \in Ids /\ Read("control")' # Read("control")
                  => \/ \E u \in Uis : pc[u] = "rename"
                     \/ contended
                     \/ troubles' # troubles
<1>1. IInv /\ [Next]_vars => [A]_vars
  <2> SUFFICES ASSUME IInv, Next, Read("control") \in Ids, Read("control")' # Read("control"),
                      ~contended, ~PowerLoss
               PROVE  \E u \in Uis : pc[u] = "rename"
    BY PowerLossEffect DEF IInv
  <2>1. PICK p \in Procs : RenameTemp(p) /\ job[p].kind = "control"
    BY ReadsKept DEF IInv, CalmInv, Kinds
  <2>2. pc[p] = "rename"
    BY <2>1 DEF RenameTemp, Goto
  <2>3. p # Daemon
    <3>1. ASSUME p = Daemon PROVE dir[Final("control")] = NoInode
      BY <2>1, <2>2, <3>1 DEF IInv, SoloInv, Holding
    <3>2. Absent \notin Ids
      BY RecordAssumption
    <3> QED BY <3>1, <3>2 DEF Read, Content
  <2> QED BY <2>2, <2>3 DEF Procs
<1> QED BY <1>1, Inductive, PTL DEF Spec, OnlyWebUiReplaces

\* What a reader of directory d finds for the control record.
Seen(d) == Content(d[Final("control")])

\* What the abstract record may hold after a power loss.
Durable == UNION {Possible(d[Final("control")]) : d \in versions}

\* With whole records it is what the directories hold.
LEMMA DurableSeen ==
  ASSUME WholeInv
  PROVE  Durable = {Seen(d) : d \in versions}
<1>1. \A d \in versions : Possible(d[Final("control")]) = {Seen(d)}
  BY DEF WholeInv, Possible, Seen, Content, Kinds
<1> QED BY <1>1 DEF Durable

\* Also after a step.
LEMMA DurableSeenNext ==
  ASSUME WholeInv'
  PROVE  Durable' = {Seen(d)' : d \in versions'}
<1>1. \A d \in versions' : Possible(d[Final("control")])' = {Seen(d)'}
  BY DEF WholeInv, Possible, Seen, Content, Kinds
<1>2. Durable' = UNION {Possible(d[Final("control")])' : d \in versions'}
  BY DEF Durable
<1> QED BY <1>1, <1>2

\* A step of the files is a step of the record, or none.
LEMMA RecordStep ==
  ASSUME IInv, Next, ~contended'
  PROVE  \/ /\ Read("control")' = Read("control") /\ Durable' = Durable
         \/ /\ Read("control")' = Read("control") /\ Durable' = {Read("control")}
         \/ /\ Read("control")' \in Durable /\ Durable' = {Read("control")'}
         \/ /\ Read("control")' \in Ids /\ Durable' = Durable \cup {Read("control")'}
<1> USE DEF IInv
<1>1. ~contended /\ WholeInv /\ WriterInv
  BY Remembered DEF CalmInv
<1>2. IInv' /\ WholeInv' /\ TypeOK'
  BY InvStep DEF CalmInv
<1>3. /\ Durable = {Seen(d) : d \in versions} /\ Durable' = {Seen(d)' : d \in versions'}
  BY <1>1, <1>2, DurableSeen, DurableSeenNext
<1>4. /\ Read("control") = Content(dir[Final("control")]) /\ dir \in versions /\ dir' \in versions'
      /\ "control" \in Kinds /\ Final("control") \in Kept /\ Kept \subseteq Names
  BY <1>2, NameFacts DEF Read, TypeOK, Kinds
<1>5. CASE PowerLoss
  <2>1. /\ dir' \in versions /\ versions' = {dir'}
        /\ \A n \in Names : dir'[n] # NoInode /\ inode[dir'[n]].synced =>
             inode'[dir'[n]].data = inode[dir'[n]].data
    BY <1>5, PowerLossEffect
  <2>2. PICK d \in versions : d = dir'
    BY <2>1
  <2>3. Read("control")' = Seen(d)
    BY <1>1, <1>4, <2>1, <2>2 DEF WholeInv, Read, Seen, Content
  <2>4. Seen(d)' = Read("control")'
    BY <2>2 DEF Read, Seen
  <2> QED BY <1>3, <2>1, <2>2, <2>3, <2>4
<1>6. CASE ~PowerLoss
  <2>1. dir \in versions' /\ (versions' = {dir} \/ versions' = versions \cup {dir'})
    BY <1>6, KeptNames, DirStep
  <2>2. ASSUME NEW d \in versions, d \in versions' PROVE Seen(d)' = Seen(d)
    <3>1. d[Final("control")] # NoInode => inode'[d[Final("control")]] = inode[d[Final("control")]]
      BY <1>1, <1>4, <1>6, <2>2, RecordsKept
    <3> QED BY <3>1 DEF Seen, Content
  <2>3. PICK old \in versions : old = dir /\ old \in versions' /\ Seen(old) = Read("control")
    BY <1>4, <2>1 DEF Seen
  <2>4. PICK new \in versions' : new = dir' /\ Seen(new)' = Read("control")'
    BY <1>4 DEF Seen, Read
  <2>5. CASE versions' = {dir}
    BY <1>3, <2>2, <2>3, <2>4, <2>5
  <2>6. CASE versions' = versions \cup {dir'}
    <3>1. Durable' = Durable \cup {Read("control")'}
      BY <1>3, <2>2, <2>4, <2>6
    <3>2. CASE \E p \in Procs : RenameTemp(p) /\ job[p].kind = "control"
      <4>1. PICK p \in Procs : RenameTemp(p) /\ job[p].kind = "control"
        BY <3>2
      <4>2. Read("control")' = job[p].value /\ pc[p] \in Writing
        BY <1>1, <1>4, <4>1, RenameRead DEF RenameTemp, Goto, Writing
      <4>3. Read("control")' \in Ids
        BY <4>1, <4>2, WholeValue
      <4> QED BY <3>1, <4>3
    <3>3. CASE ~\E p \in Procs : RenameTemp(p) /\ job[p].kind = "control"
      <4>1. Read("control")' = Read("control")
        BY <1>1, <1>4, <1>6, <3>3, ReadsKept
      <4>2. Read("control") \in Durable
        BY <1>3, <2>3
      <4> QED BY <3>1, <4>1, <4>2
    <3> QED BY <3>2, <3>3
  <2> QED BY <2>1, <2>5, <2>6
<1> QED BY <1>5, <1>6

\* The control file is a durable record: its replacement in five fallible
\* steps amounts to one, and power is lost before or after it.
THEOREM Refinement == Spec => RefinesDurableRecord
<1>1. Init => Register!Init
  <2> SUFFICES ASSUME Init PROVE Register!Init
    OBVIOUS
  <2>1. dir[Final("control")] = NoInode /\ versions = {dir}
    <3>1. Final("control") \in Names /\ Final("control") # Legacy /\ Final("control") # Final("seed")
      BY NameFacts DEF Kinds
    <3> QED BY <3>1 DEF Init, Installed
  <2>2. Read("control") = Absent /\ Durable = {Absent} /\ contended = FALSE
    BY <2>1 DEF Read, Content, Durable, Possible, Init
  <2> QED BY <2>2 DEF Register!Init, Durable
<1>2. IInv /\ [Next]_vars => [Register!Next]_(Register!vars)
  <2> SUFFICES ASSUME IInv, [Next]_vars
               PROVE  \/ Register!Next
                      \/ UNCHANGED <<Read("control"), Durable, contended>>
    BY DEF Register!vars, Durable
  <2>1. CASE UNCHANGED vars
    BY <2>1 DEF vars, fs, history, Read, Content, Durable, Possible
  <2>2. CASE contended'
    BY <2>2 DEF Register!Next
  <2>3. CASE Next /\ ~contended'
    <3>1. contended = FALSE /\ contended' = FALSE
      <4>1. TypeOK' /\ TypeOK /\ ~contended
        BY <2>3, InvStep, Remembered DEF IInv
      <4> QED BY <2>3, <4>1 DEF TypeOK
    <3>2. CASE Read("control")' = Read("control") /\ Durable' = Durable
      BY <3>1, <3>2
    <3>3. CASE Read("control")' = Read("control") /\ Durable' = {Read("control")}
      <4>1. Register!Harden
        BY <3>3 DEF Register!Harden, Durable
      <4> QED BY <3>1, <4>1 DEF Register!Next, Register!TakingTurns
    <3>4. CASE Read("control")' \in Durable /\ Durable' = {Read("control")'}
      <4>1. Register!PowerLoss
        BY <3>4 DEF Register!PowerLoss, Durable
      <4> QED BY <3>1, <4>1 DEF Register!Next, Register!TakingTurns
    <3>5. CASE Read("control")' \in Ids /\ Durable' = Durable \cup {Read("control")'}
      <4>1. PICK v \in Ids : v = Read("control")'
        BY <3>5
      <4>2. Register!Replace(v)
        BY <3>5, <4>1 DEF Register!Replace, Durable
      <4> QED BY <3>1, <4>1, <4>2 DEF Register!Next, Register!TakingTurns
    <3> QED BY <2>3, <3>2, <3>3, <3>4, <3>5, RecordStep
  <2> QED BY <2>1, <2>2, <2>3
<1> QED BY <1>1, <1>2, Inductive, PTL DEF Spec, RefinesDurableRecord, Register!Spec

=============================================================================
