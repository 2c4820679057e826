-------------------------- MODULE DaemonLockProofs --------------------------
(***************************************************************************)
(* DaemonLock for any number of daemons, probes, inodes and removals: one  *)
(* daemon owns the lock unless its file was removed under another; a probe *)
(* reports the daemon that runs throughout, and a pid of an ended one only *)
(* where the pid has passed on and the lock's owner has not written its.   *)
(***************************************************************************)
EXTENDS DaemonLock, FiniteSetTheorems, TLAPS

Working == {"locked", "empty", "running"}
Leaving == {"release", "unlink", "unlock"}

\* Descriptors, locks and program counters agree.
LockInv ==
  /\ \A d \in Daemons : pc[d] \in {"opened"} \cup Working \cup Leaving => fd[d] # 0
  /\ \A d \in Daemons : pc[d] \in Working \cup Leaving => owner[fd[d]] = d
  /\ \A i \in Inodes, d \in Daemons : owner[i] = d => pc[d] \in Working \cup Leaving
  /\ \A p \in Probes : pc[p] \in {"size", "try", "pid", "held"} => fd[p] # 0
  /\ \A i \in Inodes, p \in Probes : owner[i] = p => pc[p] = "held"
  /\ \A d \in Daemons : pc[d] \in {"new", "exiting", "exited"} => fd[d] = 0

\* Unless it was removed under a daemon, the path leads to what each daemon
\* that is not on its way out has open.
PathInv ==
  ~raced => \A d \in Daemons : pc[d] \in {"opened"} \cup Working => path = fd[d]

\* A pid in a lock file is of a daemon that wrote it as its owner; while that
\* daemon lives it owns the file or has made the path lead elsewhere.
TextInv ==
  \A i \in Inodes : text[i] # Nobody =>
    /\ i <= created
    /\ pc[text[i]] \in {"running", "exiting", "exited"} \cup Leaving
    /\ pc[text[i]] \in {"running"} \cup Leaving => owner[i] = text[i]
    /\ pc[text[i]] \in {"unlock", "exiting"} => path # i

\* A running daemon has its pid in the file it holds.
WrittenInv ==
  \A d \in Daemons : pc[d] = "running" => text[fd[d]] = d

\* What a probe may find in the file it has open, or has read there.
ProbeOf(p) ==
  /\ pc[p] # "new" => \A i \in Inodes : owner[i] \in Daemons => owner[i] \in owners[p]
  /\ pc[p] \in {"size", "try", "pid"} =>
       (text[fd[p]] # Nobody /\ Alive(text[fd[p]]) => text[fd[p]] \in owners[p])
  /\ pc[p] = "pid" /\ ~unwritten[p] => text[fd[p]] \in owners[p] \cup {Nobody}
  /\ pc[p] \in {"kill", "alive"} =>
       /\ pid[p] # Nobody
       /\ pc[pid[p]] # "new"
       /\ pid[p] \in owners[p] \/ (unwritten[p] /\ ~Alive(pid[p]))

ProbeInv == \A p \in Probes : ProbeOf(p)

\* The daemon that a probe met is found in the file, and then in what was read
\* there, as long as it runs.
MetInv ==
  \A p \in Probes :
    /\ pc[p] = "new" => met[p] = Nobody
    /\ met[p] # Nobody =>
         /\ pc[met[p]] \in {"running", "exiting", "exited"} \cup Leaving
         /\ pc[met[p]] = "running" =>
              /\ pc[p] \in {"size", "try", "pid", "kill", "alive"}
              /\ pc[p] \in {"size", "try", "pid"} => fd[p] = fd[met[p]]
              /\ pc[p] \in {"kill", "alive"} => pid[p] = met[p]

IInv == TypeOK /\ LockInv /\ PathInv /\ TextInv /\ WrittenInv /\ ProbeInv /\ MetInv

-----------------------------------------------------------------------------
(* The conjuncts of the invariant, action by action.                       *)

\* Every step keeps the types, and a lock within its descriptor.
LEMMA TypeStep ==
  ASSUME TypeOK, LockInv, [Next]_vars
  PROVE  TypeOK'
<1> USE DEF TypeOK, LockInv, Working, Leaving, file, history, Processes, Inodes, Goto, Opens, Locks, Closes, Unlinks
<1>1. ASSUME NEW d \in Daemons, Create(d) PROVE TypeOK'
  BY <1>1, ProcessAssumption, BoundAssumption DEF Create
<1>2. ASSUME NEW d \in Daemons, OpenExisting(d) PROVE TypeOK'
  BY <1>2, ProcessAssumption, BoundAssumption DEF OpenExisting
<1>3. ASSUME NEW d \in Daemons, Lock(d) PROVE TypeOK'
  BY <1>3, ProcessAssumption, BoundAssumption DEF Lock
<1>4. ASSUME NEW d \in Daemons, Refused(d) PROVE TypeOK'
  BY <1>4, ProcessAssumption, BoundAssumption DEF Refused
<1>5. ASSUME NEW d \in Daemons, Truncate(d) PROVE TypeOK'
  BY <1>5, ProcessAssumption, BoundAssumption DEF Truncate
<1>6. ASSUME NEW d \in Daemons, WritePid(d) PROVE TypeOK'
  BY <1>6, ProcessAssumption, BoundAssumption DEF WritePid
<1>7. ASSUME NEW d \in Daemons, WriteFails(d) PROVE TypeOK'
  <2>1. text' = text \/ text' = [text EXCEPT ![fd[d]] = d]
    BY <1>7 DEF WriteFails
  <2>2. text' \in [Inodes -> Daemons \cup {Nobody}]
    <3>1. CASE text' = text
      BY <3>1
    <3>2. CASE text' = [text EXCEPT ![fd[d]] = d]
      BY <3>2
    <3> QED BY <2>1, <3>1, <3>2
  <2>3. pc' = [pc EXCEPT ![d] = "release"] /\ UNCHANGED <<path, created, owner, fd, pid, removals, history>>
    BY <1>7 DEF WriteFails
  <2> QED BY <2>2, <2>3
<1>8. ASSUME NEW d \in Daemons, Return(d) PROVE TypeOK'
  BY <1>8, ProcessAssumption, BoundAssumption DEF Return
<1>9. ASSUME NEW d \in Daemons, BootCleanup(d) PROVE TypeOK'
  BY <1>9, ProcessAssumption, BoundAssumption DEF BootCleanup
<1>10. ASSUME NEW d \in Daemons, Compare(d) PROVE TypeOK'
  BY <1>10, ProcessAssumption, BoundAssumption DEF Compare
<1>11. ASSUME NEW d \in Daemons, Unlink(d) PROVE TypeOK'
  BY <1>11, ProcessAssumption, BoundAssumption DEF Unlink
<1>12. ASSUME NEW d \in Daemons, Unlock(d) PROVE TypeOK'
  BY <1>12, ProcessAssumption, BoundAssumption DEF Unlock
<1>13. ASSUME NEW d \in Daemons, End(d) PROVE TypeOK'
  BY <1>13, ProcessAssumption, BoundAssumption DEF End
<1>14. ASSUME NEW p \in Probes, ProbeOpen(p) PROVE TypeOK'
  <2>1. met' \in [Probes -> Daemons \cup {Nobody}]
    <3>1. (IF path # 0 /\ HeldByRunning(path) THEN owner[path] ELSE Nobody) \in Daemons \cup {Nobody}
      BY DEF HeldByRunning
    <3> QED BY <1>14, <3>1 DEF ProbeOpen
  <2>2. owners' \in [Probes -> SUBSET Daemons]
    BY <1>14 DEF ProbeOpen
  <2>3. fd' \in [Processes -> 0..created] /\ \A i \in Inodes : owner[i] # Nobody => fd'[owner[i]] = i
    BY <1>14, ProcessAssumption DEF ProbeOpen
  <2> QED BY <1>14, <2>1, <2>2, <2>3 DEF ProbeOpen
<1>15. ASSUME NEW p \in Probes, ProbeEmpty(p) PROVE TypeOK'
  BY <1>15, ProcessAssumption, BoundAssumption DEF ProbeEmpty
<1>16. ASSUME NEW p \in Probes, ProbeFilled(p) PROVE TypeOK'
  BY <1>16, ProcessAssumption, BoundAssumption DEF ProbeFilled
<1>17. ASSUME NEW p \in Probes, ProbeTakes(p) PROVE TypeOK'
  BY <1>17, ProcessAssumption, BoundAssumption DEF ProbeTakes
<1>18. ASSUME NEW p \in Probes, ProbeBusy(p) PROVE TypeOK'
  BY <1>18, ProcessAssumption, BoundAssumption DEF ProbeBusy
<1>19. ASSUME NEW p \in Probes, ProbeUnlock(p) PROVE TypeOK'
  BY <1>19, ProcessAssumption, BoundAssumption DEF ProbeUnlock
<1>20. ASSUME NEW p \in Probes, ProbeRead(p) PROVE TypeOK'
  BY <1>20, ProcessAssumption, BoundAssumption DEF ProbeRead
<1>21. ASSUME NEW p \in Probes, NEW other \in BOOLEAN, ProbeKill(p, other) PROVE TypeOK'
  BY <1>21, ProcessAssumption, BoundAssumption DEF ProbeKill
<1>22. CASE Uninstall
  BY <1>22, ProcessAssumption, BoundAssumption DEF Uninstall
<1>23. CASE UNCHANGED vars
  BY <1>23, ProcessAssumption DEF vars
<1> HIDE DEF TypeOK, LockInv
<1>24. ASSUME NEW d \in Daemons, DaemonStep(d) PROVE TypeOK'
  BY <1>24, <1>1, <1>2, <1>3, <1>4, <1>5, <1>6, <1>7, <1>8, <1>9, <1>10, <1>11, <1>12, <1>13 DEF DaemonStep, Open
<1>25. ASSUME NEW p \in Probes, ProbeStep(p) PROVE TypeOK'
  BY <1>25, <1>14, <1>15, <1>16, <1>17, <1>18, <1>19, <1>20, <1>21 DEF ProbeStep, ProbeSize, ProbeLock
<1> QED BY <1>22, <1>23, <1>24, <1>25 DEF Next

\* flock, close and exit keep locks, descriptors and places together.
LEMMA LockStep ==
  ASSUME TypeOK, LockInv, [Next]_vars
  PROVE  LockInv'
<1> USE DEF TypeOK, LockInv, Working, Leaving, file, history, Processes, Inodes, Goto, Opens, Locks, Closes, Unlinks
<1>1. ASSUME NEW d \in Daemons, Create(d) PROVE LockInv'
  BY <1>1, ProcessAssumption, BoundAssumption DEF Create
<1>2. ASSUME NEW d \in Daemons, OpenExisting(d) PROVE LockInv'
  BY <1>2, ProcessAssumption, BoundAssumption DEF OpenExisting
<1>3. ASSUME NEW d \in Daemons, Lock(d) PROVE LockInv'
  BY <1>3, ProcessAssumption, BoundAssumption DEF Lock
<1>4. ASSUME NEW d \in Daemons, Refused(d) PROVE LockInv'
  BY <1>4, ProcessAssumption, BoundAssumption DEF Refused
<1>5. ASSUME NEW d \in Daemons, Truncate(d) PROVE LockInv'
  BY <1>5, ProcessAssumption, BoundAssumption DEF Truncate
<1>6. ASSUME NEW d \in Daemons, WritePid(d) PROVE LockInv'
  BY <1>6, ProcessAssumption, BoundAssumption DEF WritePid
<1>7. ASSUME NEW d \in Daemons, WriteFails(d) PROVE LockInv'
  BY <1>7, ProcessAssumption, BoundAssumption DEF WriteFails
<1>8. ASSUME NEW d \in Daemons, Return(d) PROVE LockInv'
  BY <1>8, ProcessAssumption, BoundAssumption DEF Return
<1>9. ASSUME NEW d \in Daemons, BootCleanup(d) PROVE LockInv'
  BY <1>9, ProcessAssumption, BoundAssumption DEF BootCleanup
<1>10. ASSUME NEW d \in Daemons, Compare(d) PROVE LockInv'
  BY <1>10, ProcessAssumption, BoundAssumption DEF Compare
<1>11. ASSUME NEW d \in Daemons, Unlink(d) PROVE LockInv'
  BY <1>11, ProcessAssumption, BoundAssumption DEF Unlink
<1>12. ASSUME NEW d \in Daemons, Unlock(d) PROVE LockInv'
  BY <1>12, ProcessAssumption, BoundAssumption DEF Unlock
<1>13. ASSUME NEW d \in Daemons, End(d) PROVE LockInv'
  BY <1>13, ProcessAssumption, BoundAssumption DEF End
<1>14. ASSUME NEW p \in Probes, ProbeOpen(p) PROVE LockInv'
  BY <1>14, ProcessAssumption, BoundAssumption DEF ProbeOpen
<1>15. ASSUME NEW p \in Probes, ProbeEmpty(p) PROVE LockInv'
  BY <1>15, ProcessAssumption, BoundAssumption DEF ProbeEmpty
<1>16. ASSUME NEW p \in Probes, ProbeFilled(p) PROVE LockInv'
  BY <1>16, ProcessAssumption, BoundAssumption DEF ProbeFilled
<1>17. ASSUME NEW p \in Probes, ProbeTakes(p) PROVE LockInv'
  BY <1>17, ProcessAssumption, BoundAssumption DEF ProbeTakes
<1>18. ASSUME NEW p \in Probes, ProbeBusy(p) PROVE LockInv'
  BY <1>18, ProcessAssumption, BoundAssumption DEF ProbeBusy
<1>19. ASSUME NEW p \in Probes, ProbeUnlock(p) PROVE LockInv'
  BY <1>19, ProcessAssumption, BoundAssumption DEF ProbeUnlock
<1>20. ASSUME NEW p \in Probes, ProbeRead(p) PROVE LockInv'
  BY <1>20, ProcessAssumption, BoundAssumption DEF ProbeRead
<1>21. ASSUME NEW p \in Probes, NEW other \in BOOLEAN, ProbeKill(p, other) PROVE LockInv'
  BY <1>21, ProcessAssumption, BoundAssumption DEF ProbeKill
<1>22. CASE Uninstall
  BY <1>22, ProcessAssumption, BoundAssumption DEF Uninstall
<1>23. CASE UNCHANGED vars
  BY <1>23, ProcessAssumption DEF vars
<1> QED BY <1>1, <1>2, <1>3, <1>4, <1>5, <1>6, <1>7, <1>8, <1>9, <1>10,
           <1>11, <1>12, <1>13, <1>14, <1>15, <1>16, <1>17, <1>18, <1>19, <1>20, <1>21, <1>22, <1>23 DEF Next, DaemonStep, ProbeStep, Open, ProbeSize, ProbeLock

\* The path leaves a daemon's file only by a removal that raced records.
LEMMA PathStep ==
  ASSUME TypeOK, LockInv, PathInv, [Next]_vars
  PROVE  PathInv'
<1> USE DEF TypeOK, LockInv, PathInv, Working, Leaving, file, history, Processes, Inodes, Goto, Opens, Locks, Closes, Unlinks
<1>1. ASSUME NEW d \in Daemons, Create(d) PROVE PathInv'
  BY <1>1, ProcessAssumption, BoundAssumption DEF Create
<1>2. ASSUME NEW d \in Daemons, OpenExisting(d) PROVE PathInv'
  BY <1>2, ProcessAssumption, BoundAssumption DEF OpenExisting
<1>3. ASSUME NEW d \in Daemons, Lock(d) PROVE PathInv'
  BY <1>3, ProcessAssumption, BoundAssumption DEF Lock
<1>4. ASSUME NEW d \in Daemons, Refused(d) PROVE PathInv'
  BY <1>4, ProcessAssumption, BoundAssumption DEF Refused
<1>5. ASSUME NEW d \in Daemons, Truncate(d) PROVE PathInv'
  BY <1>5, ProcessAssumption, BoundAssumption DEF Truncate
<1>6. ASSUME NEW d \in Daemons, WritePid(d) PROVE PathInv'
  BY <1>6, ProcessAssumption, BoundAssumption DEF WritePid
<1>7. ASSUME NEW d \in Daemons, WriteFails(d) PROVE PathInv'
  BY <1>7, ProcessAssumption, BoundAssumption DEF WriteFails
<1>8. ASSUME NEW d \in Daemons, Return(d) PROVE PathInv'
  BY <1>8, ProcessAssumption, BoundAssumption DEF Return
<1>9. ASSUME NEW d \in Daemons, BootCleanup(d) PROVE PathInv'
  BY <1>9, ProcessAssumption, BoundAssumption DEF BootCleanup
<1>10. ASSUME NEW d \in Daemons, Compare(d) PROVE PathInv'
  BY <1>10, ProcessAssumption, BoundAssumption DEF Compare
<1>11. ASSUME NEW d \in Daemons, Unlink(d) PROVE PathInv'
  BY <1>11, ProcessAssumption, BoundAssumption DEF Unlink
<1>12. ASSUME NEW d \in Daemons, Unlock(d) PROVE PathInv'
  BY <1>12, ProcessAssumption, BoundAssumption DEF Unlock
<1>13. ASSUME NEW d \in Daemons, End(d) PROVE PathInv'
  BY <1>13, ProcessAssumption, BoundAssumption DEF End
<1>14. ASSUME NEW p \in Probes, ProbeOpen(p) PROVE PathInv'
  BY <1>14, ProcessAssumption, BoundAssumption DEF ProbeOpen
<1>15. ASSUME NEW p \in Probes, ProbeEmpty(p) PROVE PathInv'
  BY <1>15, ProcessAssumption, BoundAssumption DEF ProbeEmpty
<1>16. ASSUME NEW p \in Probes, ProbeFilled(p) PROVE PathInv'
  BY <1>16, ProcessAssumption, BoundAssumption DEF ProbeFilled
<1>17. ASSUME NEW p \in Probes, ProbeTakes(p) PROVE PathInv'
  BY <1>17, ProcessAssumption, BoundAssumption DEF ProbeTakes
<1>18. ASSUME NEW p \in Probes, ProbeBusy(p) PROVE PathInv'
  BY <1>18, ProcessAssumption, BoundAssumption DEF ProbeBusy
<1>19. ASSUME NEW p \in Probes, ProbeUnlock(p) PROVE PathInv'
  BY <1>19, ProcessAssumption, BoundAssumption DEF ProbeUnlock
<1>20. ASSUME NEW p \in Probes, ProbeRead(p) PROVE PathInv'
  BY <1>20, ProcessAssumption, BoundAssumption DEF ProbeRead
<1>21. ASSUME NEW p \in Probes, NEW other \in BOOLEAN, ProbeKill(p, other) PROVE PathInv'
  BY <1>21, ProcessAssumption, BoundAssumption DEF ProbeKill
<1>22. CASE Uninstall
  <2>1. path' = 0 /\ UNCHANGED <<pc, fd>>
    BY <1>22 DEF Uninstall
  <2>2. ASSUME NEW d \in Daemons, path # 0, fd[d] = path PROVE raced'
    <3>1. d \in Daemons \ {Nobody}
      BY ProcessAssumption
    <3> QED BY <1>22, <2>2, <3>1 DEF Uninstall
  <2>3. ASSUME ~raced', NEW d \in Daemons, pc'[d] \in {"opened"} \cup Working PROVE path' = fd'[d]
    <3>1. ~raced
      BY <1>22, <2>3 DEF Uninstall
    <3>2. pc[d] \in {"opened"} \cup Working /\ path = fd[d]
      BY <2>1, <2>3, <3>1 DEF PathInv
    <3> QED BY <2>1, <2>2, <2>3, <3>2
  <2> QED BY <2>3 DEF PathInv
<1>23. CASE UNCHANGED vars
  BY <1>23, ProcessAssumption DEF vars
<1> QED BY <1>1, <1>2, <1>3, <1>4, <1>5, <1>6, <1>7, <1>8, <1>9, <1>10,
           <1>11, <1>12, <1>13, <1>14, <1>15, <1>16, <1>17, <1>18, <1>19, <1>20, <1>21, <1>22, <1>23 DEF Next, DaemonStep, ProbeStep, Open, ProbeSize, ProbeLock

\* A pid stays in a file that is its owner's, or off the path.
LEMMA TextStep ==
  ASSUME TypeOK, LockInv, TextInv, [Next]_vars
  PROVE  TextInv'
<1> USE DEF TypeOK, LockInv, TextInv, Working, Leaving, file, history, Processes, Inodes, Goto, Opens, Locks, Closes, Unlinks
<1>1. ASSUME NEW d \in Daemons, Create(d) PROVE TextInv'
  BY <1>1, ProcessAssumption, BoundAssumption DEF Create
<1>2. ASSUME NEW d \in Daemons, OpenExisting(d) PROVE TextInv'
  BY <1>2, ProcessAssumption, BoundAssumption DEF OpenExisting
<1>3. ASSUME NEW d \in Daemons, Lock(d) PROVE TextInv'
  BY <1>3, ProcessAssumption, BoundAssumption DEF Lock
<1>4. ASSUME NEW d \in Daemons, Refused(d) PROVE TextInv'
  BY <1>4, ProcessAssumption, BoundAssumption DEF Refused
<1>5. ASSUME NEW d \in Daemons, Truncate(d) PROVE TextInv'
  BY <1>5, ProcessAssumption, BoundAssumption DEF Truncate
<1>6. ASSUME NEW d \in Daemons, WritePid(d) PROVE TextInv'
  BY <1>6, ProcessAssumption, BoundAssumption DEF WritePid
<1>7. ASSUME NEW d \in Daemons, WriteFails(d) PROVE TextInv'
  BY <1>7, ProcessAssumption, BoundAssumption DEF WriteFails
<1>8. ASSUME NEW d \in Daemons, Return(d) PROVE TextInv'
  BY <1>8, ProcessAssumption, BoundAssumption DEF Return
<1>9. ASSUME NEW d \in Daemons, BootCleanup(d) PROVE TextInv'
  BY <1>9, ProcessAssumption, BoundAssumption DEF BootCleanup
<1>10. ASSUME NEW d \in Daemons, Compare(d) PROVE TextInv'
  BY <1>10, ProcessAssumption, BoundAssumption DEF Compare
<1>11. ASSUME NEW d \in Daemons, Unlink(d) PROVE TextInv'
  BY <1>11, ProcessAssumption, BoundAssumption DEF Unlink
<1>12. ASSUME NEW d \in Daemons, Unlock(d) PROVE TextInv'
  BY <1>12, ProcessAssumption, BoundAssumption DEF Unlock
<1>13. ASSUME NEW d \in Daemons, End(d) PROVE TextInv'
  BY <1>13, ProcessAssumption, BoundAssumption DEF End
<1>14. ASSUME NEW p \in Probes, ProbeOpen(p) PROVE TextInv'
  BY <1>14, ProcessAssumption, BoundAssumption DEF ProbeOpen
<1>15. ASSUME NEW p \in Probes, ProbeEmpty(p) PROVE TextInv'
  BY <1>15, ProcessAssumption, BoundAssumption DEF ProbeEmpty
<1>16. ASSUME NEW p \in Probes, ProbeFilled(p) PROVE TextInv'
  BY <1>16, ProcessAssumption, BoundAssumption DEF ProbeFilled
<1>17. ASSUME NEW p \in Probes, ProbeTakes(p) PROVE TextInv'
  BY <1>17, ProcessAssumption, BoundAssumption DEF ProbeTakes
<1>18. ASSUME NEW p \in Probes, ProbeBusy(p) PROVE TextInv'
  BY <1>18, ProcessAssumption, BoundAssumption DEF ProbeBusy
<1>19. ASSUME NEW p \in Probes, ProbeUnlock(p) PROVE TextInv'
  BY <1>19, ProcessAssumption, BoundAssumption DEF ProbeUnlock
<1>20. ASSUME NEW p \in Probes, ProbeRead(p) PROVE TextInv'
  BY <1>20, ProcessAssumption, BoundAssumption DEF ProbeRead
<1>21. ASSUME NEW p \in Probes, NEW other \in BOOLEAN, ProbeKill(p, other) PROVE TextInv'
  BY <1>21, ProcessAssumption, BoundAssumption DEF ProbeKill
<1>22. CASE Uninstall
  BY <1>22, ProcessAssumption, BoundAssumption DEF Uninstall
<1>23. CASE UNCHANGED vars
  BY <1>23, ProcessAssumption DEF vars
<1> QED BY <1>1, <1>2, <1>3, <1>4, <1>5, <1>6, <1>7, <1>8, <1>9, <1>10,
           <1>11, <1>12, <1>13, <1>14, <1>15, <1>16, <1>17, <1>18, <1>19, <1>20, <1>21, <1>22, <1>23 DEF Next, DaemonStep, ProbeStep, Open, ProbeSize, ProbeLock

\* A daemon's pid stays in the file while it runs: nobody else writes there.
LEMMA WrittenStep ==
  ASSUME TypeOK, LockInv, WrittenInv, [Next]_vars
  PROVE  WrittenInv'
<1> USE DEF TypeOK, LockInv, WrittenInv, Working, Leaving, file, history, Processes, Inodes, Goto, Opens, Locks, Closes, Unlinks
<1>1. ASSUME NEW d \in Daemons, Create(d) PROVE WrittenInv'
  BY <1>1, ProcessAssumption, BoundAssumption DEF Create
<1>2. ASSUME NEW d \in Daemons, OpenExisting(d) PROVE WrittenInv'
  BY <1>2, ProcessAssumption, BoundAssumption DEF OpenExisting
<1>3. ASSUME NEW d \in Daemons, Lock(d) PROVE WrittenInv'
  BY <1>3, ProcessAssumption, BoundAssumption DEF Lock
<1>4. ASSUME NEW d \in Daemons, Refused(d) PROVE WrittenInv'
  BY <1>4, ProcessAssumption, BoundAssumption DEF Refused
<1>5. ASSUME NEW d \in Daemons, Truncate(d) PROVE WrittenInv'
  BY <1>5, ProcessAssumption, BoundAssumption DEF Truncate
<1>6. ASSUME NEW d \in Daemons, WritePid(d) PROVE WrittenInv'
  BY <1>6, ProcessAssumption, BoundAssumption DEF WritePid
<1>7. ASSUME NEW d \in Daemons, WriteFails(d) PROVE WrittenInv'
  BY <1>7, ProcessAssumption, BoundAssumption DEF WriteFails
<1>8. ASSUME NEW d \in Daemons, Return(d) PROVE WrittenInv'
  BY <1>8, ProcessAssumption, BoundAssumption DEF Return
<1>9. ASSUME NEW d \in Daemons, BootCleanup(d) PROVE WrittenInv'
  BY <1>9, ProcessAssumption, BoundAssumption DEF BootCleanup
<1>10. ASSUME NEW d \in Daemons, Compare(d) PROVE WrittenInv'
  BY <1>10, ProcessAssumption, BoundAssumption DEF Compare
<1>11. ASSUME NEW d \in Daemons, Unlink(d) PROVE WrittenInv'
  BY <1>11, ProcessAssumption, BoundAssumption DEF Unlink
<1>12. ASSUME NEW d \in Daemons, Unlock(d) PROVE WrittenInv'
  BY <1>12, ProcessAssumption, BoundAssumption DEF Unlock
<1>13. ASSUME NEW d \in Daemons, End(d) PROVE WrittenInv'
  BY <1>13, ProcessAssumption, BoundAssumption DEF End
<1>14. ASSUME NEW p \in Probes, ProbeOpen(p) PROVE WrittenInv'
  BY <1>14, ProcessAssumption, BoundAssumption DEF ProbeOpen
<1>15. ASSUME NEW p \in Probes, ProbeEmpty(p) PROVE WrittenInv'
  BY <1>15, ProcessAssumption, BoundAssumption DEF ProbeEmpty
<1>16. ASSUME NEW p \in Probes, ProbeFilled(p) PROVE WrittenInv'
  BY <1>16, ProcessAssumption, BoundAssumption DEF ProbeFilled
<1>17. ASSUME NEW p \in Probes, ProbeTakes(p) PROVE WrittenInv'
  BY <1>17, ProcessAssumption, BoundAssumption DEF ProbeTakes
<1>18. ASSUME NEW p \in Probes, ProbeBusy(p) PROVE WrittenInv'
  BY <1>18, ProcessAssumption, BoundAssumption DEF ProbeBusy
<1>19. ASSUME NEW p \in Probes, ProbeUnlock(p) PROVE WrittenInv'
  BY <1>19, ProcessAssumption, BoundAssumption DEF ProbeUnlock
<1>20. ASSUME NEW p \in Probes, ProbeRead(p) PROVE WrittenInv'
  BY <1>20, ProcessAssumption, BoundAssumption DEF ProbeRead
<1>21. ASSUME NEW p \in Probes, NEW other \in BOOLEAN, ProbeKill(p, other) PROVE WrittenInv'
  BY <1>21, ProcessAssumption, BoundAssumption DEF ProbeKill
<1>22. CASE Uninstall
  BY <1>22, ProcessAssumption, BoundAssumption DEF Uninstall
<1>23. CASE UNCHANGED vars
  BY <1>23, ProcessAssumption DEF vars
<1> QED BY <1>1, <1>2, <1>3, <1>4, <1>5, <1>6, <1>7, <1>8, <1>9, <1>10,
           <1>11, <1>12, <1>13, <1>14, <1>15, <1>16, <1>17, <1>18, <1>19, <1>20, <1>21, <1>22, <1>23 DEF Next, DaemonStep, ProbeStep, Open, ProbeSize, ProbeLock

\* What a probe may find is of an owner it has seen, or dead.
LEMMA ProbeInvStep ==
  ASSUME TypeOK, LockInv, TextInv, ProbeInv, [Next]_vars
  PROVE  ProbeInv'
<1> USE DEF TypeOK, LockInv, TextInv, ProbeInv, ProbeOf, Alive, Working, Leaving, file, history, Processes, Inodes, Goto, Opens, Locks, Closes, Unlinks
<1>1. ASSUME NEW d \in Daemons, Create(d) PROVE ProbeInv'
  <2>1. \A i \in Inodes : text[i] # d
    <3>1. pc[d] = "new" /\ d # Nobody
      BY <1>1, ProcessAssumption DEF Create
    <3>2. \A i \in Inodes : text[i] # Nobody => pc[text[i]] # "new"
      BY DEF TextInv
    <3> QED BY <3>1, <3>2
  <2>2. \A p \in Probes : pc[p] \in {"kill", "alive"} => pid[p] # d
    BY <1>1 DEF Create
  <2>3. \A p \in Probes : pc[p] \in {"size", "try", "pid"} => fd[p] \in Inodes
    BY BoundAssumption
  <2>4. /\ \A p \in Probes : pc'[p] = pc[p] /\ fd'[p] = fd[p]
        /\ \A e \in Daemons \ {d} : pc'[e] = pc[e]
        /\ owner' = owner /\ text' = text /\ pid' = pid /\ owners' = owners /\ unwritten' = unwritten
    BY <1>1, ProcessAssumption DEF Create
  <2> QED BY <2>1, <2>2, <2>3, <2>4, ProcessAssumption
<1>2. ASSUME NEW d \in Daemons, OpenExisting(d) PROVE ProbeInv'
  BY <1>2, ProcessAssumption, BoundAssumption DEF OpenExisting
<1>3. ASSUME NEW d \in Daemons, Lock(d) PROVE ProbeInv'
  BY <1>3, ProcessAssumption, BoundAssumption DEF Lock
<1>4. ASSUME NEW d \in Daemons, Refused(d) PROVE ProbeInv'
  BY <1>4, ProcessAssumption, BoundAssumption DEF Refused
<1>5. ASSUME NEW d \in Daemons, Truncate(d) PROVE ProbeInv'
  BY <1>5, ProcessAssumption, BoundAssumption DEF Truncate
<1>6. ASSUME NEW d \in Daemons, WritePid(d) PROVE ProbeInv'
  BY <1>6, ProcessAssumption, BoundAssumption DEF WritePid
<1>7. ASSUME NEW d \in Daemons, WriteFails(d) PROVE ProbeInv'
  BY <1>7, ProcessAssumption, BoundAssumption DEF WriteFails
<1>8. ASSUME NEW d \in Daemons, Return(d) PROVE ProbeInv'
  BY <1>8, ProcessAssumption, BoundAssumption DEF Return
<1>9. ASSUME NEW d \in Daemons, BootCleanup(d) PROVE ProbeInv'
  BY <1>9, ProcessAssumption, BoundAssumption DEF BootCleanup
<1>10. ASSUME NEW d \in Daemons, Compare(d) PROVE ProbeInv'
  BY <1>10, ProcessAssumption, BoundAssumption DEF Compare
<1>11. ASSUME NEW d \in Daemons, Unlink(d) PROVE ProbeInv'
  BY <1>11, ProcessAssumption, BoundAssumption DEF Unlink
<1>12. ASSUME NEW d \in Daemons, Unlock(d) PROVE ProbeInv'
  BY <1>12, ProcessAssumption, BoundAssumption DEF Unlock
<1>13. ASSUME NEW d \in Daemons, End(d) PROVE ProbeInv'
  BY <1>13, ProcessAssumption, BoundAssumption DEF End
<1>14. ASSUME NEW p \in Probes, ProbeOpen(p) PROVE ProbeInv'
  BY <1>14, ProcessAssumption, BoundAssumption DEF ProbeOpen
<1>15. ASSUME NEW p \in Probes, ProbeEmpty(p) PROVE ProbeInv'
  BY <1>15, ProcessAssumption, BoundAssumption DEF ProbeEmpty
<1>16. ASSUME NEW p \in Probes, ProbeFilled(p) PROVE ProbeInv'
  BY <1>16, ProcessAssumption, BoundAssumption DEF ProbeFilled
<1>17. ASSUME NEW p \in Probes, ProbeTakes(p) PROVE ProbeInv'
  BY <1>17, ProcessAssumption, BoundAssumption DEF ProbeTakes
<1>18. ASSUME NEW p \in Probes, ProbeBusy(p) PROVE ProbeInv'
  <2>1. fd[p] \in Inodes /\ owner[fd[p]] # Nobody /\ pc[p] = "try"
    BY <1>18, BoundAssumption DEF ProbeBusy
  <2>2. unwritten' = [unwritten EXCEPT ![p] = text[fd[p]] # owner[fd[p]]]
    BY <1>18 DEF ProbeBusy
  <2>3. ~unwritten'[p] => text[fd[p]] = owner[fd[p]]
    <3>1. unwritten \in [Probes -> BOOLEAN]
      BY DEF TypeOK
    <3>2. PICK b \in BOOLEAN : b = (text[fd[p]] # owner[fd[p]])
      OBVIOUS
    <3>3. unwritten' = [unwritten EXCEPT ![p] = b]
      BY <2>2, <3>2, Zenon
    <3>4. unwritten'[p] = b
      BY <3>1, <3>3
    <3> QED BY <3>2, <3>4
  <2>4. ~unwritten'[p] => text[fd[p]] \in owners[p]
    BY <2>1, <2>3
  <2>5. \A q \in Probes \ {p} : unwritten'[q] = unwritten[q] /\ pc'[q] = pc[q]
    BY <1>18, <2>2 DEF ProbeBusy
  <2>6. /\ pc'[p] = "pid" /\ (\A d \in Daemons : pc'[d] = pc[d])
        /\ UNCHANGED <<owner, text, fd, pid, owners>>
    BY <1>18, ProcessAssumption DEF ProbeBusy
  <2>7. \A i \in Inodes : text[i] \in Daemons \cup {Nobody}
    BY DEF TypeOK
  <2>8. \A q \in Probes : pid[q] \in Daemons \cup {Nobody} /\ (pc[q] \in {"size", "try", "pid"} => fd[q] \in Inodes)
    BY BoundAssumption DEF TypeOK, LockInv
  <2>9. ProbeOf(p)
    BY DEF ProbeInv
  <2> HIDE DEF TypeOK, LockInv, TextInv, ProbeInv
  <2>10. ASSUME NEW q \in Probes, q # p PROVE ProbeOf(q)'
    <3>1. ProbeOf(q)
      BY DEF ProbeInv
    <3>2. unwritten'[q] = unwritten[q] /\ pc'[q] = pc[q]
      BY <2>5, <2>10
    <3> QED BY <2>6, <2>7, <2>8, <3>1, <3>2
  <2>11. ProbeOf(p)'
    BY <2>1, <2>4, <2>6, <2>7, <2>9
  <2> QED BY <2>10, <2>11 DEF ProbeInv
<1>19. ASSUME NEW p \in Probes, ProbeUnlock(p) PROVE ProbeInv'
  BY <1>19, ProcessAssumption, BoundAssumption DEF ProbeUnlock
<1>20. ASSUME NEW p \in Probes, ProbeRead(p) PROVE ProbeInv'
  BY <1>20, ProcessAssumption, BoundAssumption DEF ProbeRead
<1>21. ASSUME NEW p \in Probes, NEW other \in BOOLEAN, ProbeKill(p, other) PROVE ProbeInv'
  BY <1>21, ProcessAssumption, BoundAssumption DEF ProbeKill
<1>22. CASE Uninstall
  BY <1>22, ProcessAssumption, BoundAssumption DEF Uninstall
<1>23. CASE UNCHANGED vars
  BY <1>23, ProcessAssumption DEF vars
<1> QED BY <1>1, <1>2, <1>3, <1>4, <1>5, <1>6, <1>7, <1>8, <1>9, <1>10,
           <1>11, <1>12, <1>13, <1>14, <1>15, <1>16, <1>17, <1>18, <1>19, <1>20, <1>21, <1>22, <1>23 DEF Next, DaemonStep, ProbeStep, Open, ProbeSize, ProbeLock

\* A probe keeps hold of the daemon it met.
LEMMA MetStep ==
  ASSUME TypeOK, LockInv, WrittenInv, MetInv, [Next]_vars
  PROVE  MetInv'
<1> USE DEF TypeOK, LockInv, WrittenInv, MetInv, HeldByRunning, Working, Leaving, file, history, Processes, Inodes, Goto, Opens, Locks, Closes, Unlinks
<1>1. ASSUME NEW d \in Daemons, Create(d) PROVE MetInv'
  BY <1>1, ProcessAssumption, BoundAssumption DEF Create
<1>2. ASSUME NEW d \in Daemons, OpenExisting(d) PROVE MetInv'
  BY <1>2, ProcessAssumption, BoundAssumption DEF OpenExisting
<1>3. ASSUME NEW d \in Daemons, Lock(d) PROVE MetInv'
  BY <1>3, ProcessAssumption, BoundAssumption DEF Lock
<1>4. ASSUME NEW d \in Daemons, Refused(d) PROVE MetInv'
  BY <1>4, ProcessAssumption, BoundAssumption DEF Refused
<1>5. ASSUME NEW d \in Daemons, Truncate(d) PROVE MetInv'
  BY <1>5, ProcessAssumption, BoundAssumption DEF Truncate
<1>6. ASSUME NEW d \in Daemons, WritePid(d) PROVE MetInv'
  BY <1>6, ProcessAssumption, BoundAssumption DEF WritePid
<1>7. ASSUME NEW d \in Daemons, WriteFails(d) PROVE MetInv'
  BY <1>7, ProcessAssumption, BoundAssumption DEF WriteFails
<1>8. ASSUME NEW d \in Daemons, Return(d) PROVE MetInv'
  BY <1>8, ProcessAssumption, BoundAssumption DEF Return
<1>9. ASSUME NEW d \in Daemons, BootCleanup(d) PROVE MetInv'
  BY <1>9, ProcessAssumption, BoundAssumption DEF BootCleanup
<1>10. ASSUME NEW d \in Daemons, Compare(d) PROVE MetInv'
  BY <1>10, ProcessAssumption, BoundAssumption DEF Compare
<1>11. ASSUME NEW d \in Daemons, Unlink(d) PROVE MetInv'
  BY <1>11, ProcessAssumption, BoundAssumption DEF Unlink
<1>12. ASSUME NEW d \in Daemons, Unlock(d) PROVE MetInv'
  BY <1>12, ProcessAssumption, BoundAssumption DEF Unlock
<1>13. ASSUME NEW d \in Daemons, End(d) PROVE MetInv'
  BY <1>13, ProcessAssumption, BoundAssumption DEF End
<1>14. ASSUME NEW p \in Probes, ProbeOpen(p) PROVE MetInv'
  BY <1>14, ProcessAssumption, BoundAssumption DEF ProbeOpen
<1>15. ASSUME NEW p \in Probes, ProbeEmpty(p) PROVE MetInv'
  BY <1>15, ProcessAssumption, BoundAssumption DEF ProbeEmpty
<1>16. ASSUME NEW p \in Probes, ProbeFilled(p) PROVE MetInv'
  BY <1>16, ProcessAssumption, BoundAssumption DEF ProbeFilled
<1>17. ASSUME NEW p \in Probes, ProbeTakes(p) PROVE MetInv'
  BY <1>17, ProcessAssumption, BoundAssumption DEF ProbeTakes
<1>18. ASSUME NEW p \in Probes, ProbeBusy(p) PROVE MetInv'
  BY <1>18, ProcessAssumption, BoundAssumption DEF ProbeBusy
<1>19. ASSUME NEW p \in Probes, ProbeUnlock(p) PROVE MetInv'
  BY <1>19, ProcessAssumption, BoundAssumption DEF ProbeUnlock
<1>20. ASSUME NEW p \in Probes, ProbeRead(p) PROVE MetInv'
  BY <1>20, ProcessAssumption, BoundAssumption DEF ProbeRead
<1>21. ASSUME NEW p \in Probes, NEW other \in BOOLEAN, ProbeKill(p, other) PROVE MetInv'
  BY <1>21, ProcessAssumption, BoundAssumption DEF ProbeKill, Alive
<1>22. CASE Uninstall
  BY <1>22, ProcessAssumption, BoundAssumption DEF Uninstall
<1>23. CASE UNCHANGED vars
  BY <1>23, ProcessAssumption DEF vars
<1> QED BY <1>1, <1>2, <1>3, <1>4, <1>5, <1>6, <1>7, <1>8, <1>9, <1>10,
           <1>11, <1>12, <1>13, <1>14, <1>15, <1>16, <1>17, <1>18, <1>19, <1>20, <1>21, <1>22, <1>23 DEF Next, DaemonStep, ProbeStep, Open, ProbeSize, ProbeLock

-----------------------------------------------------------------------------
(* The theorems.                                                           *)

\* Every reachable state satisfies the inductive invariant.
LEMMA Inductive == Spec => []IInv
<1>1. Init => IInv
  <2> SUFFICES ASSUME Init PROVE IInv
    OBVIOUS
  <2>1. TypeOK
    <3>1. created \in 0..MaxInodes /\ path \in 0..created /\ removals \in 0..MaxRemovals
      BY BoundAssumption DEF Init
    <3>2. fd \in [Processes -> 0..created]
      BY DEF Init
    <3>3. raced \in BOOLEAN
      BY DEF Init
    <3>4. unwritten \in [Probes -> BOOLEAN]
      BY DEF Init
    <3> QED BY <3>1, <3>2, <3>3, <3>4 DEF Init, TypeOK
  <2>2. LockInv
    BY ProcessAssumption DEF Init, LockInv, Working, Leaving, Processes
  <2>3. PathInv /\ TextInv /\ WrittenInv /\ ProbeInv /\ MetInv
    BY DEF Init, PathInv, TextInv, WrittenInv, ProbeInv, ProbeOf, MetInv, Working, Processes
  <2> QED BY <2>1, <2>2, <2>3 DEF IInv
<1>2. IInv /\ [Next]_vars => IInv'
  BY TypeStep, LockStep, PathStep, TextStep, WrittenStep, ProbeInvStep, MetStep DEF IInv
<1> QED BY <1>1, <1>2, PTL DEF Spec

\* The state of the lock file and of its users always has its type.
THEOREM TypeCorrect == Spec => []TypeOK
BY Inductive, PTL DEF IInv

\* Two daemons that passed the lock have the same file open, which one of them
\* owns.
LEMMA AtMostOneOwner ==
  ASSUME IInv
  PROVE  OneOwnerUnlessRaced
<1> SUFFICES ASSUME ~raced
             PROVE  /\ Cardinality(Owners) <= 1
                    /\ \A d \in Owners : path = fd[d] /\ owner[path] = d
  BY DEF OneOwnerUnlessRaced
<1>1. \A d \in Owners : path = fd[d] /\ owner[path] = d
  BY DEF IInv, LockInv, PathInv, Owners, Working
<1>2. Cardinality(Owners) <= 1
  <2>1. CASE Owners = {}
    BY <2>1, FS_EmptySet
  <2>2. CASE Owners # {}
    <3>1. PICK d \in Owners : TRUE
      BY <2>2
    <3>2. Owners = {d}
      BY <1>1
    <3> QED BY <3>2, FS_Singleton
  <2> QED BY <2>1, <2>2
<1> QED BY <1>1, <1>2

\* acquire_daemon_lock lets one daemon run at a time for any number of
\* daemons, kills and inodes, until the lock file is removed under one.
THEOREM SingleInstance == Spec => []OneOwnerUnlessRaced
BY Inductive, AtMostOneOwner, PTL

\* daemon_lock_owner_alive reports a daemon that runs throughout the probe,
\* and whatever it reports held the lock meanwhile, unless the lock's holder
\* had not written its pid and the one left in the file has passed on to a
\* process that is no daemon: for any number of daemons and probes.
THEOREM ProbeSound == Spec => []ProbeReportsOwner
<1>1. IInv => ProbeReportsOwner
  BY DEF IInv, ProbeInv, ProbeOf, MetInv, ProbeReportsOwner
<1> QED BY <1>1, Inductive, PTL

=============================================================================
