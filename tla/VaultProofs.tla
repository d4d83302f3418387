------------------------------ MODULE VaultProofs ------------------------------
(***************************************************************************)
(* Proofs about the vault's files: about VaultTransfer, for every number   *)
(* of files, every set of contents and every number of file system         *)
(* failures, then about VaultStore, for every set of items and passwords   *)
(* and every number of keys, operations and failures.                      *)
(*                                                                         *)
(* None of the safety properties is inductive by itself.  IInv says, for   *)
(* each place the receiving process can be in, where the files of the old  *)
(* and of the new vault are.  StoreInv says what the two writers of a      *)
(* stored vault have still to do, which key each file is readable with,    *)
(* and where the last complete vault is during a password change.          *)
(***************************************************************************)
EXTENDS VaultTransfer, VaultStore, SequenceTheorems, FiniteSetTheorems, TLAPS


\* Every file of the vault that no command wrote among the moves is live or in
\* the backup, and the backup holds nothing else.
Restorable ==
    \A f \in Files : /\ f \notin beside /\ base[f] # Absent => base[f] \in {live[f], backup[f]}
                     /\ backup[f] # Absent => backup[f] = base[f]

\* What the start of the program must be able to tell from the directory: with
\* a backup and without vault.age the backup is needed, else it is not.
Readable == IF Unfinished THEN Restorable ELSE Holds(live, base)

\* The commit is over: but for what commands wrote, the live directory is the new
\* vault, and the recovery will see that it is.
NewVaultStands ==
    /\ \A f \in Files \ beside : live[f] = incoming[f] /\ base[f] = incoming[f]
    /\ ~Unfinished

ReceiveInv ==
    pc \in {"begin", "recv"} =>
       /\ incoming[VaultFile] # Absent
       /\ "staging" \in dirs =>
             \A f \in Files : staging[f] = IF f \in todo THEN Absent ELSE incoming[f]

BackupInv ==
    pc = "backup" =>
       /\ gaps = {} /\ incoming[VaultFile] # Absent
       /\ "staging" \in dirs => staging = incoming
       /\ \A f \in Files :
             IF f \in todo THEN live[f] = base[f] /\ backup[f] = Absent
                           ELSE backup[f] = base[f] /\ (f \in beside \/ live[f] = Absent)

CommitInv ==
    pc = "commit" =>
       /\ gaps = {} /\ incoming[VaultFile] # Absent
       /\ \A f \in todo : staging[f] \in {incoming[f], Absent}
       /\ \A f \in Files \ beside : live[f] = IF f \in todo THEN Absent ELSE incoming[f]
       /\ IF VaultFile \in todo THEN backup = base ELSE todo = {} /\ NewVaultStands

SweepInv == pc \in {"sweep", "finish"} => gaps = {} /\ NewVaultStands

RollbackInv ==
    /\ pc \in {"list", "rollback"} /\ gaps = {} => Restorable
    /\ pc = "rollback" /\ gaps = {} => Entries(backup) \subseteq todo

RecoveryInv ==
    /\ pc \in {"down", "cleanup", "inspect"} /\ gaps = {} => Readable
    /\ pc = "discard" => live[VaultFile] # Absent /\ "backup" \in dirs
    /\ pc = "discard" /\ gaps = {} => Holds(live, base)

SettledInv ==
    Settled /\ gaps = {} => "backup" \notin dirs /\ Holds(live, base)

NoDirectoryNoFiles == "backup" \notin dirs => backup = Empty

IInv ==
    /\ TypeOK /\ NoDirectoryNoFiles
    /\ ReceiveInv /\ BackupInv /\ CommitInv /\ SweepInv
    /\ RollbackInv /\ RecoveryInv /\ SettledInv

--------------------------------------------------------------------------------
(* Type correctness *)

LEMMA FilesNat == Files \subseteq Nat /\ VaultFile \in Files
  BY VaultFileAssumption DEF Files

LEMMA EmptyType == Empty \in Directory
  BY DEF Empty, Directory

LEMMA InitType == Init => TypeOK
  BY EmptyType, FaultsAssumption DEF Init, TypeOK, Vaults

\* Every action keeps the variables in their sets.
LEMMA NextType == TypeOK /\ [Next]_vars => TypeOK'
  <1> SUFFICES ASSUME TypeOK, [Next]_vars PROVE TypeOK'
    OBVIOUS
  <1> USE FaultsAssumption DEF TypeOK, Directory
  <1>1. ASSUME NEW f \in Files, NEW c \in Contents \cup {Absent}, LocalWrite(f, c)
        PROVE TypeOK'
    BY <1>1 DEF LocalWrite
  <1>2. CASE DeleteVault
    BY <1>2, EmptyType DEF DeleteVault
  <1>3. ASSUME NEW v \in Vaults, BeginReceive(v)
        PROVE TypeOK'
    BY <1>3, EmptyType DEF BeginReceive, Vaults, Entries
  <1>4. CASE PrepareFails
    BY <1>4, EmptyType DEF PrepareFails, Fault
  <1>5. CASE RecvBegin
    BY <1>5 DEF RecvBegin
  <1>6. CASE RecvBeginFails
    BY <1>6 DEF RecvBeginFails
  <1>7. ASSUME NEW f \in Files, RecvFile(f)
        PROVE TypeOK'
    BY <1>7 DEF RecvFile
  <1>8. CASE RecvFails
    BY <1>8, EmptyType DEF RecvFails
  <1>9. CASE StartCommit
    BY <1>9, EmptyType DEF StartCommit, BeginCommit, Entries
  <1>10. CASE StartCommitFails
    <2>1. CASE "staging" \notin dirs
      BY <1>10, <2>1 DEF StartCommitFails
    <2>2. CASE "staging" \in dirs
      <3>1. faults' \in 0 .. MaxFaults
        BY <1>10, <2>2 DEF StartCommitFails, Fault
      <3>2. backup' \in Directory /\ dirs' \in SUBSET {"staging", "backup"}
        BY <1>10, <2>2, EmptyType DEF StartCommitFails
      <3> QED
        BY <1>10, <3>1, <3>2 DEF StartCommitFails
    <2> QED
      BY <2>1, <2>2
  <1>11. ASSUME NEW f \in Files, BackupFile(f)
        PROVE TypeOK'
    BY <1>11 DEF BackupFile
  <1>12. CASE BackupFails
    BY <1>12 DEF BackupFails, RenameFails, CannotRename, Fault, StartRollback
  <1>13. CASE BackupDone
    BY <1>13 DEF BackupDone, Entries
  <1>14. CASE ListStagingFails
    BY <1>14 DEF ListStagingFails, Fault, StartRollback
  <1>15. ASSUME NEW f \in Files, CommitFile(f)
        PROVE TypeOK'
    BY <1>15 DEF CommitFile
  <1>16. CASE CommitFails
    BY <1>16 DEF CommitFails, RenameFails, CannotRename, Fault, StartRollback
  <1>17. CASE CommitDone
    BY <1>17 DEF CommitDone
  <1>18. CASE Sweep
    BY <1>18, EmptyType DEF Sweep
  <1>19. CASE Finish
    BY <1>19, EmptyType DEF Finish
  <1>20. CASE RollbackList
    BY <1>20 DEF RollbackList, Entries
  <1>21. CASE RollbackListFails
    BY <1>21 DEF RollbackListFails, Fault
  <1>22. ASSUME NEW f \in Files, RollbackFile(f)
        PROVE TypeOK'
    BY <1>22 DEF RollbackFile
  <1>23. CASE RollbackFileFails
    BY <1>23 DEF RollbackFileFails, RenameFails, CannotRename, Fault
  <1>24. CASE RollbackDone
    BY <1>24, EmptyType DEF RollbackDone
  <1>25. ASSUME NEW left \in SUBSET Files, Crash(left)
        PROVE TypeOK'
    <2>1. staging' \in Directory /\ backup' \in Directory
      BY <1>25 DEF Crash, Remains, Directory
    <2>2. incoming' \in Directory
      BY <1>25, EmptyType DEF Crash
    <2>3. /\ UNCHANGED <<live, dirs, faults, base, beside>>
          /\ pc' = "down" /\ todo' = {} /\ outcome' = "crashed"
          /\ gaps' \in {gaps, gaps \cup {"backup_cut"}}
      BY <1>25 DEF Crash
    <2> QED
      BY <2>1, <2>2, <2>3
  <1>26. CASE Restart
    BY <1>26 DEF Restart
  <1>27. CASE CleanupStaging
    BY <1>27, EmptyType DEF CleanupStaging
  <1>28. CASE CleanupInspect
    BY <1>28 DEF CleanupInspect
  <1>29. CASE CleanupDiscard
    BY <1>29, EmptyType DEF CleanupDiscard
  <1>30. CASE UNCHANGED vars
    BY <1>30 DEF vars
  <1> QED
    BY <1>1, <1>2, <1>3, <1>4, <1>5, <1>6, <1>7, <1>8, <1>9, <1>10, <1>11, <1>12,
       <1>13, <1>14, <1>15, <1>16, <1>17, <1>18, <1>19, <1>20, <1>21, <1>22, <1>23,
       <1>24, <1>25, <1>26, <1>27, <1>28, <1>29, <1>30
       DEF Next, Process, Receive, Commit, Rollback, Cleanup

\* Type correctness of the receiver, in every reachable state.
THEOREM TypeCorrect == Spec => []TypeOK
  <1>1. Init => TypeOK
    BY InitType
  <1>2. TypeOK /\ [Next]_vars => TypeOK'
    BY NextType
  <1> QED
    BY <1>1, <1>2, PTL DEF Spec

--------------------------------------------------------------------------------
(* The inductive invariant *)

LEMMA InitIInv == Init => IInv
  <1> SUFFICES ASSUME Init PROVE IInv
    OBVIOUS
  <1>1. TypeOK
    BY InitType
  <1>2. NoDirectoryNoFiles /\ SettledInv
    BY DEF Init, NoDirectoryNoFiles, SettledInv, Settled, Holds
  <1>3. ReceiveInv /\ BackupInv /\ CommitInv /\ SweepInv /\ RollbackInv /\ RecoveryInv
    BY DEF Init, ReceiveInv, BackupInv, CommitInv, SweepInv, RollbackInv, RecoveryInv
  <1> QED
    BY <1>1, <1>2, <1>3 DEF IInv

\* Two directories with the same files are the same directory.
LEMMA SameFiles ==
  ASSUME NEW d \in Directory, NEW e \in Directory, \A f \in Files : d[f] = e[f]
  PROVE  d = e
  BY DEF Directory

\* Every action preserves IInv.  In each case the conjuncts about other places
\* of the process hold because the step leaves what they speak of, or does not
\* lead there; the ones the action can disturb follow, one by one.
LEMMA NextIInv == IInv /\ TypeOK' /\ [Next]_vars => IInv'
  <1> SUFFICES ASSUME IInv, TypeOK', [Next]_vars PROVE IInv'
    OBVIOUS
  <1> USE DEF IInv
  <1>1. ASSUME NEW f \in Files, NEW c \in Contents \cup {Absent}, LocalWrite(f, c)
        PROVE IInv'
    <2>1. /\ live' \in Directory /\ live'[f] = c
          /\ f = VaultFile => c # Absent
          /\ \A g \in Files \ {f} : live'[g] = live[g]
      BY <1>1 DEF LocalWrite, TypeOK, Directory
    <2>2. /\ base' \in Directory
          /\ base'[f] = IF Owned(f) THEN c ELSE base[f]
          /\ \A g \in Files \ {f} : base'[g] = base[g]
          /\ f \in beside' <=> ~Owned(f)
          /\ \A g \in Files \ {f} : g \in beside' <=> g \in beside
          /\ ~Owned(f) => base' = base
      BY <1>1 DEF LocalWrite, TypeOK, Directory
    <2>3. UNCHANGED <<staging, backup, dirs, pc, todo, incoming, outcome, faults>>
      BY <1>1 DEF LocalWrite
    <2>4. /\ gaps' = {} => gaps = {}
          /\ pc \notin {"down", "cleanup", "inspect"} => gaps' = gaps
      BY <1>1 DEF LocalWrite
    <2>5. Unfinished' => Unfinished /\ f # VaultFile
      BY <2>1, <2>3, FilesNat DEF Unfinished
    <2>6. NoDirectoryNoFiles' /\ ReceiveInv'
      BY <2>3 DEF NoDirectoryNoFiles, ReceiveInv
    <2>7. BackupInv'
      BY <2>1, <2>2, <2>3, <2>4 DEF BackupInv, Owned, Settled
    <2>8. CommitInv'
      BY <2>1, <2>2, <2>3, <2>4, <2>5 DEF CommitInv, NewVaultStands, Owned, Settled
    <2>9. SweepInv'
      BY <2>1, <2>2, <2>3, <2>4, <2>5 DEF SweepInv, NewVaultStands, Owned, Settled
    <2>10. RollbackInv'
      BY <2>1, <2>2, <2>3, <2>4 DEF RollbackInv, Restorable, Entries, Owned, Settled
    <2>11. RecoveryInv'
      <3>1. pc = "discard" => live'[VaultFile] # Absent /\ "backup" \in dirs
        BY <2>1, FilesNat DEF RecoveryInv
      <3>2. ASSUME Owned(f), Holds(live, base) PROVE Holds(live, base)'
        BY <2>1, <2>2, <3>2 DEF Holds
      <3>3. ASSUME pc \in {"down", "cleanup", "inspect"}, gaps' = {} PROVE Readable'
        <4>1. CASE Unfinished
          <5>1. f # VaultFile
            BY <1>1, <3>3, <4>1 DEF LocalWrite
          <5>2. Unfinished'
            BY <2>1, <2>3, <4>1, <5>1, FilesNat DEF Unfinished
          <5>3. ~Owned(f)
            BY <3>3, <4>1 DEF Owned, Settled
          <5>4. Restorable
            BY <2>4, <3>3, <4>1 DEF RecoveryInv, Readable
          <5>5. Restorable'
            BY <2>1, <2>2, <2>3, <5>3, <5>4 DEF Restorable
          <5> QED
            BY <5>2, <5>5 DEF Readable
        <4>2. CASE ~Unfinished
          <5>1. Owned(f)
            BY <3>3, <4>2 DEF Owned
          <5>2. Holds(live, base)
            BY <2>4, <3>3, <4>2 DEF RecoveryInv, Readable
          <5> QED
            BY <2>5, <3>2, <4>2, <5>1, <5>2 DEF Readable
        <4> QED
          BY <4>1, <4>2
      <3>4. ASSUME pc = "discard", gaps' = {} PROVE Holds(live, base)'
        BY <2>4, <3>2, <3>4 DEF Owned, RecoveryInv
      <3> QED
        BY <2>3, <3>1, <3>3, <3>4 DEF RecoveryInv
    <2>12. SettledInv'
      BY <2>1, <2>2, <2>3, <2>4 DEF SettledInv, Settled, Owned, Holds
    <2> QED
      BY <2>6, <2>7, <2>8, <2>9, <2>10, <2>11, <2>12
  <1>2. CASE DeleteVault
    <2>1. /\ live' = Empty /\ staging' = Empty /\ backup' = Empty /\ dirs' = {}
          /\ base' = Empty /\ ~Unfinished'
          /\ UNCHANGED <<pc, todo, incoming>>
          /\ ~Settled => beside' = Files /\ gaps' = gaps
          /\ pc \notin {"down", "cleanup", "inspect", "discard"}
      BY <1>2 DEF DeleteVault, Moving, Settled, Unfinished
    <2>2. NoDirectoryNoFiles' /\ ReceiveInv' /\ RecoveryInv'
      BY <2>1 DEF NoDirectoryNoFiles, ReceiveInv, RecoveryInv
    <2>3. BackupInv'
      BY <2>1 DEF BackupInv, Settled, Empty
    <2>4. CommitInv' /\ SweepInv'
      <3>1. pc \in {"commit", "sweep", "finish"} => NewVaultStands'
        BY <2>1 DEF NewVaultStands, Settled
      <3>2. SweepInv'
        BY <2>1, <3>1 DEF SweepInv, Settled
      <3>3. CommitInv'
        <4> SUFFICES ASSUME pc = "commit" PROVE CommitInv'
          BY <2>1 DEF CommitInv
        <4>1. beside' = Files /\ gaps' = {} /\ incoming' = incoming /\ todo' = todo
          BY <2>1 DEF CommitInv, Settled
        <4>2. \A f \in todo : staging'[f] = Absent
          BY <2>1 DEF Empty, TypeOK
        <4>3. backup' = base'
          BY <2>1
        <4> QED
          BY <2>1, <3>1, <4>1, <4>2, <4>3 DEF CommitInv
      <3> QED
        BY <3>2, <3>3
    <2>5. RollbackInv'
      BY <2>1 DEF RollbackInv, Restorable, Entries, Settled, Empty
    <2>6. SettledInv'
      BY <2>1 DEF SettledInv, Holds, Empty
    <2> QED
      BY <2>2, <2>3, <2>4, <2>5, <2>6
  <1>3. ASSUME NEW v \in Vaults, BeginReceive(v)
        PROVE IInv'
    <2>1. /\ NoDirectoryNoFiles' /\ BackupInv' /\ CommitInv' /\ SweepInv'
          /\ RollbackInv' /\ RecoveryInv' /\ SettledInv'
      BY <1>3 DEF BeginReceive, Settled, NoDirectoryNoFiles, BackupInv, CommitInv,
             SweepInv, RollbackInv, RecoveryInv, SettledInv, Holds
    <2>2. ReceiveInv'
      BY <1>3 DEF ReceiveInv, BeginReceive, Entries, Empty, Vaults
    <2> QED
      BY <2>1, <2>2
  <1>4. CASE PrepareFails
    <2>1. /\ NoDirectoryNoFiles' /\ ReceiveInv' /\ BackupInv' /\ CommitInv'
          /\ SweepInv' /\ RollbackInv' /\ RecoveryInv' /\ SettledInv'
      BY <1>4 DEF PrepareFails, Settled, NoDirectoryNoFiles, ReceiveInv, BackupInv,
             CommitInv, SweepInv, RollbackInv, RecoveryInv, SettledInv, Holds
    <2> QED
      BY <2>1
  <1>5. CASE RecvBegin
    <2>1. /\ NoDirectoryNoFiles' /\ ReceiveInv' /\ BackupInv' /\ CommitInv'
          /\ SweepInv' /\ RollbackInv' /\ RecoveryInv' /\ SettledInv'
      BY <1>5 DEF RecvBegin, Settled, NoDirectoryNoFiles, ReceiveInv, BackupInv,
             CommitInv, SweepInv, RollbackInv, RecoveryInv, SettledInv, Holds
    <2> QED
      BY <2>1
  <1>6. CASE RecvBeginFails
    <2>1. /\ NoDirectoryNoFiles' /\ ReceiveInv' /\ BackupInv' /\ CommitInv'
          /\ SweepInv' /\ RollbackInv' /\ RecoveryInv' /\ SettledInv'
      BY <1>6 DEF RecvBeginFails, Settled, NoDirectoryNoFiles, ReceiveInv, BackupInv,
             CommitInv, SweepInv, RollbackInv, RecoveryInv, SettledInv, Holds
    <2> QED
      BY <2>1
  <1>7. ASSUME NEW f \in Files, RecvFile(f)
        PROVE IInv'
    <2>1. /\ NoDirectoryNoFiles' /\ BackupInv' /\ CommitInv' /\ SweepInv'
          /\ RollbackInv' /\ RecoveryInv' /\ SettledInv'
      BY <1>7 DEF RecvFile, Settled, NoDirectoryNoFiles, BackupInv, CommitInv,
             SweepInv, RollbackInv, RecoveryInv, SettledInv, Holds
    <2>2. ReceiveInv'
      BY <1>7 DEF ReceiveInv, RecvFile, TypeOK, Directory
    <2> QED
      BY <2>1, <2>2
  <1>8. CASE RecvFails
    <2>1. /\ NoDirectoryNoFiles' /\ ReceiveInv' /\ BackupInv' /\ CommitInv'
          /\ SweepInv' /\ RollbackInv' /\ RecoveryInv' /\ SettledInv'
      BY <1>8 DEF RecvFails, Settled, NoDirectoryNoFiles, ReceiveInv, BackupInv,
             CommitInv, SweepInv, RollbackInv, RecoveryInv, SettledInv, Holds
    <2> QED
      BY <2>1
  <1>9. CASE StartCommit
    <2>1. /\ NoDirectoryNoFiles' /\ ReceiveInv' /\ CommitInv' /\ SweepInv'
          /\ RollbackInv' /\ RecoveryInv' /\ SettledInv'
      BY <1>9 DEF StartCommit, BeginCommit, Settled, NoDirectoryNoFiles, ReceiveInv,
             CommitInv, SweepInv, RollbackInv, RecoveryInv, SettledInv, Holds
    <2>2. BackupInv'
      <3>1. \A f \in Files : staging[f] = incoming[f]
        BY <1>9 DEF ReceiveInv, StartCommit, BeginCommit
      <3>2. staging = incoming
        BY <3>1, SameFiles DEF TypeOK
      <3> QED
        BY <1>9, <3>2 DEF BackupInv, ReceiveInv, StartCommit, BeginCommit, Entries,
             Empty
    <2> QED
      BY <2>1, <2>2
  <1>10. CASE StartCommitFails
    <2>1. /\ NoDirectoryNoFiles' /\ ReceiveInv' /\ BackupInv' /\ CommitInv'
          /\ SweepInv' /\ RollbackInv' /\ RecoveryInv' /\ SettledInv'
      BY <1>10 DEF StartCommitFails, Settled, NoDirectoryNoFiles, ReceiveInv,
             BackupInv, CommitInv, SweepInv, RollbackInv, RecoveryInv, SettledInv,
             Holds
    <2> QED
      BY <2>1
  <1>11. ASSUME NEW f \in Files, BackupFile(f)
         PROVE IInv'
    <2>1. /\ ReceiveInv' /\ CommitInv' /\ SweepInv' /\ RollbackInv'
          /\ RecoveryInv' /\ SettledInv'
      BY <1>11 DEF BackupFile, Settled, ReceiveInv, CommitInv, SweepInv, RollbackInv,
             RecoveryInv, SettledInv, Holds
    <2>2. NoDirectoryNoFiles'
      BY <1>11 DEF NoDirectoryNoFiles, BackupFile, CannotRename
    <2>3. BackupInv'
      BY <1>11 DEF BackupInv, BackupFile, TypeOK, Directory, CannotRename, IsFirst
    <2> QED
      BY <2>1, <2>2, <2>3
  <1>12. CASE BackupFails
    <2>1. /\ NoDirectoryNoFiles' /\ ReceiveInv' /\ BackupInv' /\ CommitInv'
          /\ SweepInv' /\ RecoveryInv' /\ SettledInv'
      BY <1>12 DEF BackupFails, StartRollback, Settled, NoDirectoryNoFiles,
             ReceiveInv, BackupInv, CommitInv, SweepInv, RecoveryInv, SettledInv,
             Holds
    <2>2. RollbackInv'
      BY <1>12 DEF RollbackInv, BackupFails, BackupInv, Restorable, StartRollback
    <2> QED
      BY <2>1, <2>2
  <1>13. CASE BackupDone
    <2>1. /\ NoDirectoryNoFiles' /\ ReceiveInv' /\ BackupInv' /\ SweepInv'
          /\ RollbackInv' /\ RecoveryInv' /\ SettledInv'
      BY <1>13 DEF BackupDone, Settled, NoDirectoryNoFiles, ReceiveInv, BackupInv,
             SweepInv, RollbackInv, RecoveryInv, SettledInv, Holds
    <2>2. CommitInv'
      <3>1. /\ gaps' = {} /\ "staging" \in dirs /\ staging = incoming
            /\ incoming'[VaultFile] # Absent
        BY <1>13 DEF BackupInv, BackupDone
      <3>2. \A f \in Files : backup[f] = base[f] /\ (f \in beside \/ live[f] = Absent)
        BY <1>13 DEF BackupInv, BackupDone
      <3>3. backup' = base'
        BY <1>13, <3>2, SameFiles DEF TypeOK, BackupDone
      <3>4. VaultFile \in todo'
        BY <1>13, <3>1, FilesNat DEF BackupDone, Entries
      <3>5. /\ \A f \in todo' : staging'[f] \in {incoming'[f], Absent}
            /\ \A f \in Files \ beside' :
                  live'[f] = IF f \in todo' THEN Absent ELSE incoming'[f]
        BY <1>13, <3>1, <3>2 DEF BackupDone, Entries
      <3> QED
        BY <3>1, <3>3, <3>4, <3>5 DEF CommitInv
    <2> QED
      BY <2>1, <2>2
  <1>14. CASE ListStagingFails
    <2>1. /\ NoDirectoryNoFiles' /\ ReceiveInv' /\ BackupInv' /\ CommitInv'
          /\ SweepInv' /\ RecoveryInv' /\ SettledInv'
      BY <1>14 DEF ListStagingFails, StartRollback, Settled, NoDirectoryNoFiles,
             ReceiveInv, BackupInv, CommitInv, SweepInv, RecoveryInv, SettledInv,
             Holds
    <2>2. RollbackInv'
      BY <1>14 DEF RollbackInv, ListStagingFails, BackupInv, Restorable,
             StartRollback
    <2> QED
      BY <2>1, <2>2
  <1>15. ASSUME NEW f \in Files, CommitFile(f)
         PROVE IInv'
    <2>1. /\ NoDirectoryNoFiles' /\ ReceiveInv' /\ BackupInv' /\ SweepInv'
          /\ RollbackInv' /\ RecoveryInv' /\ SettledInv'
      BY <1>15 DEF CommitFile, Settled, NoDirectoryNoFiles, ReceiveInv, BackupInv,
             SweepInv, RollbackInv, RecoveryInv, SettledInv, Holds
    <2>2. CommitInv'
      <3>1. VaultFile \in todo
        BY <1>15 DEF CommitInv, CommitFile, IsFirst
      <3>2. /\ live' \in Directory /\ live'[f] = incoming[f]
            /\ \A g \in Files \ {f} : live'[g] = live[g] /\ staging'[g] = staging[g]
            /\ todo' = todo \ {f} /\ beside' = beside \ {f} /\ pc = "commit"
            /\ UNCHANGED <<incoming, gaps, backup, dirs>>
        BY <1>15 DEF CommitInv, CommitFile, CannotRename, IsFirst, TypeOK, Directory
      <3>3. /\ gaps' = {} /\ incoming'[VaultFile] # Absent
            /\ \A g \in todo' : staging'[g] \in {incoming'[g], Absent}
        BY <3>2 DEF CommitInv, TypeOK
      <3>4. \A g \in Files \ beside' :
               live'[g] = IF g \in todo' THEN Absent ELSE incoming'[g]
        BY <3>2 DEF CommitInv
      <3>5. CASE f = VaultFile
        <4>1. todo' = {}
          BY <1>15, <3>5, VaultFileAssumption DEF CommitFile, IsFirst, Files, TypeOK
        <4>2. base' = incoming
          BY <1>15, <3>5 DEF CommitFile
        <4>3. live'[VaultFile] # Absent
          BY <3>2, <3>3, <3>5
        <4>4. NewVaultStands'
          BY <3>2, <3>4, <4>1, <4>2, <4>3 DEF NewVaultStands, Unfinished
        <4> QED
          BY <3>3, <3>4, <4>1, <4>4 DEF CommitInv
      <3>6. CASE f # VaultFile
        <4>1. base' = base /\ backup' = base' /\ VaultFile \in todo'
          BY <1>15, <3>1, <3>2, <3>6 DEF CommitInv, CommitFile
        <4> QED
          BY <3>3, <3>4, <4>1 DEF CommitInv
      <3> QED
        BY <3>5, <3>6
    <2> QED
      BY <2>1, <2>2
  <1>16. CASE CommitFails
    <2>1. /\ NoDirectoryNoFiles' /\ ReceiveInv' /\ BackupInv' /\ CommitInv'
          /\ SweepInv' /\ RecoveryInv' /\ SettledInv'
      BY <1>16 DEF CommitFails, StartRollback, Settled, NoDirectoryNoFiles,
             ReceiveInv, BackupInv, CommitInv, SweepInv, RecoveryInv, SettledInv,
             Holds
    <2>2. RollbackInv'
      BY <1>16 DEF RollbackInv, CommitFails, CommitInv, Restorable, StartRollback
    <2> QED
      BY <2>1, <2>2
  <1>17. CASE CommitDone
    <2>1. /\ NoDirectoryNoFiles' /\ ReceiveInv' /\ BackupInv' /\ CommitInv'
          /\ RollbackInv' /\ RecoveryInv' /\ SettledInv'
      BY <1>17 DEF CommitDone, Settled, NoDirectoryNoFiles, ReceiveInv, BackupInv,
             CommitInv, RollbackInv, RecoveryInv, SettledInv, Holds
    <2>2. SweepInv'
      BY <1>17, FilesNat DEF CommitInv, SweepInv, CommitDone, NewVaultStands, Unfinished
    <2> QED
      BY <2>1, <2>2
  <1>18. CASE Sweep
    <2>1. /\ NoDirectoryNoFiles' /\ ReceiveInv' /\ BackupInv' /\ CommitInv'
          /\ SweepInv' /\ RollbackInv' /\ RecoveryInv' /\ SettledInv'
      BY <1>18 DEF Sweep, Settled, NoDirectoryNoFiles, ReceiveInv, BackupInv,
             CommitInv, SweepInv, RollbackInv, RecoveryInv, SettledInv, Holds,
             NewVaultStands, Unfinished
    <2> QED
      BY <2>1
  <1>19. CASE Finish
    <2>1. /\ NoDirectoryNoFiles' /\ ReceiveInv' /\ BackupInv' /\ CommitInv'
          /\ SweepInv' /\ RollbackInv' /\ RecoveryInv'
      BY <1>19 DEF Finish, NoDirectoryNoFiles, ReceiveInv, BackupInv, CommitInv,
             SweepInv, RollbackInv, RecoveryInv
    <2>2. SettledInv'
      BY <1>19 DEF SettledInv, Finish, SweepInv, NewVaultStands, Holds
    <2> QED
      BY <2>1, <2>2
  <1>20. CASE RollbackList
    <2>1. /\ NoDirectoryNoFiles' /\ ReceiveInv' /\ BackupInv' /\ CommitInv'
          /\ SweepInv' /\ RecoveryInv' /\ SettledInv'
      BY <1>20 DEF RollbackList, Settled, NoDirectoryNoFiles, ReceiveInv, BackupInv,
             CommitInv, SweepInv, RecoveryInv, SettledInv, Holds
    <2>2. RollbackInv'
      BY <1>20 DEF RollbackInv, RollbackList, Restorable
    <2> QED
      BY <2>1, <2>2
  <1>21. CASE RollbackListFails
    <2>1. /\ NoDirectoryNoFiles' /\ ReceiveInv' /\ BackupInv' /\ CommitInv'
          /\ SweepInv' /\ RollbackInv' /\ RecoveryInv' /\ SettledInv'
      BY <1>21 DEF RollbackListFails, NoDirectoryNoFiles, ReceiveInv, BackupInv,
             CommitInv, SweepInv, RollbackInv, RecoveryInv, SettledInv, Holds
    <2> QED
      BY <2>1
  <1>22. ASSUME NEW f \in Files, RollbackFile(f)
         PROVE IInv'
    <2>1. /\ ReceiveInv' /\ BackupInv' /\ CommitInv' /\ SweepInv'
          /\ RecoveryInv' /\ SettledInv'
      BY <1>22 DEF RollbackFile, Settled, ReceiveInv, BackupInv, CommitInv, SweepInv,
             RecoveryInv, SettledInv, Holds
    <2>2. NoDirectoryNoFiles'
      BY <1>22 DEF NoDirectoryNoFiles, RollbackFile, Empty, CannotRename
    <2>3. RollbackInv'
      BY <1>22 DEF RollbackInv, RollbackFile, TypeOK, Directory, Restorable, Entries,
             CannotRename
    <2> QED
      BY <2>1, <2>2, <2>3
  <1>23. CASE RollbackFileFails
    <2>1. /\ NoDirectoryNoFiles' /\ ReceiveInv' /\ BackupInv' /\ CommitInv'
          /\ SweepInv' /\ RollbackInv' /\ RecoveryInv' /\ SettledInv'
      BY <1>23 DEF RollbackFileFails, NoDirectoryNoFiles, ReceiveInv, BackupInv,
             CommitInv, SweepInv, RollbackInv, RecoveryInv, SettledInv, Holds
    <2> QED
      BY <2>1
  <1>24. CASE RollbackDone
    <2>1. /\ NoDirectoryNoFiles' /\ ReceiveInv' /\ BackupInv' /\ CommitInv'
          /\ SweepInv' /\ RollbackInv' /\ RecoveryInv'
      BY <1>24 DEF RollbackDone, NoDirectoryNoFiles, ReceiveInv, BackupInv,
             CommitInv, SweepInv, RollbackInv, RecoveryInv
    <2>2. SettledInv'
      BY <1>24 DEF SettledInv, RollbackDone, RollbackInv, Restorable, Holds, Entries
    <2> QED
      BY <2>1, <2>2
  <1>25. ASSUME NEW left \in SUBSET Files, Crash(left)
         PROVE IInv'
    <2>1. /\ ReceiveInv' /\ BackupInv' /\ CommitInv' /\ SweepInv'
          /\ RollbackInv' /\ SettledInv'
      BY <1>25 DEF Crash, Settled, ReceiveInv, BackupInv, CommitInv, SweepInv,
             RollbackInv, SettledInv, Holds
    <2>2. NoDirectoryNoFiles'
      <3>1. backup = Empty => backup' = Empty
        BY <1>25 DEF Crash, Remains, Empty
      <3> QED
        BY <1>25, <3>1 DEF NoDirectoryNoFiles, Crash
    <2>3. RecoveryInv'
      <3> SUFFICES ASSUME gaps' = {} PROVE Readable'
        BY <1>25 DEF RecoveryInv, Crash
      <3>1. gaps = {} /\ ~HalfBackedUp
        BY <1>25 DEF Crash
      <3>2. /\ UNCHANGED <<live, base, dirs, beside>>
            /\ Unfinished' = Unfinished /\ Holds(live, base)' = Holds(live, base)
        BY <1>25 DEF Crash, Unfinished, Holds
      <3>3. ASSUME backup' = backup, Readable PROVE Readable'
        BY <3>2, <3>3 DEF Readable, Restorable
      <3>4. ASSUME ~Unfinished, Holds(live, base) PROVE Readable'
        BY <3>2, <3>4 DEF Readable
      <3>5. CASE pc \in {"down", "cleanup", "inspect"}
        BY <1>25, <3>1, <3>3, <3>5 DEF Crash, Remains, RecoveryInv
      <3>6. CASE Settled
        BY <3>1, <3>4, <3>6 DEF SettledInv, Unfinished
      <3>7. CASE pc \in {"backup", "list"} \/ (pc = "rollback" /\ todo # {})
        <4>1. Restorable
          BY <3>1, <3>7 DEF BackupInv, RollbackInv, Restorable
        <4>2. backup' = backup
          BY <1>25, <3>7 DEF Crash, Remains
        <4>3. backup = Empty => Holds(live, base)
          BY <4>1 DEF Restorable, Holds, Empty
        <4>4. ~Unfinished => backup = Empty
          BY <3>1, <3>7 DEF HalfBackedUp, Unfinished, NoDirectoryNoFiles
        <4> QED
          BY <3>3, <4>1, <4>2, <4>3, <4>4 DEF Readable
      <3>8. CASE pc = "rollback" /\ todo = {}
        <4>1. \A f \in Files : backup[f] = Absent /\ backup'[f] = Absent
          BY <1>25, <3>1, <3>8 DEF RollbackInv, Entries, Crash, Remains
        <4>2. Restorable
          BY <3>1, <3>8 DEF RollbackInv
        <4>3. Holds(live, base) /\ Restorable'
          BY <3>2, <4>1, <4>2 DEF Restorable, Holds
        <4> QED
          BY <3>2, <4>3 DEF Readable
      <3>9. CASE pc = "commit" /\ VaultFile \in todo
        <4>1. backup' = backup /\ backup = base
          BY <1>25, <3>9 DEF Crash, Remains, CommitInv
        <4>2. Restorable
          BY <4>1 DEF Restorable
        <4>3. backup = Empty => Holds(live, base)
          BY <4>1 DEF Holds, Empty
        <4>4. ~Unfinished => backup = Empty
          BY <3>1, <3>9 DEF HalfBackedUp, Unfinished, NoDirectoryNoFiles
        <4> QED
          BY <3>3, <4>1, <4>2, <4>3, <4>4 DEF Readable
      <3>10. CASE \/ pc = "commit" /\ VaultFile \notin todo
                  \/ pc \in {"sweep", "finish"}
        <4>1. NewVaultStands
          BY <3>10 DEF CommitInv, SweepInv
        <4> QED
          BY <3>4, <4>1 DEF NewVaultStands, Holds
      <3>11. CASE pc = "discard"
        BY <3>1, <3>4, <3>11 DEF RecoveryInv, Unfinished
      <3> QED
        BY <3>5, <3>6, <3>7, <3>8, <3>9, <3>10, <3>11 DEF TypeOK, Settled
    <2> QED
      BY <2>1, <2>2, <2>3
  <1>26. CASE Restart
    <2>1. /\ NoDirectoryNoFiles' /\ ReceiveInv' /\ BackupInv' /\ CommitInv'
          /\ SweepInv' /\ RollbackInv' /\ SettledInv'
      BY <1>26 DEF Restart, Settled, NoDirectoryNoFiles, ReceiveInv, BackupInv,
             CommitInv, SweepInv, RollbackInv, SettledInv, Holds
    <2>2. RecoveryInv'
      BY <1>26 DEF RecoveryInv, Restart, Restorable, Readable, Unfinished, Holds
    <2> QED
      BY <2>1, <2>2
  <1>27. CASE CleanupStaging
    <2>1. /\ NoDirectoryNoFiles' /\ ReceiveInv' /\ BackupInv' /\ CommitInv'
          /\ SweepInv' /\ RollbackInv' /\ SettledInv'
      BY <1>27 DEF CleanupStaging, Settled, NoDirectoryNoFiles, ReceiveInv,
             BackupInv, CommitInv, SweepInv, RollbackInv, SettledInv, Holds
    <2>2. RecoveryInv'
      BY <1>27 DEF RecoveryInv, CleanupStaging, Restorable, Readable, Unfinished, Holds
    <2> QED
      BY <2>1, <2>2
  <1>28. CASE CleanupInspect
    <2>1. /\ NoDirectoryNoFiles' /\ ReceiveInv' /\ BackupInv' /\ CommitInv'
          /\ SweepInv'
      BY <1>28 DEF CleanupInspect, NoDirectoryNoFiles, ReceiveInv, BackupInv,
             CommitInv, SweepInv
    <2>2. RollbackInv'
      BY <1>28 DEF RollbackInv, CleanupInspect, RecoveryInv, Restorable, Readable, Unfinished
    <2>3. RecoveryInv'
      BY <1>28 DEF RecoveryInv, CleanupInspect, Readable, Unfinished, Holds
    <2>4. SettledInv'
      BY <1>28 DEF SettledInv, CleanupInspect, RecoveryInv, Readable, Unfinished,
             Settled, Holds
    <2> QED
      BY <2>1, <2>2, <2>3, <2>4
  <1>29. CASE CleanupDiscard
    <2>1. /\ NoDirectoryNoFiles' /\ ReceiveInv' /\ BackupInv' /\ CommitInv'
          /\ SweepInv' /\ RollbackInv' /\ RecoveryInv'
      BY <1>29 DEF CleanupDiscard, NoDirectoryNoFiles, ReceiveInv, BackupInv,
             CommitInv, SweepInv, RollbackInv, RecoveryInv
    <2>2. SettledInv'
      BY <1>29 DEF SettledInv, CleanupDiscard, RecoveryInv, Holds
    <2> QED
      BY <2>1, <2>2
  <1>30. CASE UNCHANGED vars
    BY <1>30 DEF vars, TypeOK, NoDirectoryNoFiles, ReceiveInv, BackupInv, CommitInv,
             SweepInv, RollbackInv, RecoveryInv, SettledInv, Settled, Restorable,
             Readable, Holds, Entries, NewVaultStands, Unfinished
  <1> QED
    BY <1>1, <1>2, <1>3, <1>4, <1>5, <1>6, <1>7, <1>8, <1>9, <1>10, <1>11,
       <1>12, <1>13, <1>14, <1>15, <1>16, <1>17, <1>18, <1>19, <1>20, <1>21, <1>22,
       <1>23, <1>24, <1>25, <1>26, <1>27, <1>28, <1>29, <1>30
       DEF Next, Process, Receive, Commit, Rollback, Cleanup

LEMMA Inductive == Spec => []IInv
  <1>1. Init => IInv
    BY InitIInv
  <1>2. TypeOK /\ [Next]_vars => TypeOK'
    BY NextType
  <1>3. IInv => TypeOK
    BY DEF IInv
  <1>4. IInv /\ TypeOK' /\ [Next]_vars => IInv'
    BY NextIInv
  <1> QED
    BY <1>1, <1>2, <1>3, <1>4, PTL DEF Spec

--------------------------------------------------------------------------------
(* The safety properties *)

\* Whatever fails or crashes on the way and whatever commands write meanwhile,
\* and outside the windows in gaps, the files that they left alone are those of
\* the old vault or of the complete new one once no move is owed any more
\* (CommitStaging, rollbackFromBackup, CleanupOrphanedSync).
THEOREM VaultStaysWhole == Spec => []SettledVaultIsWhole
  <1>1. IInv => SettledVaultIsWhole
    BY DEF IInv, SettledInv, SettledVaultIsWhole
  <1> QED
    BY <1>1, Inductive, PTL

\* No step of a commit, a rollback or a recovery, nor a crash inside one, nor a
\* write of another file between two of them, takes away the last copy of a file
\* of the vault; what is written into a file among the moves may be lost.
THEOREM FilesAreKept == Spec => []NothingIsLost
  <1>1. IInv => NothingIsLost
    <2> SUFFICES ASSUME IInv, gaps = {}, NEW f \in Files \ beside, base[f] # Absent
                 PROVE  base[f] \in {live[f], backup[f]}
      BY DEF NothingIsLost
    <2> USE DEF IInv
    <2>1. CASE pc \in {"idle", "begin", "recv", "discard"}
      BY <2>1 DEF SettledInv, Settled, RecoveryInv, Holds
    <2>2. CASE pc \in {"down", "cleanup", "inspect"}
      BY <2>2 DEF RecoveryInv, Readable, Restorable, Holds
    <2>3. CASE pc = "backup"
      BY <2>3 DEF BackupInv
    <2>4. CASE pc = "commit"
      BY <2>4 DEF CommitInv, NewVaultStands
    <2>5. CASE pc \in {"sweep", "finish"}
      BY <2>5 DEF SweepInv, NewVaultStands
    <2>6. CASE pc \in {"list", "rollback"}
      BY <2>6 DEF RollbackInv, Restorable
    <2> QED
      BY <2>1, <2>2, <2>3, <2>4, <2>5, <2>6 DEF TypeOK
  <1> QED
    BY <1>1, Inductive, PTL

\* CommitStaging reports success, and removes its backup, only over a live
\* directory that is the vault the peer sent, file by file and with none of the
\* old vault, but for files that were written after its loops had passed them.
THEOREM CommitsAreExact == Spec => []CommitIsExact
  <1>1. IInv => CommitIsExact
    BY DEF IInv, SweepInv, NewVaultStands, CommitIsExact
  <1> QED
    BY <1>1, Inductive, PTL

\* Outside the windows no backup directory is left for the next
\* CommitStaging to delete.
THEOREM BackupsAreSpent == Spec => []NoBackupLeftBehind
  <1>1. IInv => NoBackupLeftBehind
    BY DEF IInv, SettledInv, NoBackupLeftBehind
  <1> QED
    BY <1>1, Inductive, PTL

--------------------------------------------------------------------------------
(* The store: what its two writers have still to do *)

\* What a process has still to do, as a set of steps.
Left(p) == Range(plan[p])

\* Every step that opens a file is followed by the one that fills it, which
\* comes nowhere else but at the head; a key is made first of all.
WellFormed(t) ==
    /\ \A k \in DOMAIN t : t[k] = <<"openKey">> =>
          /\ k < Len(t) /\ t[k + 1] = <<"writeKey">>
          /\ k = 1 \/ (k = 2 /\ t[1] = <<"moveAside">>)
    /\ \A k \in DOMAIN t : t[k] = <<"openVault">> => k < Len(t) /\ t[k + 1] = <<"writeVault">>
    /\ \A k \in DOMAIN t, i \in Items :
          t[k] = <<"openItem", i>> => k < Len(t) /\ t[k + 1] = <<"writeItem", i>>
    /\ \A k \in DOMAIN t : k > 1 =>
          /\ t[k] = <<"writeKey">> => t[k - 1] = <<"openKey">>
          /\ t[k] = <<"writeVault">> => t[k - 1] = <<"openVault">>
          /\ \A i \in Items : t[k] = <<"writeItem", i>> => t[k - 1] = <<"openItem", i>>
    /\ \A k \in DOMAIN t : t[k] = <<"done">> => k = Len(t)

\* A password change: its last ten steps are these, the others make the new
\* key and store the items.
Closing == << <<"openVault">>, <<"writeVault">>, <<"loadState">>, <<"storeState">>,
              <<"writeState">>, <<"dropOlder">>, <<"adopt">>, <<"storeApp">>,
              <<"writeState">>, <<"done">> >>
Opening == {<<"moveAside">>, <<"openKey">>, <<"writeKey">>}
               \cup {<<s, i>> : s \in {"openItem", "writeItem"}, i \in Items}
Closes(t) == \A k \in DOMAIN t : IF k + 10 > Len(t) THEN t[k] = Closing[k + 10 - Len(t)]
                                                    ELSE t[k] \in Opening

\* The steps only a password change has.
Private == {<<"moveAside">>, <<"dropOlder">>, <<"adopt">>, <<"clearActive">>, <<"moveBack">>}
Kind == IF Idle("gui") THEN "idle" ELSE job.gui.kind
Ahead == Len(plan.gui)

\* What the steps of an operation are, by its kind.
KindInv ==
    /\ job.cli.kind \in {"none", "create", "unlock", "save"}
    /\ <<"prompt">> \in Left("cli") =>
          Left("cli") \subseteq {<<"loadSeen">>, <<"storeState">>, <<"writeState">>, <<"prompt">>}
    /\ Kind = "rekeyStart" =>
          /\ Closes(plan.gui) /\ Ahead > 10 /\ At("gui", "moveAside")
          /\ <<"openKey">> \in Left("gui") /\ <<"moveAside">> \notin Range(Tail(plan.gui))
    /\ Kind = "rekey" => Closes(plan.gui) /\ Ahead > 4 /\ <<"moveAside">> \notin Left("gui")
    /\ Kind = "rekeyed" => Closes(plan.gui) /\ Ahead < 5
    /\ Kind = "restore" => plan.gui \in {restoreBackup, Tail(restoreBackup), Done}
    /\ Kind = "none" =>
          Left("gui") \subseteq {<<"storeApp">>, <<"storeState">>, <<"writeState">>, <<"done">>}
    /\ Kind \notin {"rekeyStart", "rekey", "rekeyed", "restore"} => Left("gui") \cap Private = {}
    /\ Kind \in {"rekeyStart", "rekey", "rekeyed", "restore"} => job.gui.back \in Backup

\* A directory that holds a key exists; a process about to write a key found
\* none, and no other process writes that file; the desktop application alone
\* moves directories.
KeyInv ==
    /\ \A n \in DOMAIN dir : dir[n].key # None => dir[n].there
    /\ \A p \in Proc : At(p, "writeKey") /\ at[p] >= 0 => dir[at[p]].key = Torn
    /\ At("gui", "writeKey") /\ At("cli", "writeKey") => at.cli # 0
    /\ At("gui", "writeKey") \/ At("gui", "writeVault")
          \/ (\E i \in Items : AtItem("gui", "writeItem", i)) => at.gui = 0

\* The file of item i, as far as the operation of p has come with it.
Progress(p, i) ==
    IF AtItem(p, "writeItem", i) THEN at[p] = 0 /\ dir[0].item[i] = Torn
    ELSE \/ <<"openItem", i>> \in Left(p)
         \/ work[p].key \in Key /\ dir[0].item[i] = work[p].key

ReadableIn(n, i) == dir[n].there /\ dir[n].key \in Key /\ dir[n].item[i] = dir[n].key
Kept(i) == \E n \in Backup : ReadableIn(n, i)

\* The vault is built anew in directory 0.
Rebuilding == Kind \in {"rekey", "rekeyed"} /\ Ahead > 3

\* No process is about to change the file of an item that was reported, or
\* that the other will report, except that a password change stores them all.
TouchInv ==
    /\ \A p \in Proc : \A i \in Touching(p) : i \notin gain[Other(p)]
    /\ \A i \in Touching("cli") : i \notin acked
    /\ \A i \in Touching("gui") : i \in acked => Kind \in {"rekeyStart", "rekey"}

\* An item that will be reported is stored with the key of directory 0, beside
\* no password change.
GainInv ==
    /\ clean => ~Rekeying
    /\ Rekeying => gain.gui = {}
    /\ gain.cli # {} => clean
    /\ clean /\ <<"prompt">> \in Left("cli") => dir[0].key \in Key /\ work.cli.key = dir[0].key
    /\ \A p \in Proc : \A i \in gain[p] :
          /\ dir[0].key \in Key /\ work[p].key = dir[0].key
          /\ Progress(p, i)
          /\ {<<"removeItem", i>>, <<"forget", i>>, <<"openKey">>, <<"writeKey">>}
                \cap Left(p) = {}

\* The new key is in directory 0 once it is written.
RebuildInv ==
    /\ Kind = "rekeyStart" => work.gui.key = None
    /\ Rebuilding =>
          IF <<"openKey">> \in Left("gui") THEN work.gui.key = None
          ELSE IF At("gui", "writeKey") THEN work.gui.key = None /\ dir[0].key = Torn
          ELSE dir[0].key \in Key /\ work.gui.key = dir[0].key

\* A reported item is in a backup while the vault is built anew, and in the
\* new vault when the backup before it goes.
AckedInv ==
    \A i \in acked :
       /\ \E n \in DOMAIN dir : ReadableIn(n, i)
       /\ Kind = "rekeyStart" => <<"openItem", i>> \in Left("gui")
       /\ Rebuilding => Progress("gui", i)
       /\ Kind = "rekey" => Kept(i)
       /\ Kind = "restore" /\ At("gui", "clearActive") => Kept(i)

HasWhole(n) == Whole(dir[n]) /\ dir[n].vault.items = whole
Named(n) == state = Cut \/ n = catalogueVaultVersion
Aside(n) == HasWhole(n) /\ Named(n)

\* Where the last complete vault is, by what the desktop application is doing.
WholeInv ==
    whole # {} =>
       /\ Idle("cli")
       /\ \E n \in DOMAIN dir : HasWhole(n)
       /\ Kind \in {"idle", "none", "rekeyStart", "rekey", "rekeyed", "restore"}
       /\ Kind = "idle" => mem = Nil \/ HasWhole(0) \/ \E n \in Backup : Aside(n)
       /\ Kind = "none" => mem = Nil
       /\ Kind = "rekeyStart" => /\ Named(job.gui.back)
                                 /\ HasWhole(0) \/ \E n \in Backup : Aside(n)
                                 /\ \A i \in work.gui.items : <<"openItem", i>> \in Left("gui")
       /\ Kind = "rekey" => /\ Ahead > 5 => Named(job.gui.back)
                            /\ \/ HasWhole(job.gui.back)
                               \/ state = Cut /\ Ahead > 7 /\ \E n \in Backup : HasWhole(n)
       /\ Kind = "rekeyed" /\ Ahead < 4 => HasWhole(0)
       /\ Kind = "restore" => \/ HasWhole(0) /\ ~At("gui", "clearActive")
                              \/ \E n \in Backup : Aside(n)

\* The new vault, as far as it is built.
BuildInv ==
    whole # {} /\ Rebuilding =>
       /\ \A i \in work.gui.items : Progress("gui", i)
       /\ Ahead = 9 => dir[0].vault.k = Torn
       /\ Ahead < 9 => /\ dir[0].vault.k = work.gui.key
                       /\ dir[0].vault.items = work.gui.items

StepName == {"openKey", "writeKey", "openVault", "writeVault", "loadState", "loadSeen",
             "storeState", "storeApp", "writeState", "prompt", "recolour", "moveAside",
             "dropOlder", "adopt", "clearActive", "moveBack", "done"}
StepSet == {<<s>> : s \in StepName} \cup {<<s, i>> : s \in ItemStep, i \in Items}

LEMMA TailSteps ==
    ASSUME NEW t \in Seq(StepSet), t # <<>>
    PROVE  /\ Tail(t) \in Seq(StepSet)
           /\ Len(t) \in Nat /\ Len(t) > 0
           /\ Len(Tail(t)) = Len(t) - 1
           /\ \A k \in 1..(Len(t) - 1) : Tail(t)[k] = t[k + 1]
           /\ DOMAIN Tail(t) = 1..(Len(t) - 1)
           /\ DOMAIN t = 1..Len(t)
           /\ Head(t) = t[1]
  <1>1. /\ Len(t) \in Nat /\ DOMAIN t = 1..Len(t)
        /\ t \in [1..Len(t) -> StepSet]
    BY LenProperties
  <1>2. Len(t) > 0
    BY <1>1, EmptySeq
  <1>3. /\ Tail(t) \in Seq(StepSet) /\ Len(Tail(t)) = Len(t) - 1
        /\ \A k \in 1..Len(Tail(t)) : Tail(t)[k] = t[k + 1]
    BY HeadTailProperties
  <1>4. DOMAIN Tail(t) = 1..(Len(t) - 1)
    BY <1>3, LenProperties
  <1>. QED
    BY <1>1, <1>2, <1>3, <1>4

LEMMA TailLeft ==
    ASSUME NEW t \in Seq(StepSet), t # <<>>
    PROVE  Range(t) = {Head(t)} \cup Range(Tail(t))
  <1>1. Range(t) \subseteq {Head(t)} \cup Range(Tail(t))
    <2>1. SUFFICES ASSUME NEW k \in DOMAIN t, k # 1 PROVE t[k] \in Range(Tail(t))
      BY TailSteps DEF Range
    <2>2. k - 1 \in 1..(Len(t) - 1) /\ (k - 1) + 1 = k
      BY <2>1, TailSteps
    <2>3. k - 1 \in DOMAIN Tail(t) /\ Tail(t)[k - 1] = t[k]
      BY <2>2, TailSteps
    <2>. QED
      BY <2>3 DEF Range
  <1>2. Range(Tail(t)) \subseteq Range(t)
    <2>1. SUFFICES ASSUME NEW k \in DOMAIN Tail(t) PROVE Tail(t)[k] \in Range(t)
      BY DEF Range
    <2>2. k + 1 \in DOMAIN t /\ Tail(t)[k] = t[k + 1]
      BY <2>1, TailSteps
    <2>. QED
      BY <2>2 DEF Range
  <1>3. Head(t) \in Range(t)
    BY TailSteps DEF Range
  <1>. QED
    BY <1>1, <1>2, <1>3

LEMMA TailWellFormed ==
    ASSUME NEW t \in Seq(StepSet), t # <<>>, WellFormed(t)
    PROVE  WellFormed(Tail(t))
  <1>. DEFINE u == Tail(t)
  <1>0. /\ DOMAIN u = 1..(Len(t) - 1) /\ Len(u) = Len(t) - 1 /\ DOMAIN t = 1..Len(t)
        /\ Len(t) \in Nat
        /\ \A k \in DOMAIN u : u[k] = t[k + 1] /\ k + 1 \in DOMAIN t /\ k + 1 > 1
        /\ \A k \in DOMAIN u : k < Len(u) => u[k + 1] = t[(k + 1) + 1] /\ (k + 1) + 1 \in DOMAIN t
        /\ \A k \in DOMAIN u : k > 1 => u[k - 1] = t[k] /\ (k + 1) - 1 = k
    BY TailSteps
  <1>. HIDE DEF u
  <1>1. \A k \in DOMAIN u : u[k] = <<"openKey">> =>
          /\ k < Len(u) /\ u[k + 1] = <<"writeKey">>
          /\ k = 1 \/ (k = 2 /\ u[1] = <<"moveAside">>)
    BY <1>0 DEF WellFormed
  <1>2. \A k \in DOMAIN u : u[k] = <<"openVault">> => k < Len(u) /\ u[k + 1] = <<"writeVault">>
    BY <1>0 DEF WellFormed
  <1>3. \A k \in DOMAIN u, i \in Items :
          u[k] = <<"openItem", i>> => k < Len(u) /\ u[k + 1] = <<"writeItem", i>>
    <2>1. SUFFICES ASSUME NEW k \in DOMAIN u, NEW i \in Items, u[k] = <<"openItem", i>>
                   PROVE  k < Len(u) /\ u[k + 1] = <<"writeItem", i>>
      OBVIOUS
    <2>2. k + 1 \in DOMAIN t /\ t[k + 1] = <<"openItem", i>>
      BY <1>0, <2>1
    <2>3. k + 1 < Len(t) /\ t[(k + 1) + 1] = <<"writeItem", i>>
      BY <2>2 DEF WellFormed
    <2>. QED
      BY <1>0, <2>3
  <1>4. \A k \in DOMAIN u : k > 1 =>
          /\ u[k] = <<"writeKey">> => u[k - 1] = <<"openKey">>
          /\ u[k] = <<"writeVault">> => u[k - 1] = <<"openVault">>
          /\ \A i \in Items : u[k] = <<"writeItem", i>> => u[k - 1] = <<"openItem", i>>
    <2>1. SUFFICES ASSUME NEW k \in DOMAIN u, k > 1
          PROVE  /\ u[k] = <<"writeKey">> => u[k - 1] = <<"openKey">>
                 /\ u[k] = <<"writeVault">> => u[k - 1] = <<"openVault">>
                 /\ \A i \in Items : u[k] = <<"writeItem", i>> => u[k - 1] = <<"openItem", i>>
      OBVIOUS
    <2>. DEFINE n == k + 1
    <2>2. n \in DOMAIN t /\ n > 1 /\ u[k] = t[n] /\ u[k - 1] = t[n - 1]
      BY <1>0, <2>1
    <2>. HIDE DEF n
    <2>. QED
      BY <2>2 DEF WellFormed
  <1>5. \A k \in DOMAIN u : u[k] = <<"done">> => k = Len(u)
    BY <1>0 DEF WellFormed
  <1>6. WellFormed(u)
    BY <1>1, <1>2, <1>3, <1>4, <1>5 DEF WellFormed
  <1>. QED
    BY <1>6 DEF u

LEMMA TailCloses ==
    ASSUME NEW t \in Seq(StepSet), t # <<>>, Closes(t)
    PROVE  Closes(Tail(t))
  <1>1. SUFFICES ASSUME NEW k \in DOMAIN Tail(t)
                 PROVE  IF k + 10 > Len(Tail(t)) THEN Tail(t)[k] = Closing[k + 10 - Len(Tail(t))]
                        ELSE Tail(t)[k] \in Opening
    BY DEF Closes
  <1>2. /\ k + 1 \in DOMAIN t /\ Tail(t)[k] = t[k + 1] /\ Len(Tail(t)) = Len(t) - 1
        /\ k \in Int /\ Len(t) \in Int
    BY <1>1, TailSteps
  <1>3. IF (k + 1) + 10 > Len(t) THEN t[k + 1] = Closing[(k + 1) + 10 - Len(t)]
                                 ELSE t[k + 1] \in Opening
    BY <1>2 DEF Closes
  <1>4. (k + 1) + 10 - Len(t) = k + 10 - (Len(t) - 1) /\ ((k + 1) + 10 > Len(t) <=> k + 10 > Len(t) - 1)
    BY <1>2
  <1>. QED
    BY <1>2, <1>3, <1>4

\* A piece of a plan: it is well formed and does not begin with the filling of a file.
Block(t) ==
    /\ t \in Seq(StepSet) /\ WellFormed(t)
    /\ t # <<>> => /\ t[1] # <<"writeKey">> /\ t[1] # <<"writeVault">>
                   /\ \A i \in Items : t[1] # <<"writeItem", i>>

LEMMA ConcatBlocks ==
    ASSUME NEW s, NEW t, Block(s), Block(t), <<"openKey">> \notin Range(t),
           <<"done">> \notin Range(s)
    PROVE  Block(s \o t) /\ Range(s \o t) = Range(s) \cup Range(t)
  <1>. DEFINE u == s \o t
  <1>1. /\ s \in Seq(StepSet) /\ t \in Seq(StepSet) /\ u \in Seq(StepSet)
        /\ Len(s) \in Nat /\ Len(t) \in Nat /\ Len(u) = Len(s) + Len(t)
        /\ DOMAIN s = 1..Len(s) /\ DOMAIN t = 1..Len(t) /\ DOMAIN u = 1..(Len(s) + Len(t))
        /\ \A k \in DOMAIN u : u[k] = IF k <= Len(s) THEN s[k] ELSE t[k - Len(s)]
    BY ConcatProperties, LenProperties DEF Block
  <1>2. /\ \A k \in DOMAIN s : k \in DOMAIN u /\ u[k] = s[k]
        /\ \A k \in DOMAIN t : Len(s) + k \in DOMAIN u /\ u[Len(s) + k] = t[k]
        /\ \A k \in DOMAIN u : k \in DOMAIN s \/ (k > Len(s) /\ k - Len(s) \in DOMAIN t /\ u[k] = t[k - Len(s)])
    BY <1>1
  <1>. HIDE DEF u
  <1>3. Range(u) = Range(s) \cup Range(t)
    <2>1. Range(u) \subseteq Range(s) \cup Range(t)
      BY <1>2 DEF Range
    <2>2. Range(s) \subseteq Range(u) /\ Range(t) \subseteq Range(u)
      BY <1>2 DEF Range
    <2>. QED
      BY <2>1, <2>2
  <1>4. /\ \A k \in DOMAIN t : t[k] # <<"openKey">>
        /\ \A k \in DOMAIN s : s[k] # <<"done">>
    BY DEF Range
  <1>5. \A k \in DOMAIN u : u[k] = <<"openKey">> =>
          /\ k < Len(u) /\ u[k + 1] = <<"writeKey">>
          /\ k = 1 \/ (k = 2 /\ u[1] = <<"moveAside">>)
    <2>1. SUFFICES ASSUME NEW k \in DOMAIN u, u[k] = <<"openKey">>
                   PROVE  /\ k < Len(u) /\ u[k + 1] = <<"writeKey">>
                          /\ k = 1 \/ (k = 2 /\ u[1] = <<"moveAside">>)
      OBVIOUS
    <2>2. k \in DOMAIN s /\ s[k] = <<"openKey">>
      BY <1>2, <1>4, <2>1
    <2>3. /\ k < Len(s) /\ s[k + 1] = <<"writeKey">>
          /\ k = 1 \/ (k = 2 /\ s[1] = <<"moveAside">>)
      BY <2>2 DEF Block, WellFormed
    <2>4. k + 1 \in DOMAIN s /\ 1 \in DOMAIN s
      BY <1>1, <2>2, <2>3
    <2>. QED
      BY <1>1, <1>2, <2>3, <2>4
  <1>6. \A k \in DOMAIN u : u[k] = <<"openVault">> => k < Len(u) /\ u[k + 1] = <<"writeVault">>
    <2>1. SUFFICES ASSUME NEW k \in DOMAIN u, u[k] = <<"openVault">>
                   PROVE  k < Len(u) /\ u[k + 1] = <<"writeVault">>
      OBVIOUS
    <2>2. CASE k \in DOMAIN s
      <3>1. k < Len(s) /\ s[k + 1] = <<"writeVault">>
        BY <1>2, <2>1, <2>2 DEF Block, WellFormed
      <3>2. k + 1 \in DOMAIN s
        BY <1>1, <2>2, <3>1
      <3>. QED
        BY <1>1, <1>2, <3>1, <3>2
    <2>3. CASE k \notin DOMAIN s
      <3>1. k - Len(s) \in DOMAIN t /\ t[k - Len(s)] = <<"openVault">>
        BY <1>2, <2>1, <2>3
      <3>2. k - Len(s) < Len(t) /\ t[(k - Len(s)) + 1] = <<"writeVault">>
        BY <3>1 DEF Block, WellFormed
      <3>3. (k - Len(s)) + 1 \in DOMAIN t /\ Len(s) + ((k - Len(s)) + 1) = k + 1
        BY <1>1, <3>1, <3>2
      <3>. QED
        BY <1>1, <1>2, <3>2, <3>3
    <2>. QED
      BY <2>2, <2>3
  <1>7. \A k \in DOMAIN u, i \in Items :
          u[k] = <<"openItem", i>> => k < Len(u) /\ u[k + 1] = <<"writeItem", i>>
    <2>1. SUFFICES ASSUME NEW k \in DOMAIN u, NEW i \in Items, u[k] = <<"openItem", i>>
                   PROVE  k < Len(u) /\ u[k + 1] = <<"writeItem", i>>
      OBVIOUS
    <2>2. CASE k \in DOMAIN s
      <3>1. k < Len(s) /\ s[k + 1] = <<"writeItem", i>>
        BY <1>2, <2>1, <2>2 DEF Block, WellFormed
      <3>2. k + 1 \in DOMAIN s
        BY <1>1, <2>2, <3>1
      <3>. QED
        BY <1>1, <1>2, <3>1, <3>2
    <2>3. CASE k \notin DOMAIN s
      <3>1. k - Len(s) \in DOMAIN t /\ t[k - Len(s)] = <<"openItem", i>>
        BY <1>2, <2>1, <2>3
      <3>2. k - Len(s) < Len(t) /\ t[(k - Len(s)) + 1] = <<"writeItem", i>>
        BY <3>1 DEF Block, WellFormed
      <3>3. (k - Len(s)) + 1 \in DOMAIN t /\ Len(s) + ((k - Len(s)) + 1) = k + 1
        BY <1>1, <3>1, <3>2
      <3>. QED
        BY <1>1, <1>2, <3>2, <3>3
    <2>. QED
      BY <2>2, <2>3
  <1>8. \A k \in DOMAIN u : k > 1 =>
          /\ u[k] = <<"writeKey">> => u[k - 1] = <<"openKey">>
          /\ u[k] = <<"writeVault">> => u[k - 1] = <<"openVault">>
          /\ \A i \in Items : u[k] = <<"writeItem", i>> => u[k - 1] = <<"openItem", i>>
    <2>1. SUFFICES ASSUME NEW k \in DOMAIN u, k > 1
          PROVE  /\ u[k] = <<"writeKey">> => u[k - 1] = <<"openKey">>
                 /\ u[k] = <<"writeVault">> => u[k - 1] = <<"openVault">>
                 /\ \A i \in Items : u[k] = <<"writeItem", i>> => u[k - 1] = <<"openItem", i>>
      OBVIOUS
    <2>2. CASE k \in DOMAIN s
      <3>1. k - 1 \in DOMAIN s /\ u[k - 1] = s[k - 1] /\ u[k] = s[k]
        BY <1>1, <1>2, <2>1, <2>2
      <3>2. \A n \in DOMAIN s : n > 1 =>
               /\ s[n] = <<"writeKey">> => s[n - 1] = <<"openKey">>
               /\ s[n] = <<"writeVault">> => s[n - 1] = <<"openVault">>
               /\ \A i \in Items : s[n] = <<"writeItem", i>> => s[n - 1] = <<"openItem", i>>
        BY DEF Block, WellFormed
      <3>. QED
        BY <2>1, <2>2, <3>1, <3>2
    <2>3. CASE k \notin DOMAIN s /\ k - Len(s) = 1
      <3>1. u[k] = t[1] /\ t # <<>>
        BY <1>2, <2>3
      <3>. QED
        BY <3>1 DEF Block
    <2>4. CASE k \notin DOMAIN s /\ k - Len(s) # 1
      <3>1. /\ k - Len(s) \in DOMAIN t /\ u[k] = t[k - Len(s)] /\ k - Len(s) > 1
            /\ (k - Len(s)) - 1 \in DOMAIN t /\ Len(s) + ((k - Len(s)) - 1) = k - 1
        BY <1>1, <1>2, <2>1, <2>4
      <3>2. u[k - 1] = t[(k - Len(s)) - 1]
        BY <1>2, <3>1
      <3>3. \A n \in DOMAIN t : n > 1 =>
               /\ t[n] = <<"writeKey">> => t[n - 1] = <<"openKey">>
               /\ t[n] = <<"writeVault">> => t[n - 1] = <<"openVault">>
               /\ \A i \in Items : t[n] = <<"writeItem", i>> => t[n - 1] = <<"openItem", i>>
        BY DEF Block, WellFormed
      <3>. DEFINE m == k - Len(s)
      <3>4. m \in DOMAIN t /\ m > 1 /\ u[k] = t[m] /\ u[k - 1] = t[m - 1]
        BY <3>1, <3>2
      <3>. HIDE DEF m
      <3>. QED
        BY <3>3, <3>4
    <2>. QED
      BY <2>2, <2>3, <2>4
  <1>9. \A k \in DOMAIN u : u[k] = <<"done">> => k = Len(u)
    <2>1. SUFFICES ASSUME NEW k \in DOMAIN u, u[k] = <<"done">> PROVE k = Len(u)
      OBVIOUS
    <2>2. k - Len(s) \in DOMAIN t /\ t[k - Len(s)] = <<"done">>
      BY <1>2, <1>4, <2>1
    <2>3. k - Len(s) = Len(t)
      BY <2>2 DEF Block, WellFormed
    <2>. QED
      BY <1>1, <2>3
  <1>10. WellFormed(u)
    BY <1>5, <1>6, <1>7, <1>8, <1>9 DEF WellFormed
  <1>11. u # <<>> => /\ u[1] # <<"writeKey">> /\ u[1] # <<"writeVault">>
                     /\ \A i \in Items : u[1] # <<"writeItem", i>>
    <2>1. SUFFICES ASSUME u # <<>>
                   PROVE  /\ u[1] # <<"writeKey">> /\ u[1] # <<"writeVault">>
                          /\ \A i \in Items : u[1] # <<"writeItem", i>>
      OBVIOUS
    <2>2. Len(u) > 0 /\ 1 \in DOMAIN u
      BY <1>1, <2>1, EmptySeq
    <2>3. CASE Len(s) > 0
      <3>1. u[1] = s[1] /\ s # <<>>
        BY <1>1, <1>2, <2>2, <2>3
      <3>. QED
        BY <3>1 DEF Block
    <2>4. CASE Len(s) = 0
      <3>1. u[1] = t[1] /\ t # <<>>
        BY <1>1, <1>2, <2>2, <2>4
      <3>. QED
        BY <3>1 DEF Block
    <2>. QED
      BY <1>1, <2>3, <2>4
  <1>12. Block(u)
    BY <1>1, <1>10, <1>11 DEF Block
  <1>. QED
    BY <1>3, <1>12 DEF u

\* Two steps are the same when their names and their items are.
StepNames ==
    /\ \A s, u : <<s>> = <<u>> => s = u
    /\ \A s, u, i : <<s>> # <<u, i>>
    /\ \A s, u, i, j : <<s, i>> = <<u, j>> => s = u /\ i = j

LEMMA Names == StepNames
  <1>1. \A s, u, i : <<s>> # <<u, i>>
    <2>1. SUFFICES ASSUME NEW s, NEW u, NEW i, <<s>> = <<u, i>> PROVE FALSE
      OBVIOUS
    <2>2. Len(<<s>>) = 1 /\ Len(<<u, i>>) = 2
      OBVIOUS
    <2>. QED
      BY <2>1, <2>2
  <1>2. \A s, u : <<s>> = <<u>> => s = u
    OBVIOUS
  <1>3. \A s, u, i, j : <<s, i>> = <<u, j>> => s = u /\ i = j
    OBVIOUS
  <1>. QED
    BY <1>1, <1>2, <1>3 DEF StepNames

\* A step that neither opens nor fills a file in two steps.
Plain(a) ==
    /\ a \in StepSet
    /\ a \notin {<<"openKey">>, <<"writeKey">>, <<"openVault">>, <<"writeVault">>}
    /\ \A i \in Items : a # <<"openItem", i>> /\ a # <<"writeItem", i>>

LEMMA PlainSteps ==
    /\ \A s \in {"loadState", "storeState", "writeState", "storeApp", "loadSeen", "done",
                 "prompt", "recolour", "moveAside", "dropOlder", "adopt", "clearActive",
                 "moveBack"} : Plain(<<s>>)
    /\ \A s \in {"removeItem", "forget"}, i \in Items : Plain(<<s, i>>)
  <1>1. ASSUME NEW s \in {"loadState", "storeState", "writeState", "storeApp", "loadSeen",
                          "done", "prompt", "recolour", "moveAside", "dropOlder", "adopt",
                          "clearActive", "moveBack"}
        PROVE  Plain(<<s>>)
    <2>1. <<s>> \in StepSet
      BY DEF StepSet, StepName, ItemStep
    <2>2. <<s>> \notin {<<"openKey">>, <<"writeKey">>, <<"openVault">>, <<"writeVault">>}
      BY Names DEF StepNames
    <2>. QED
      BY <2>1, <2>2, Names DEF StepNames, Plain
  <1>2. ASSUME NEW s \in {"removeItem", "forget"}, NEW i \in Items PROVE Plain(<<s, i>>)
    <2>1. <<s, i>> \in StepSet
      BY DEF StepSet, StepName, ItemStep
    <2>. QED
      BY <2>1, Names DEF StepNames, Plain
  <1>. QED
    BY <1>1, <1>2

LEMMA OnePlain ==
    ASSUME NEW a, Plain(a)
    PROVE  Block(<<a>>) /\ Range(<<a>>) = {a}
  <1>1. /\ DOMAIN <<a>> = {1} /\ <<a>>[1] = a /\ Len(<<a>>) = 1 /\ <<a>> \in Seq(StepSet)
    BY DEF Plain
  <1>2. WellFormed(<<a>>)
    BY <1>1 DEF Plain, WellFormed
  <1>3. Range(<<a>>) = {a}
    BY <1>1 DEF Range
  <1>. QED
    BY <1>1, <1>2, <1>3 DEF Block, Plain

LEMMA TwoPlain ==
    ASSUME NEW a, NEW b, Plain(a), Plain(b), a # <<"done">>
    PROVE  Block(<<a, b>>) /\ Range(<<a, b>>) = {a, b}
  <1>1. /\ DOMAIN <<a, b>> = {1, 2} /\ <<a, b>>[1] = a /\ <<a, b>>[2] = b
        /\ Len(<<a, b>>) = 2 /\ <<a, b>> \in Seq(StepSet)
    BY DEF Plain
  <1>2. WellFormed(<<a, b>>)
    BY <1>1 DEF Plain, WellFormed
  <1>3. Range(<<a, b>>) = {a, b}
    BY <1>1 DEF Range
  <1>. QED
    BY <1>1, <1>2, <1>3 DEF Block, Plain

LEMMA ThreePlain ==
    ASSUME NEW a, NEW b, NEW c, Plain(a), Plain(b), Plain(c), a # <<"done">>, b # <<"done">>
    PROVE  Block(<<a, b, c>>) /\ Range(<<a, b, c>>) = {a, b, c}
  <1>1. /\ DOMAIN <<a, b, c>> = {1, 2, 3} /\ Len(<<a, b, c>>) = 3
        /\ <<a, b, c>>[1] = a /\ <<a, b, c>>[2] = b /\ <<a, b, c>>[3] = c
        /\ <<a, b, c>> \in Seq(StepSet)
    BY DEF Plain
  <1>2. WellFormed(<<a, b, c>>)
    BY <1>1 DEF Plain, WellFormed
  <1>3. Range(<<a, b, c>>) = {a, b, c}
    BY <1>1 DEF Range
  <1>. QED
    BY <1>1, <1>2, <1>3 DEF Block, Plain

LEMMA FilePair ==
    /\ Block(<< <<"openKey">>, <<"writeKey">> >>)
    /\ Range(<< <<"openKey">>, <<"writeKey">> >>) = {<<"openKey">>, <<"writeKey">>}
    /\ Block(<< <<"openVault">>, <<"writeVault">> >>)
    /\ Range(<< <<"openVault">>, <<"writeVault">> >>) = {<<"openVault">>, <<"writeVault">>}
    /\ \A i \in Items :
          /\ Block(<< <<"openItem", i>>, <<"writeItem", i>> >>)
          /\ Range(<< <<"openItem", i>>, <<"writeItem", i>> >>)
                = {<<"openItem", i>>, <<"writeItem", i>>}
  <1>0. ASSUME NEW a, NEW b
        PROVE  /\ DOMAIN <<a, b>> = {1, 2} /\ <<a, b>>[1] = a /\ <<a, b>>[2] = b
               /\ Len(<<a, b>>) = 2 /\ Range(<<a, b>>) = {a, b}
               /\ a \in StepSet /\ b \in StepSet => <<a, b>> \in Seq(StepSet)
    <2>1. DOMAIN <<a, b>> = {1, 2} /\ <<a, b>>[1] = a /\ <<a, b>>[2] = b /\ Len(<<a, b>>) = 2
      OBVIOUS
    <2>2. Range(<<a, b>>) = {a, b}
      BY <2>1 DEF Range
    <2>. QED
      BY <2>1, <2>2
  <1>1. Block(<< <<"openKey">>, <<"writeKey">> >>)
    <2>1. << <<"openKey">>, <<"writeKey">> >> \in Seq(StepSet)
      BY <1>0 DEF StepSet, StepName, ItemStep
    <2>2. WellFormed(<< <<"openKey">>, <<"writeKey">> >>)
      BY <1>0, Names DEF WellFormed, StepNames
    <2>. QED
      BY <1>0, <2>1, <2>2, Names DEF Block, StepNames
  <1>2. Block(<< <<"openVault">>, <<"writeVault">> >>)
    <2>1. << <<"openVault">>, <<"writeVault">> >> \in Seq(StepSet)
      BY <1>0 DEF StepSet, StepName, ItemStep
    <2>2. WellFormed(<< <<"openVault">>, <<"writeVault">> >>)
      BY <1>0, Names DEF WellFormed, StepNames
    <2>. QED
      BY <1>0, <2>1, <2>2, Names DEF Block, StepNames
  <1>3. ASSUME NEW i \in Items PROVE Block(<< <<"openItem", i>>, <<"writeItem", i>> >>)
    <2>1. << <<"openItem", i>>, <<"writeItem", i>> >> \in Seq(StepSet)
      BY <1>0 DEF StepSet, StepName, ItemStep
    <2>2. WellFormed(<< <<"openItem", i>>, <<"writeItem", i>> >>)
      BY <1>0, Names DEF WellFormed, StepNames
    <2>. QED
      BY <1>0, <2>1, <2>2, Names DEF Block, StepNames
  <1>. QED
    BY <1>0, <1>1, <1>2, <1>3

LEMMA Pieces ==
    /\ Block(CreateVaultKey) /\ Range(CreateVaultKey) = {<<"openKey">>, <<"writeKey">>}
    /\ Block(persistVaultCatalogue)
    /\ Range(persistVaultCatalogue) = {<<"loadState">>, <<"storeState">>, <<"writeState">>}
    /\ Block(StoreAppState) /\ Range(StoreAppState) = {<<"storeApp">>, <<"writeState">>}
    /\ Block(LoadVault)
    /\ Range(LoadVault) = {<<"loadSeen">>, <<"storeState">>, <<"writeState">>}
    /\ Block(Done) /\ Range(Done) = {<<"done">>}
    /\ Block(restoreBackup)
    /\ Range(restoreBackup) = {<<"clearActive">>, <<"moveBack">>, <<"done">>}
    /\ \A i \in Items : /\ Block(StoreItem(i))
                        /\ Range(StoreItem(i)) = {<<"openItem", i>>, <<"writeItem", i>>}
    /\ Block(<< >>) /\ Range(<< >>) = {}
  <1>1. /\ Plain(<<"loadState">>) /\ Plain(<<"storeState">>) /\ Plain(<<"writeState">>)
        /\ Plain(<<"storeApp">>) /\ Plain(<<"loadSeen">>) /\ Plain(<<"done">>)
        /\ Plain(<<"clearActive">>) /\ Plain(<<"moveBack">>)
    BY PlainSteps
  <1>2. /\ <<"loadState">> # <<"done">> /\ <<"storeState">> # <<"done">>
        /\ <<"storeApp">> # <<"done">> /\ <<"loadSeen">> # <<"done">>
        /\ <<"clearActive">> # <<"done">> /\ <<"moveBack">> # <<"done">>
    BY Names DEF StepNames
  <1>3. /\ Block(persistVaultCatalogue)
        /\ Range(persistVaultCatalogue) = {<<"loadState">>, <<"storeState">>, <<"writeState">>}
    BY <1>1, <1>2, ThreePlain DEF persistVaultCatalogue
  <1>4. Block(StoreAppState) /\ Range(StoreAppState) = {<<"storeApp">>, <<"writeState">>}
    BY <1>1, <1>2, TwoPlain DEF StoreAppState
  <1>5. /\ Block(LoadVault)
        /\ Range(LoadVault) = {<<"loadSeen">>, <<"storeState">>, <<"writeState">>}
    BY <1>1, <1>2, ThreePlain DEF LoadVault
  <1>6. Block(Done) /\ Range(Done) = {<<"done">>}
    BY <1>1, OnePlain DEF Done
  <1>7. /\ Block(restoreBackup)
        /\ Range(restoreBackup) = {<<"clearActive">>, <<"moveBack">>, <<"done">>}
    BY <1>1, <1>2, ThreePlain DEF restoreBackup
  <1>8. Block(<< >>) /\ Range(<< >>) = {}
    BY DEF Block, WellFormed, Range
  <1>. QED
    BY <1>3, <1>4, <1>5, <1>6, <1>7, <1>8, FilePair DEF CreateVaultKey, StoreItem

VaultSteps == {<<"openVault">>, <<"writeVault">>, <<"loadState">>, <<"storeState">>,
               <<"writeState">>}

LEMMA StoreVaultBlock == Block(StoreVault) /\ Range(StoreVault) = VaultSteps
  <1>. DEFINE o == << <<"openVault">>, <<"writeVault">> >>
  <1>1. Block(o) /\ Range(o) = {<<"openVault">>, <<"writeVault">>}
    BY FilePair
  <1>2. StoreVault = o \o persistVaultCatalogue
    BY DEF StoreVault
  <1>. HIDE DEF o
  <1>3. <<"openKey">> \notin Range(persistVaultCatalogue) /\ <<"done">> \notin Range(o)
    BY <1>1, Pieces, Names DEF StepNames
  <1>4. Block(o \o persistVaultCatalogue)
        /\ Range(o \o persistVaultCatalogue) = Range(o) \cup Range(persistVaultCatalogue)
    BY <1>1, <1>3, Pieces, ConcatBlocks
  <1>. QED
    BY <1>1, <1>2, <1>4, Pieces DEF VaultSteps

LEMMA ForgetBlock ==
    ASSUME NEW old \in {{}} \cup {{j} : j \in Items}
    PROVE  Block(ForgetItem(old)) /\ Range(ForgetItem(old)) = {<<"forget", i>> : i \in old}
  <1>1. CASE old = {}
    BY <1>1, Pieces DEF ForgetItem
  <1>2. CASE old # {}
    <2>1. PICK j \in Items : old = {j}
      BY <1>2
    <2>2. ForgetItem(old) = << <<"forget", j>> >>
      BY <1>2, <2>1 DEF ForgetItem
    <2>3. Plain(<<"forget", j>>)
      BY <2>1, PlainSteps
    <2>4. Block(<< <<"forget", j>> >>) /\ Range(<< <<"forget", j>> >>) = {<<"forget", j>>}
      BY <2>3, OnePlain
    <2>5. {<<"forget", i>> : i \in old} = {<<"forget", j>>}
      BY <2>1
    <2>. QED
      BY <2>2, <2>4, <2>5
  <1>. QED
    BY <1>1, <1>2

StateSteps == {<<"storeApp">>, <<"writeState">>, <<"done">>}

LEMMA StoredAfter ==
    ASSUME NEW s, Block(s), <<"done">> \notin Range(s)
    PROVE  /\ Block(s \o StoreVault \o StoreAppState \o Done)
           /\ Range(s \o StoreVault \o StoreAppState \o Done)
                 = Range(s) \cup VaultSteps \cup StateSteps
  <1>1. Block(s \o StoreVault) /\ Range(s \o StoreVault) = Range(s) \cup VaultSteps
    <2>1. <<"openKey">> \notin Range(StoreVault)
      BY StoreVaultBlock, Names DEF VaultSteps, StepNames
    <2>. QED
      BY <2>1, StoreVaultBlock, ConcatBlocks
  <1>2. /\ Block(s \o StoreVault \o StoreAppState)
        /\ Range(s \o StoreVault \o StoreAppState)
              = Range(s) \cup VaultSteps \cup {<<"storeApp">>, <<"writeState">>}
    <2>1. <<"openKey">> \notin Range(StoreAppState) /\ <<"done">> \notin Range(s \o StoreVault)
      BY <1>1, Pieces, Names DEF VaultSteps, StepNames
    <2>. QED
      BY <1>1, <2>1, Pieces, ConcatBlocks
  <1>3. <<"openKey">> \notin Range(Done) /\ <<"done">> \notin Range(s \o StoreVault \o StoreAppState)
    BY <1>2, Pieces, Names DEF VaultSteps, StepNames
  <1>4. /\ Block((s \o StoreVault \o StoreAppState) \o Done)
        /\ Range((s \o StoreVault \o StoreAppState) \o Done)
              = Range(s \o StoreVault \o StoreAppState) \cup Range(Done)
    BY <1>2, <1>3, Pieces, ConcatBlocks
  <1>. QED
    BY <1>2, <1>4, Pieces DEF StateSteps

LEMMA PlanOfSave ==
    ASSUME NEW i \in Items, NEW old \in {{}} \cup {{j} : j \in Items}
    PROVE  /\ Block(StoreItem(i) \o ForgetItem(old) \o StoreVault \o StoreAppState \o Done)
           /\ Range(StoreItem(i) \o ForgetItem(old) \o StoreVault \o StoreAppState \o Done)
                 = {<<"openItem", i>>, <<"writeItem", i>>} \cup {<<"forget", j>> : j \in old}
                      \cup VaultSteps \cup StateSteps
  <1>1. <<"done">> \notin Range(StoreItem(i)) /\ <<"openKey">> \notin Range(ForgetItem(old))
        /\ <<"done">> \notin Range(ForgetItem(old))
    BY Pieces, ForgetBlock, Names DEF StepNames
  <1>2. /\ Block(StoreItem(i) \o ForgetItem(old))
        /\ Range(StoreItem(i) \o ForgetItem(old)) = Range(StoreItem(i)) \cup Range(ForgetItem(old))
    BY <1>1, Pieces, ForgetBlock, ConcatBlocks
  <1>3. <<"done">> \notin Range(StoreItem(i) \o ForgetItem(old))
    BY <1>1, <1>2
  <1>. DEFINE s == StoreItem(i) \o ForgetItem(old)
  <1>4. /\ Range(s) = {<<"openItem", i>>, <<"writeItem", i>>} \cup {<<"forget", j>> : j \in old}
        /\ Block(s) /\ <<"done">> \notin Range(s)
    BY <1>2, <1>3, Pieces, ForgetBlock
  <1>. HIDE DEF s
  <1>5. /\ Block(s \o StoreVault \o StoreAppState \o Done)
        /\ Range(s \o StoreVault \o StoreAppState \o Done)
              = Range(s) \cup VaultSteps \cup StateSteps
    BY <1>4, StoredAfter
  <1>. QED
    BY <1>4, <1>5 DEF s

LEMMA PlanOfAnswer ==
    ASSUME NEW i \in Items
    PROVE  /\ Block(StoreItem(i) \o StoreVault \o StoreAppState \o Done)
           /\ Range(StoreItem(i) \o StoreVault \o StoreAppState \o Done)
                 = {<<"openItem", i>>, <<"writeItem", i>>} \cup VaultSteps \cup StateSteps
           /\ \A s \in {"removeItem", "forget"} :
                 /\ Block(<< <<s, i>> >> \o StoreVault \o StoreAppState \o Done)
                 /\ Range(<< <<s, i>> >> \o StoreVault \o StoreAppState \o Done)
                       = {<<s, i>>} \cup VaultSteps \cup StateSteps
  <1>1. <<"done">> \notin Range(StoreItem(i))
    BY Pieces, Names DEF StepNames
  <1>2. ASSUME NEW s \in {"removeItem", "forget"}
        PROVE  /\ Block(<< <<s, i>> >>) /\ Range(<< <<s, i>> >>) = {<<s, i>>}
               /\ <<"done">> \notin Range(<< <<s, i>> >>)
    BY OnePlain, PlainSteps, Names DEF StepNames
  <1>3. /\ Block(StoreItem(i) \o StoreVault \o StoreAppState \o Done)
        /\ Range(StoreItem(i) \o StoreVault \o StoreAppState \o Done)
              = Range(StoreItem(i)) \cup VaultSteps \cup StateSteps
    BY <1>1, Pieces, StoredAfter
  <1>4. ASSUME NEW s \in {"removeItem", "forget"}
        PROVE  /\ Block(<< <<s, i>> >> \o StoreVault \o StoreAppState \o Done)
               /\ Range(<< <<s, i>> >> \o StoreVault \o StoreAppState \o Done)
                     = Range(<< <<s, i>> >>) \cup VaultSteps \cup StateSteps
    BY <1>2, StoredAfter
  <1>. QED
    BY <1>2, <1>3, <1>4, Pieces

LEMMA PlanOfCreation ==
    /\ Block(CreateVaultKey \o StoreVault \o Done)
    /\ Range(CreateVaultKey \o StoreVault \o Done)
          = {<<"openKey">>, <<"writeKey">>, <<"done">>} \cup VaultSteps
    /\ Block(CreateVaultKey \o StoreVault \o << <<"recolour">> >> \o StoreVault \o Done)
    /\ Range(CreateVaultKey \o StoreVault \o << <<"recolour">> >> \o StoreVault \o Done)
          = {<<"openKey">>, <<"writeKey">>, <<"recolour">>, <<"done">>} \cup VaultSteps
  <1>. DEFINE a == CreateVaultKey \o StoreVault
              b == a \o << <<"recolour">> >>
              c == b \o StoreVault
  <1>1. Block(a) /\ Range(a) = {<<"openKey">>, <<"writeKey">>} \cup VaultSteps
    <2>1. <<"openKey">> \notin Range(StoreVault) /\ <<"done">> \notin Range(CreateVaultKey)
      BY StoreVaultBlock, Pieces, Names DEF VaultSteps, StepNames
    <2>. QED
      BY <2>1, StoreVaultBlock, Pieces, ConcatBlocks
  <1>2. /\ <<"done">> \notin Range(a) /\ <<"openKey">> \notin Range(Done)
    BY <1>1, Pieces, Names DEF VaultSteps, StepNames
  <1>. HIDE DEF a
  <1>3. Block(a \o Done) /\ Range(a \o Done) = Range(a) \cup Range(Done)
    BY <1>1, <1>2, Pieces, ConcatBlocks
  <1>4. Block(b) /\ Range(b) = Range(a) \cup {<<"recolour">>}
    <2>1. Block(<< <<"recolour">> >>) /\ Range(<< <<"recolour">> >>) = {<<"recolour">>}
      BY OnePlain, PlainSteps
    <2>2. <<"openKey">> \notin {<<"recolour">>}
      BY Names DEF StepNames
    <2>. QED
      BY <1>1, <1>2, <2>1, <2>2, ConcatBlocks
  <1>5. <<"done">> \notin Range(b) /\ <<"openKey">> \notin Range(StoreVault)
    BY <1>2, <1>4, StoreVaultBlock, Names DEF VaultSteps, StepNames
  <1>. HIDE DEF b
  <1>6. Block(c) /\ Range(c) = Range(b) \cup VaultSteps
    BY <1>4, <1>5, StoreVaultBlock, ConcatBlocks
  <1>7. <<"done">> \notin Range(c)
    BY <1>5, <1>6, Names DEF VaultSteps, StepNames
  <1>. HIDE DEF c
  <1>8. Block(c \o Done) /\ Range(c \o Done) = Range(c) \cup Range(Done)
    BY <1>2, <1>6, <1>7, Pieces, ConcatBlocks
  <1>9. Range(a \o Done) = {<<"openKey">>, <<"writeKey">>, <<"done">>} \cup VaultSteps
    BY <1>1, <1>3, Pieces
  <1>10. Range(c \o Done)
           = {<<"openKey">>, <<"writeKey">>, <<"recolour">>, <<"done">>} \cup VaultSteps
    BY <1>1, <1>4, <1>6, <1>8, Pieces
  <1>. QED
    BY <1>3, <1>8, <1>9, <1>10 DEF a, b, c

LEMMA ShortPlans ==
    /\ Block(LoadVault \o Done)
    /\ Range(LoadVault \o Done)
          = {<<"loadSeen">>, <<"storeState">>, <<"writeState">>, <<"done">>}
    /\ Block(LoadVault \o << <<"prompt">> >>)
    /\ Range(LoadVault \o << <<"prompt">> >>)
          = {<<"loadSeen">>, <<"storeState">>, <<"writeState">>, <<"prompt">>}
    /\ Block(StoreAppState \o Done)
    /\ Range(StoreAppState \o Done) = StateSteps
    /\ Block(<< <<"storeState">>, <<"writeState">> >> \o Done)
    /\ Range(<< <<"storeState">>, <<"writeState">> >> \o Done)
          = {<<"storeState">>, <<"writeState">>, <<"done">>}
  <1>. DEFINE w == << <<"storeState">>, <<"writeState">> >>
              q == << <<"prompt">> >>
  <1>1. Block(w) /\ Range(w) = {<<"storeState">>, <<"writeState">>}
    <2>1. /\ Plain(<<"storeState">>) /\ Plain(<<"writeState">>) /\ <<"storeState">> # <<"done">>
      BY PlainSteps, Names DEF StepNames
    <2>. QED
      BY <2>1, TwoPlain
  <1>2. Block(q) /\ Range(q) = {<<"prompt">>}
    BY OnePlain, PlainSteps
  <1>. HIDE DEF w, q
  <1>3. /\ <<"openKey">> \notin Range(Done) /\ <<"openKey">> \notin Range(q)
        /\ <<"done">> \notin Range(LoadVault) /\ <<"done">> \notin Range(w)
        /\ <<"done">> \notin Range(StoreAppState)
    BY <1>1, <1>2, Pieces, Names DEF StepNames
  <1>4. Block(LoadVault \o Done) /\ Range(LoadVault \o Done) = Range(LoadVault) \cup Range(Done)
    BY <1>3, Pieces, ConcatBlocks
  <1>5. Block(LoadVault \o q) /\ Range(LoadVault \o q) = Range(LoadVault) \cup Range(q)
    BY <1>2, <1>3, Pieces, ConcatBlocks
  <1>6. /\ Block(StoreAppState \o Done)
        /\ Range(StoreAppState \o Done) = Range(StoreAppState) \cup Range(Done)
    BY <1>3, Pieces, ConcatBlocks
  <1>7. Block(w \o Done) /\ Range(w \o Done) = Range(w) \cup Range(Done)
    BY <1>1, <1>3, Pieces, ConcatBlocks
  <1>8. /\ Range(LoadVault \o q) = {<<"loadSeen">>, <<"storeState">>, <<"writeState">>, <<"prompt">>}
        /\ Range(LoadVault \o Done) = {<<"loadSeen">>, <<"storeState">>, <<"writeState">>, <<"done">>}
        /\ Range(w \o Done) = {<<"storeState">>, <<"writeState">>, <<"done">>}
        /\ Range(StoreAppState \o Done) = StateSteps
    BY <1>1, <1>2, <1>4, <1>5, <1>6, <1>7, Pieces DEF StateSteps
  <1>. QED
    BY <1>4, <1>5, <1>6, <1>7, <1>8 DEF w, q

LEMMA StoreItemsBlock ==
    ASSUME NEW order \in Seq(Items)
    PROVE  /\ Block(StoreItems(order))
           /\ Range(StoreItems(order))
                 = {<<s, i>> : s \in {"openItem", "writeItem"}, i \in Range(order)}
  <1>. DEFINE n == Len(order)
              u == StoreItems(order)
              at2(k) == (k + 1) \div 2
  <1>1. n \in Nat /\ DOMAIN order = 1..n /\ \A k \in 1..n : order[k] \in Items
    BY LenProperties
  <1>2. \A k \in 1..(2 * n) : /\ at2(k) \in 1..n
                              /\ k % 2 = 1 => k < 2 * n /\ at2(k + 1) = at2(k) /\ (k + 1) % 2 # 1
                              /\ k % 2 # 1 => k > 1 /\ at2(k - 1) = at2(k) /\ (k - 1) % 2 = 1
    BY <1>1
  <1>3. \A m \in 1..n : /\ 2 * m \in 1..(2 * n) /\ 2 * m - 1 \in 1..(2 * n)
                        /\ (2 * m) % 2 # 1 /\ (2 * m - 1) % 2 = 1
                        /\ at2(2 * m) = m /\ at2(2 * m - 1) = m
    BY <1>1
  <1>. HIDE DEF at2
  <1>4. /\ DOMAIN u = 1..(2 * n)
        /\ \A k \in 1..(2 * n) :
              u[k] = <<IF k % 2 = 1 THEN "openItem" ELSE "writeItem", order[at2(k)]>>
    BY DEF StoreItems, at2
  <1>5. \A k \in 1..(2 * n) : /\ k % 2 = 1 => u[k] = <<"openItem", order[at2(k)]>>
                              /\ k % 2 # 1 => u[k] = <<"writeItem", order[at2(k)]>>
    BY <1>4
  <1>6. u \in Seq(StepSet) /\ Len(u) = 2 * n
    <2>1. \A k \in 1..(2 * n) : u[k] \in StepSet
      <3>1. SUFFICES ASSUME NEW k \in 1..(2 * n) PROVE u[k] \in StepSet
        OBVIOUS
      <3>2. order[at2(k)] \in Items
        BY <1>1, <1>2
      <3>3. u[k] = <<"openItem", order[at2(k)]>> \/ u[k] = <<"writeItem", order[at2(k)]>>
        BY <1>5
      <3>4. \A i \in Items : <<"openItem", i>> \in StepSet /\ <<"writeItem", i>> \in StepSet
        BY DEF StepSet, ItemStep
      <3>. QED
        BY <3>2, <3>3, <3>4
    <2>2. 2 * n \in Nat
      BY <1>1
    <2>3. u = [k \in 1..(2 * n) |-> u[k]]
      BY <1>4 DEF StoreItems
    <2>. HIDE DEF u, n
    <2>4. u \in [1..(2 * n) -> StepSet]
      BY <2>1, <2>3
    <2>. QED
      BY <2>2, <2>4
  <1>. HIDE DEF u, n
  <1>7. \A k \in DOMAIN u, i \in Items :
          u[k] = <<"openItem", i>> => k < Len(u) /\ u[k + 1] = <<"writeItem", i>>
    <2>1. SUFFICES ASSUME NEW k \in 1..(2 * n), NEW i \in Items, u[k] = <<"openItem", i>>
                   PROVE  k < 2 * n /\ u[k + 1] = <<"writeItem", i>>
      BY <1>4, <1>6
    <2>2. k % 2 = 1 /\ order[at2(k)] = i
      BY <1>5, <2>1, Names DEF StepNames
    <2>3. k < 2 * n /\ at2(k + 1) = at2(k) /\ (k + 1) % 2 # 1
      BY <1>2, <2>2
    <2>4. k + 1 \in 1..(2 * n)
      BY <1>1, <2>3
    <2>. QED
      BY <1>5, <2>2, <2>3, <2>4
  <1>8. \A k \in DOMAIN u : k > 1 => \A i \in Items : u[k] = <<"writeItem", i>> => u[k - 1] = <<"openItem", i>>
    <2>1. SUFFICES ASSUME NEW k \in 1..(2 * n), NEW i \in Items, u[k] = <<"writeItem", i>>
                   PROVE  u[k - 1] = <<"openItem", i>>
      BY <1>4
    <2>2. k % 2 # 1 /\ order[at2(k)] = i
      BY <1>5, <2>1, Names DEF StepNames
    <2>3. k > 1 /\ at2(k - 1) = at2(k) /\ (k - 1) % 2 = 1
      BY <1>2, <2>2
    <2>4. k - 1 \in 1..(2 * n)
      BY <1>1, <2>3
    <2>. QED
      BY <1>5, <2>2, <2>3, <2>4
  <1>9. \A k \in DOMAIN u : \A s : u[k] # <<s>>
    <2>1. SUFFICES ASSUME NEW k \in 1..(2 * n), NEW s PROVE u[k] # <<s>>
      BY <1>4
    <2>2. u[k] = <<"openItem", order[at2(k)]>> \/ u[k] = <<"writeItem", order[at2(k)]>>
      BY <1>5
    <2>. QED
      BY <2>2, Names DEF StepNames
  <1>10. WellFormed(u)
    BY <1>7, <1>8, <1>9 DEF WellFormed
  <1>11. u # <<>> => \A i \in Items : u[1] # <<"writeItem", i>>
    <2>1. SUFFICES ASSUME u # <<>> PROVE \A i \in Items : u[1] # <<"writeItem", i>>
      OBVIOUS
    <2>2. 1 \in 1..(2 * n)
      BY <1>1, <1>6, <2>1, EmptySeq
    <2>3. u[1] = <<"openItem", order[at2(1)]>>
      BY <1>5, <2>2
    <2>. QED
      BY <2>3, Names DEF StepNames
  <1>12. u # <<>> => 1 \in DOMAIN u
    BY <1>1, <1>4, <1>6, EmptySeq
  <1>13. Block(u)
    BY <1>6, <1>9, <1>10, <1>11, <1>12 DEF Block
  <1>14. Range(u) = {<<s, i>> : s \in {"openItem", "writeItem"}, i \in Range(order)}
    <2>1. ASSUME NEW k \in DOMAIN u
          PROVE  u[k] \in {<<s, i>> : s \in {"openItem", "writeItem"}, i \in Range(order)}
      <3>1. at2(k) \in DOMAIN order /\ order[at2(k)] \in Range(order)
        BY <1>1, <1>2, <1>4 DEF Range
      <3>2. u[k] = <<"openItem", order[at2(k)]>> \/ u[k] = <<"writeItem", order[at2(k)]>>
        BY <1>4, <1>5
      <3>. QED
        BY <3>1, <3>2
    <2>2. ASSUME NEW m \in DOMAIN order
          PROVE  <<"openItem", order[m]>> \in Range(u) /\ <<"writeItem", order[m]>> \in Range(u)
      <3>1. /\ u[2 * m - 1] = <<"openItem", order[m]>> /\ u[2 * m] = <<"writeItem", order[m]>>
            /\ 2 * m - 1 \in DOMAIN u /\ 2 * m \in DOMAIN u
        BY <1>1, <1>3, <1>4, <1>5
      <3>. QED
        BY <3>1 DEF Range
    <2>3. Range(u) \subseteq {<<s, i>> : s \in {"openItem", "writeItem"}, i \in Range(order)}
      BY <2>1 DEF Range
    <2>4. \A i \in Range(order) : <<"openItem", i>> \in Range(u) /\ <<"writeItem", i>> \in Range(u)
      <3>1. SUFFICES ASSUME NEW i \in Range(order)
                     PROVE  <<"openItem", i>> \in Range(u) /\ <<"writeItem", i>> \in Range(u)
        OBVIOUS
      <3>2. PICK m \in DOMAIN order : i = order[m]
        BY DEF Range
      <3>. QED
        BY <2>2, <3>2
    <2>5. {<<s, i>> : s \in {"openItem", "writeItem"}, i \in Range(order)} \subseteq Range(u)
      <3>1. SUFFICES ASSUME NEW s \in {"openItem", "writeItem"}, NEW i \in Range(order)
                     PROVE  <<s, i>> \in Range(u)
        OBVIOUS
      <3>. QED
        BY <2>4
    <2>. QED
      BY <2>3, <2>5
  <1>. QED
    BY <1>13, <1>14 DEF u

LEMMA JoinOneTwo ==
    ASSUME NEW a1, NEW a2, NEW a3
    PROVE  <<a1>> \o <<a2, a3>> = <<a1, a2, a3>>
  <1>. DEFINE S == {a1, a2, a3}
              l == <<a1>>
              r == <<a2, a3>>
              w == <<a1, a2, a3>>
  <1>1. /\ l \in Seq(S) /\ r \in Seq(S) /\ w \in Seq(S)
        /\ Len(l) = 1 /\ Len(r) = 2 /\ Len(w) = 3
    OBVIOUS
  <1>2. /\ l \o r \in Seq(S) /\ Len(l \o r) = 3
        /\ \A k \in 1..3 : (l \o r)[k] = IF k <= 1 THEN l[k] ELSE r[k - 1]
    BY <1>1, ConcatProperties
  <1>3. \A k \in 1..3 : (IF k <= 1 THEN l[k] ELSE r[k - 1]) = w[k]
    OBVIOUS
  <1>4. \A k \in 1..3 : (l \o r)[k] = w[k]
    BY <1>2, <1>3
  <1>. QED
    BY <1>1, <1>2, <1>4, SeqEqual

LEMMA JoinTwoOne ==
    ASSUME NEW a1, NEW a2, NEW a3
    PROVE  <<a1, a2>> \o <<a3>> = <<a1, a2, a3>>
  <1>. DEFINE S == {a1, a2, a3}
              l == <<a1, a2>>
              r == <<a3>>
              w == <<a1, a2, a3>>
  <1>1. /\ l \in Seq(S) /\ r \in Seq(S) /\ w \in Seq(S)
        /\ Len(l) = 2 /\ Len(r) = 1 /\ Len(w) = 3
    OBVIOUS
  <1>2. /\ l \o r \in Seq(S) /\ Len(l \o r) = 3
        /\ \A k \in 1..3 : (l \o r)[k] = IF k <= 2 THEN l[k] ELSE r[k - 2]
    BY <1>1, ConcatProperties
  <1>3. \A k \in 1..3 : (IF k <= 2 THEN l[k] ELSE r[k - 2]) = w[k]
    OBVIOUS
  <1>4. \A k \in 1..3 : (l \o r)[k] = w[k]
    BY <1>2, <1>3
  <1>. QED
    BY <1>1, <1>2, <1>4, SeqEqual

LEMMA JoinTwoThree ==
    ASSUME NEW a1, NEW a2, NEW a3, NEW a4, NEW a5
    PROVE  <<a1, a2>> \o <<a3, a4, a5>> = <<a1, a2, a3, a4, a5>>
  <1>. DEFINE S == {a1, a2, a3, a4, a5}
              l == <<a1, a2>>
              r == <<a3, a4, a5>>
              w == <<a1, a2, a3, a4, a5>>
  <1>1. /\ l \in Seq(S) /\ r \in Seq(S) /\ w \in Seq(S)
        /\ Len(l) = 2 /\ Len(r) = 3 /\ Len(w) = 5
    OBVIOUS
  <1>2. /\ l \o r \in Seq(S) /\ Len(l \o r) = 5
        /\ \A k \in 1..5 : (l \o r)[k] = IF k <= 2 THEN l[k] ELSE r[k - 2]
    BY <1>1, ConcatProperties
  <1>3. \A k \in 1..5 : (IF k <= 2 THEN l[k] ELSE r[k - 2]) = w[k]
    OBVIOUS
  <1>4. \A k \in 1..5 : (l \o r)[k] = w[k]
    BY <1>2, <1>3
  <1>. QED
    BY <1>1, <1>2, <1>4, SeqEqual

LEMMA JoinFives ==
    ASSUME NEW a1, NEW a2, NEW a3, NEW a4, NEW a5, NEW a6, NEW a7, NEW a8, NEW a9, NEW a10
    PROVE  <<a1, a2, a3, a4, a5>> \o <<a6, a7, a8, a9, a10>> = <<a1, a2, a3, a4, a5, a6, a7, a8, a9, a10>>
  <1>. DEFINE S == {a1, a2, a3, a4, a5, a6, a7, a8, a9, a10}
              l == <<a1, a2, a3, a4, a5>>
              r == <<a6, a7, a8, a9, a10>>
              w == <<a1, a2, a3, a4, a5, a6, a7, a8, a9, a10>>
  <1>1. /\ l \in Seq(S) /\ r \in Seq(S) /\ w \in Seq(S)
        /\ Len(l) = 5 /\ Len(r) = 5 /\ Len(w) = 10
    OBVIOUS
  <1>2. /\ l \o r \in Seq(S) /\ Len(l \o r) = 10
        /\ \A k \in 1..10 : (l \o r)[k] = IF k <= 5 THEN l[k] ELSE r[k - 5]
    BY <1>1, ConcatProperties
  <1>3. \A k \in 1..10 : (IF k <= 5 THEN l[k] ELSE r[k - 5]) = w[k]
    OBVIOUS
  <1>4. \A k \in 1..10 : (l \o r)[k] = w[k]
    BY <1>2, <1>3
  <1>. HIDE DEF S, l, r, w
  <1>5. l \o r = w
    BY <1>1, <1>2, <1>4, SeqEqual
  <1>. QED
    BY <1>5 DEF l, r, w

LEMMA ClosingIs ==
    /\ StoreVault \o (<< <<"dropOlder">>, <<"adopt">> >> \o (StoreAppState \o Done)) = Closing
    /\ Closing \in Seq(StepSet) /\ Len(Closing) = 10 /\ DOMAIN Closing = 1..10
    /\ StoreVault \in Seq(StepSet) /\ StoreAppState \in Seq(StepSet) /\ Done \in Seq(StepSet)
    /\ << <<"dropOlder">>, <<"adopt">> >> \in Seq(StepSet)
  <1>1. StoreVault \o (<< <<"dropOlder">>, <<"adopt">> >> \o (StoreAppState \o Done)) = Closing
    <2>1. StoreVault = << <<"openVault">>, <<"writeVault">>, <<"loadState">>, <<"storeState">>,
                          <<"writeState">> >>
      BY JoinTwoThree DEF StoreVault, persistVaultCatalogue
    <2>2. StoreAppState \o Done = << <<"storeApp">>, <<"writeState">>, <<"done">> >>
      BY JoinTwoOne DEF StoreAppState, Done
    <2>3. << <<"dropOlder">>, <<"adopt">> >> \o (StoreAppState \o Done)
             = << <<"dropOlder">>, <<"adopt">>, <<"storeApp">>, <<"writeState">>, <<"done">> >>
      BY <2>2, JoinTwoThree
    <2>4. << <<"openVault">>, <<"writeVault">>, <<"loadState">>, <<"storeState">>,
             <<"writeState">> >>
             \o << <<"dropOlder">>, <<"adopt">>, <<"storeApp">>, <<"writeState">>, <<"done">> >>
          = Closing
      BY JoinFives DEF Closing
    <2>. QED
      BY <2>1, <2>3, <2>4
  <1>2. Closing \in Seq(StepSet)
    BY DEF Closing, StepSet, StepName, ItemStep
  <1>3. Len(Closing) = 10 /\ DOMAIN Closing = 1..10
    BY DEF Closing
  <1>4. << <<"dropOlder">>, <<"adopt">> >> \in Seq(StepSet)
    BY DEF StepSet, StepName, ItemStep
  <1>. QED
    BY <1>1, <1>2, <1>3, <1>4, StoreVaultBlock, Pieces DEF Block

Cat(s, t) == s \o t

LEMMA Joined ==
    ASSUME NEW s \in Seq(StepSet), NEW t \in Seq(StepSet), NEW u, u = Cat(s, t)
    PROVE  /\ u \in Seq(StepSet) /\ Len(u) = Len(s) + Len(t)
           /\ Len(s) \in Nat /\ Len(t) \in Nat /\ DOMAIN u = 1..(Len(s) + Len(t))
           /\ \A k \in 1..(Len(s) + Len(t)) :
                 u[k] = IF k <= Len(s) THEN s[k] ELSE t[k - Len(s)]
  BY ConcatProperties, LenProperties DEF Cat

LEMMA JoinedAt ==
    ASSUME NEW s \in Seq(StepSet), NEW t \in Seq(StepSet), NEW k \in 1..(Len(s) + Len(t))
    PROVE  Cat(s, t)[k] = IF k <= Len(s) THEN s[k] ELSE t[k - Len(s)]
  BY Joined

LEMMA CatThrice ==
    \A s, t, u \in Seq(StepSet) : /\ Cat(Cat(s, t), u) = Cat(s, Cat(t, u))
                                  /\ Cat(s, t) \in Seq(StepSet)
  <1>1. ASSUME NEW s \in Seq(StepSet), NEW t \in Seq(StepSet), NEW u \in Seq(StepSet)
        PROVE  Cat(Cat(s, t), u) = Cat(s, Cat(t, u)) /\ Cat(s, t) \in Seq(StepSet)
    <2>1. (s \o t) \o u = s \o (t \o u)
      BY ConcatAssociative
    <2>. QED
      BY <2>1, ConcatProperties DEF Cat
  <1>. QED
    BY <1>1

LEMMA FiveJoined == 
    ASSUME NEW a \in Seq(StepSet), NEW b \in Seq(StepSet), NEW c \in Seq(StepSet),
           NEW d \in Seq(StepSet), NEW e \in Seq(StepSet)
    PROVE  Cat(Cat(Cat(Cat(a, b), c), d), e) = Cat(a, Cat(b, Cat(c, Cat(d, e))))
  <1>0. /\ Cat(a, b) \in Seq(StepSet) /\ Cat(Cat(a, b), c) \in Seq(StepSet)
        /\ Cat(d, e) \in Seq(StepSet) /\ Cat(c, Cat(d, e)) \in Seq(StepSet)
    BY CatThrice
  <1>1. Cat(Cat(Cat(Cat(a, b), c), d), e) = Cat(Cat(Cat(a, b), c), Cat(d, e))
    BY <1>0, CatThrice
  <1>2. Cat(Cat(Cat(a, b), c), Cat(d, e)) = Cat(Cat(a, b), Cat(c, Cat(d, e)))
    BY <1>0, CatThrice
  <1>3. Cat(Cat(a, b), Cat(c, Cat(d, e))) = Cat(a, Cat(b, Cat(c, Cat(d, e))))
    BY <1>0, CatThrice
  <1>. QED
    BY <1>1, <1>2, <1>3

MoveThenKey == << <<"moveAside">>, <<"openKey">>, <<"writeKey">> >>

LEMMA ChangeBegins ==
    /\ << <<"moveAside">> >> \o CreateVaultKey = MoveThenKey
    /\ Block(MoveThenKey)
    /\ DOMAIN MoveThenKey = {1, 2, 3} /\ Len(MoveThenKey) = 3
    /\ MoveThenKey[1] = <<"moveAside">>
    /\ MoveThenKey[2] = <<"openKey">> /\ MoveThenKey[3] = <<"writeKey">>
    /\ Range(MoveThenKey) = {<<"moveAside">>, <<"openKey">>, <<"writeKey">>}
  <1>1. << <<"moveAside">> >> \o CreateVaultKey = MoveThenKey
    BY JoinOneTwo DEF MoveThenKey, CreateVaultKey
  <1>2. /\ DOMAIN MoveThenKey = {1, 2, 3} /\ Len(MoveThenKey) = 3
        /\ MoveThenKey[1] = <<"moveAside">>
        /\ MoveThenKey[2] = <<"openKey">> /\ MoveThenKey[3] = <<"writeKey">>
    BY DEF MoveThenKey
  <1>3. MoveThenKey \in Seq(StepSet)
    BY DEF MoveThenKey, StepSet, StepName
  <1>4. WellFormed(MoveThenKey)
    BY <1>2, Names DEF WellFormed, StepNames
  <1>5. Range(MoveThenKey) = {<<"moveAside">>, <<"openKey">>, <<"writeKey">>}
    BY <1>2 DEF Range
  <1>. QED
    BY <1>1, <1>2, <1>3, <1>4, <1>5, Names DEF Block, StepNames

LEMMA PlanOfChange ==
    ASSUME NEW is \in SUBSET Items, NEW order \in Bijection(1..Cardinality(is), is),
           Cardinality(is) \in Nat
    PROVE  /\ Block(ChangeVaultPassword(order))
           /\ ChangeVaultPassword(order) # <<>>
           /\ Closes(ChangeVaultPassword(order)) /\ Len(ChangeVaultPassword(order)) > 10
           /\ Head(ChangeVaultPassword(order)) = <<"moveAside">>
           /\ <<"openKey">> \in Range(ChangeVaultPassword(order))
           /\ <<"moveAside">> \notin Range(Tail(ChangeVaultPassword(order)))
           /\ \A i \in is : <<"openItem", i>> \in Range(ChangeVaultPassword(order))
           /\ \A s \in ItemStep, i \in Items :
                 <<s, i>> \in Range(ChangeVaultPassword(order)) => i \in is
  <1>. DEFINE a == << <<"moveAside">> >> \o CreateVaultKey
              x == a \o StoreItems(order)
              d == << <<"dropOlder">>, <<"adopt">> >>
              t == ChangeVaultPassword(order)
  <1>1. order \in Seq(Items) /\ Range(order) = is
    <2>1. order \in [1..Cardinality(is) -> is] /\ \A i \in is : \E k \in 1..Cardinality(is) : order[k] = i
      BY DEF Bijection, Surjection, Injection
    <2>2. order \in Seq(is) /\ Len(order) = Cardinality(is)
      BY <2>1
    <2>3. Range(order) = is
      BY <2>1 DEF Range
    <2>. QED
      BY <2>2, <2>3, SeqMonotonic
  <1>2. /\ Block(StoreItems(order))
        /\ Range(StoreItems(order)) = {<<s, i>> : s \in {"openItem", "writeItem"}, i \in is}
    BY <1>1, StoreItemsBlock
  <1>3. /\ Block(a) /\ Range(a) = {<<"moveAside">>, <<"openKey">>, <<"writeKey">>}
        /\ Len(a) = 3 /\ a[1] = <<"moveAside">> /\ a[2] = <<"openKey">> /\ a[3] = <<"writeKey">>
    BY ChangeBegins
  <1>. HIDE DEF a
  <1>4. Block(x) /\ Range(x) = Range(a) \cup Range(StoreItems(order))
    <2>1. <<"openKey">> \notin Range(StoreItems(order)) /\ <<"done">> \notin Range(a)
      BY <1>2, <1>3, Names DEF StepNames
    <2>. QED
      BY <1>2, <1>3, <2>1, ConcatBlocks
  <1>5. t = Cat(x, Closing)
    <2>1. /\ x \in Seq(StepSet) /\ StoreVault \in Seq(StepSet) /\ d \in Seq(StepSet)
          /\ StoreAppState \in Seq(StepSet) /\ Done \in Seq(StepSet)
      BY <1>4, ClosingIs DEF Block
    <2>2. t = Cat(Cat(Cat(Cat(x, StoreVault), d), StoreAppState), Done)
      BY DEF ChangeVaultPassword, Cat, a
    <2>3. Cat(StoreVault, Cat(d, Cat(StoreAppState, Done))) = Closing
      BY ClosingIs DEF Cat
    <2>. HIDE DEF x, d, t
    <2>4. Cat(Cat(Cat(Cat(x, StoreVault), d), StoreAppState), Done)
             = Cat(x, Cat(StoreVault, Cat(d, Cat(StoreAppState, Done))))
      BY <2>1, FiveJoined
    <2>. QED
      BY <2>2, <2>3, <2>4
  <1>6. Range(x) \subseteq Opening
    <2>1. {<<s, i>> : s \in {"openItem", "writeItem"}, i \in is} \subseteq Opening
      BY DEF Opening
    <2>2. {<<"moveAside">>, <<"openKey">>, <<"writeKey">>} \subseteq Opening
      BY DEF Opening
    <2>. QED
      BY <1>2, <1>3, <1>4, <2>1, <2>2
  <1>7. /\ Len(x) \in Nat /\ DOMAIN x = 1..Len(x) /\ x \in Seq(StepSet)
        /\ t \in Seq(StepSet) /\ Len(t) = Len(x) + 10 /\ DOMAIN t = 1..(Len(x) + 10)
        /\ \A k \in 1..(Len(x) + 10) : t[k] = IF k <= Len(x) THEN x[k] ELSE Closing[k - Len(x)]
    <2>1. Len(x) \in Nat /\ DOMAIN x = 1..Len(x) /\ x \in Seq(StepSet)
      BY <1>4, LenProperties DEF Block
    <2>. HIDE DEF x, t
    <2>2. Closing \in Seq(StepSet) /\ Len(Closing) = 10
      BY ClosingIs
    <2>3. /\ t \in Seq(StepSet) /\ Len(t) = Len(x) + Len(Closing)
          /\ DOMAIN t = 1..(Len(x) + Len(Closing))
          /\ \A k \in 1..(Len(x) + Len(Closing)) :
                t[k] = IF k <= Len(x) THEN x[k] ELSE Closing[k - Len(x)]
      <3>1. t = Cat(x, Closing) /\ x \in Seq(StepSet) /\ Closing \in Seq(StepSet)
        BY <1>5, <2>1, <2>2
      <3>2. /\ t \in Seq(StepSet) /\ Len(t) = Len(x) + Len(Closing)
            /\ DOMAIN t = 1..(Len(x) + Len(Closing))
        BY <3>1, Joined
      <3>3. ASSUME NEW k \in 1..(Len(x) + Len(Closing))
            PROVE  t[k] = IF k <= Len(x) THEN x[k] ELSE Closing[k - Len(x)]
        BY <3>1, JoinedAt
      <3>. QED
        BY <3>2, <3>3
    <2>. QED
      BY <2>1, <2>2, <2>3
  <1>8. Len(x) > 0 /\ x[1] = <<"moveAside">> /\ \A k \in DOMAIN x : x[k] = <<"moveAside">> => k = 1
    <2>1. a \in Seq(StepSet) /\ Len(a) = 3 /\ a[1] = <<"moveAside">> /\ a[2] = <<"openKey">> /\ a[3] = <<"writeKey">>
      BY <1>3 DEF Block
    <2>2. /\ StoreItems(order) \in Seq(StepSet) /\ Len(StoreItems(order)) \in Nat
          /\ DOMAIN StoreItems(order) = 1..Len(StoreItems(order))
      BY <1>2, LenProperties DEF Block
    <2>3. /\ Len(x) = 3 + Len(StoreItems(order))
          /\ \A k \in 1..(3 + Len(StoreItems(order))) :
                x[k] = IF k <= 3 THEN a[k] ELSE StoreItems(order)[k - 3]
      <3>1. /\ Len(x) = Len(a) + Len(StoreItems(order))
            /\ \A k \in 1..(Len(a) + Len(StoreItems(order))) :
                  x[k] = IF k <= Len(a) THEN a[k] ELSE StoreItems(order)[k - Len(a)]
        <4>1. x = Cat(a, StoreItems(order))
          BY DEF Cat
        <4>. HIDE DEF x
        <4>. QED
          BY <2>1, <2>2, <4>1, Joined
      <3>. QED
        BY <2>1, <3>1
    <2>4. \A k \in DOMAIN StoreItems(order) : StoreItems(order)[k] # <<"moveAside">>
      BY <1>2, Names DEF Range, StepNames
    <2>. HIDE DEF x
    <2>5. ASSUME NEW k \in 1..Len(x), x[k] = <<"moveAside">> PROVE k = 1
      <3>1. CASE k > 3
        <4>1. k - 3 \in DOMAIN StoreItems(order) /\ x[k] = StoreItems(order)[k - 3]
          BY <2>2, <2>3, <3>1
        <4>. QED
          BY <2>4, <2>5, <4>1
      <3>2. CASE k = 2 \/ k = 3
        <4>1. x[k] = <<"openKey">> \/ x[k] = <<"writeKey">>
          BY <2>1, <2>2, <2>3, <3>2
        <4>. QED
          BY <2>5, <4>1, Names DEF StepNames
      <3>. QED
        BY <2>2, <2>3, <3>1, <3>2
    <2>6. Len(x) > 0 /\ x[1] = <<"moveAside">>
      BY <2>1, <2>2, <2>3
    <2>. QED
      BY <1>7, <2>5, <2>6
  <1>. HIDE DEF x, t
  <1>9. Closes(t)
    <2>1. SUFFICES ASSUME NEW k \in DOMAIN t
                   PROVE  IF k + 10 > Len(t) THEN t[k] = Closing[k + 10 - Len(t)]
                                             ELSE t[k] \in Opening
      BY DEF Closes
    <2>2. CASE k > Len(x)
      <3>1. t[k] = Closing[k - Len(x)] /\ k + 10 > Len(t) /\ k + 10 - Len(t) = k - Len(x)
        BY <1>7, <2>2
      <3>. QED
        BY <3>1
    <2>3. CASE k <= Len(x)
      <3>1. t[k] = x[k] /\ ~(k + 10 > Len(t)) /\ k \in DOMAIN x
        BY <1>7, <2>3
      <3>2. x[k] \in Opening
        BY <1>6, <3>1 DEF Range
      <3>. QED
        BY <3>1, <3>2
    <2>. QED
      BY <1>7, <2>2, <2>3
  <1>10. /\ StoreVault \in Seq(StepSet) /\ Range(Closing) = VaultSteps \cup StateSteps
                  \cup {<<"dropOlder">>, <<"adopt">>}
         /\ Block(Closing)
    <2>1. DOMAIN Closing = {1, 2, 3, 4, 5, 6, 7, 8, 9, 10}
      BY ClosingIs
    <2>2. /\ Closing[1] = <<"openVault">> /\ Closing[2] = <<"writeVault">>
          /\ Closing[3] = <<"loadState">> /\ Closing[4] = <<"storeState">>
          /\ Closing[5] = <<"writeState">> /\ Closing[6] = <<"dropOlder">>
          /\ Closing[7] = <<"adopt">> /\ Closing[8] = <<"storeApp">>
          /\ Closing[9] = <<"writeState">> /\ Closing[10] = <<"done">>
      BY DEF Closing
    <2>3. Range(Closing) = {Closing[1], Closing[2], Closing[3], Closing[4], Closing[5],
                            Closing[6], Closing[7], Closing[8], Closing[9], Closing[10]}
      BY <2>1 DEF Range
    <2>4. Range(Closing) = VaultSteps \cup StateSteps \cup {<<"dropOlder">>, <<"adopt">>}
      BY <2>2, <2>3 DEF VaultSteps, StateSteps
    <2>5. WellFormed(Closing)
      <3>1. /\ \A k \in DOMAIN Closing : Closing[k] = <<"openVault">> => k = 1
            /\ \A k \in DOMAIN Closing : Closing[k] = <<"writeVault">> => k = 2
            /\ \A k \in DOMAIN Closing : Closing[k] = <<"done">> => k = 10
        BY <2>1, <2>2, Names DEF StepNames
      <3>2. \A k \in DOMAIN Closing : Closing[k] # <<"openKey">> /\ Closing[k] # <<"writeKey">>
        BY <2>1, <2>2, Names DEF StepNames
      <3>3. \A k \in DOMAIN Closing : \E s \in StepName : Closing[k] = <<s>>
        BY <2>1, <2>2 DEF StepName
      <3>4. \A k \in DOMAIN Closing, i \in Items :
               Closing[k] # <<"openItem", i>> /\ Closing[k] # <<"writeItem", i>>
        BY <3>3, Names DEF StepNames
      <3>5. /\ 1 < Len(Closing) /\ Closing[1 + 1] = <<"writeVault">> /\ 10 = Len(Closing)
            /\ Closing[2 - 1] = <<"openVault">>
        BY <2>2, ClosingIs
      <3>. QED
        BY <3>1, <3>2, <3>4, <3>5 DEF WellFormed
    <2>. QED
      BY <2>2, <2>4, <2>5, ClosingIs, Names DEF Block, StepNames
  <1>11. Block(t) /\ Range(t) = Range(x) \cup Range(Closing)
    <2>1. <<"openKey">> \notin Range(Closing) /\ <<"done">> \notin Range(x)
      BY <1>2, <1>3, <1>4, <1>10, Names DEF VaultSteps, StateSteps, StepNames
    <2>. QED
      BY <1>4, <1>5, <1>10, <2>1, ConcatBlocks DEF Cat
  <1>12. t # <<>> /\ Len(t) > 10 /\ Head(t) = <<"moveAside">>
    <2>1. Len(t) > 10 /\ t[1] = x[1]
      BY <1>7, <1>8
    <2>2. t # <<>>
      BY <1>7, <2>1, EmptySeq
    <2>. QED
      BY <1>7, <1>8, <2>1, <2>2, TailSteps
  <1>13. <<"moveAside">> \notin Range(Tail(t))
    <2>1. SUFFICES ASSUME NEW k \in DOMAIN Tail(t), Tail(t)[k] = <<"moveAside">> PROVE FALSE
      BY DEF Range
    <2>2. k \in 1..(Len(x) + 9) /\ t[k + 1] = <<"moveAside">>
      BY <1>7, <1>12, <2>1, TailSteps
    <2>3. CASE k + 1 <= Len(x)
      <3>1. x[k + 1] = <<"moveAside">> /\ k + 1 \in DOMAIN x /\ k + 1 # 1
        BY <1>7, <2>2, <2>3
      <3>. QED
        BY <1>8, <3>1
    <2>4. CASE k + 1 > Len(x)
      <3>1. PICK j \in 1..(Len(x) + 10) : j = k + 1 /\ ~(j <= Len(x)) /\ t[j] = <<"moveAside">>
        BY <1>7, <2>2, <2>4
      <3>2. Closing[j - Len(x)] = <<"moveAside">>
        BY <1>7, <3>1
      <3>3. j - Len(x) \in 1..10
        <4>1. Len(x) \in Int /\ j \in Int /\ j <= Len(x) + 10 /\ j > Len(x)
          BY <1>7, <3>1
        <4>. QED
          BY <4>1
      <3>4. <<"moveAside">> \in Range(Closing)
        BY <3>2, <3>3, ClosingIs DEF Range
      <3>. QED
        BY <1>10, <3>4, Names DEF VaultSteps, StateSteps, StepNames
    <2>. QED
      BY <1>7, <2>2, <2>3, <2>4
  <1>14. /\ <<"openKey">> \in Range(t) /\ \A i \in is : <<"openItem", i>> \in Range(t)
    BY <1>2, <1>3, <1>4, <1>11
  <1>15. \A s \in ItemStep, i \in Items : <<s, i>> \in Range(t) => i \in is
    <2>1. SUFFICES ASSUME NEW s \in ItemStep, NEW i \in Items, <<s, i>> \in Range(t)
                   PROVE  i \in is
      OBVIOUS
    <2>2. <<s, i>> \notin Range(Closing) /\ <<s, i>> \notin Range(a)
      BY <1>3, <1>10, Names DEF VaultSteps, StateSteps, StepNames
    <2>3. <<s, i>> \in {<<r, j>> : r \in {"openItem", "writeItem"}, j \in is}
      BY <1>2, <1>4, <1>11, <2>1, <2>2
    <2>4. PICK r \in {"openItem", "writeItem"}, j \in is : <<s, i>> = <<r, j>>
      BY <2>3
    <2>. QED
      BY <2>4, Names DEF StepNames
  <1>. QED
    BY <1>9, <1>11, <1>12, <1>13, <1>14, <1>15 DEF t

LEMMA TailHead ==
    ASSUME NEW t \in Seq(StepSet), t # <<>>, WellFormed(t), NEW u, u = Tail(t)
    PROVE  /\ u # <<>> => /\ Head(u) = <<"writeKey">> <=> Head(t) = <<"openKey">>
                          /\ Head(u) = <<"writeVault">> <=> Head(t) = <<"openVault">>
                          /\ \A i \in Items :
                                Head(u) = <<"writeItem", i>> <=> Head(t) = <<"openItem", i>>
           /\ Head(t) = <<"openKey">> => u # <<>>
           /\ Head(t) = <<"openVault">> => u # <<>>
           /\ \A i \in Items : Head(t) = <<"openItem", i>> => u # <<>>
           /\ Head(t) = <<"done">> => u = <<>>
           /\ <<"openKey">> \in Range(t) => Head(t) \in {<<"openKey">>, <<"moveAside">>}
  <1>1. /\ u \in Seq(StepSet) /\ Len(t) \in Nat /\ Len(t) > 0 /\ Len(u) = Len(t) - 1
        /\ DOMAIN t = 1..Len(t) /\ Head(t) = t[1]
        /\ \A k \in 1..(Len(t) - 1) : u[k] = t[k + 1]
    BY TailSteps
  <1>2. u # <<>> <=> Len(t) > 1
    <2>1. u = <<>> <=> Len(u) = 0
      BY <1>1, EmptySeq
    <2>. QED
      BY <2>1, <1>1
  <1>3. u # <<>> => Head(u) = t[2] /\ 2 \in DOMAIN t /\ 2 - 1 = 1 /\ 1 + 1 = 2
    BY <1>1, <1>2, HeadTailProperties
  <1>4. 1 \in DOMAIN t /\ 1 + 1 = 2
    BY <1>1
  <1>5. /\ t[1] = <<"openKey">> => 1 < Len(t) /\ t[2] = <<"writeKey">>
        /\ t[1] = <<"openVault">> => 1 < Len(t) /\ t[2] = <<"writeVault">>
        /\ \A i \in Items : t[1] = <<"openItem", i>> => 1 < Len(t) /\ t[2] = <<"writeItem", i>>
        /\ t[1] = <<"done">> => 1 = Len(t)
    BY <1>4 DEF WellFormed
  <1>6. u # <<>> =>
          /\ t[2] = <<"writeKey">> => t[1] = <<"openKey">>
          /\ t[2] = <<"writeVault">> => t[1] = <<"openVault">>
          /\ \A i \in Items : t[2] = <<"writeItem", i>> => t[1] = <<"openItem", i>>
    <2>1. SUFFICES ASSUME u # <<>>
            PROVE  /\ t[2] = <<"writeKey">> => t[2 - 1] = <<"openKey">>
                   /\ t[2] = <<"writeVault">> => t[2 - 1] = <<"openVault">>
                   /\ \A i \in Items : t[2] = <<"writeItem", i>> => t[2 - 1] = <<"openItem", i>>
      BY <1>3
    <2>2. 2 \in DOMAIN t /\ 2 > 1
      BY <1>3, <2>1
    <2>. QED
      BY <2>2 DEF WellFormed
  <1>7. <<"openKey">> \in Range(t) => t[1] \in {<<"openKey">>, <<"moveAside">>}
    BY DEF WellFormed, Range
  <1>8. u # <<>> => /\ Head(u) = <<"writeKey">> <=> Head(t) = <<"openKey">>
                    /\ Head(u) = <<"writeVault">> <=> Head(t) = <<"openVault">>
    BY <1>1, <1>3, <1>5, <1>6
  <1>9. u # <<>> => \A i \in Items : Head(u) = <<"writeItem", i>> <=> Head(t) = <<"openItem", i>>
    BY <1>1, <1>3, <1>5, <1>6
  <1>10. /\ Head(t) = <<"openKey">> => u # <<>>
         /\ Head(t) = <<"openVault">> => u # <<>>
         /\ \A i \in Items : Head(t) = <<"openItem", i>> => u # <<>>
    BY <1>1, <1>2, <1>5
  <1>11. Head(t) = <<"done">> => u = <<>>
    BY <1>1, <1>2, <1>5
  <1>. QED
    BY <1>1, <1>7, <1>8, <1>9, <1>10, <1>11

\* The plans are lists of steps, and well formed.
Plans == plan \in [Proc -> Seq(StepSet)] /\ \A p \in Proc : WellFormed(plan[p])

Writing(p) == \/ At(p, "writeKey") \/ At(p, "writeVault")
              \/ \E i \in Items : AtItem(p, "writeItem", i)

\* The process does the step at the head of its plan.
LEMMA Advanced ==
    ASSUME Plans, NEW p \in Proc, ~Idle(p), Advance(p)
    PROVE  /\ Plans'
           /\ \A q \in Proc : q # p => plan'[q] = plan[q]
           /\ Range(plan'[p]) \subseteq Range(plan[p])
           /\ Head(plan[p]) \in Range(plan[p])
           /\ \A x \in Range(plan[p]) : x # Head(plan[p]) => x \in Range(plan'[p])
           /\ plan'[p] = Tail(plan[p]) /\ plan[p] # <<>>
           /\ Len(plan[p]) \in Nat /\ Len(plan'[p]) = Len(plan[p]) - 1
  <1>1. plan[p] \in Seq(StepSet) /\ plan[p] # <<>> /\ WellFormed(plan[p])
    BY DEF Plans, Idle
  <1>2. /\ plan'[p] = Tail(plan[p]) /\ \A q \in Proc : q # p => plan'[q] = plan[q]
        /\ plan' = [plan EXCEPT ![p] = Tail(plan[p])]
    BY DEF Plans, Advance
  <1>3. /\ Tail(plan[p]) \in Seq(StepSet) /\ Len(plan[p]) \in Nat
        /\ Len(Tail(plan[p])) = Len(plan[p]) - 1
    BY <1>1, TailSteps
  <1>4. Range(plan[p]) = {Head(plan[p])} \cup Range(Tail(plan[p]))
    BY <1>1, TailLeft
  <1>5. WellFormed(Tail(plan[p]))
    BY <1>1, TailWellFormed
  <1>6. plan' \in [Proc -> Seq(StepSet)]
    BY <1>2, <1>3 DEF Plans
  <1>7. \A q \in Proc : WellFormed(plan'[q])
    BY <1>2, <1>5 DEF Plans
  <1>8. (\A q \in Proc : WellFormed(plan[q]))'
    BY <1>7 DEF WellFormed
  <1>9. Plans'
    BY <1>6, <1>8 DEF Plans
  <1>. QED
    BY <1>1, <1>2, <1>3, <1>4, <1>9

\* What comes next.
LEMMA NextStep ==
    ASSUME Plans, NEW p \in Proc, ~Idle(p), Advance(p)
    PROVE  /\ At(p, "writeKey")' <=> At(p, "openKey")
           /\ At(p, "writeVault")' <=> At(p, "openVault")
           /\ \A i \in Items : AtItem(p, "writeItem", i)' <=> AtItem(p, "openItem", i)
           /\ At(p, "done") => Idle(p)'
           /\ <<"openKey">> \in Range(plan[p]) => At(p, "openKey") \/ At(p, "moveAside")
  <1>1. plan[p] \in Seq(StepSet) /\ plan[p] # <<>> /\ WellFormed(plan[p])
    BY DEF Plans, Idle
  <1>2. plan'[p] = Tail(plan[p])
    BY DEF Plans, Advance
  <1>. DEFINE t == plan[p]
              u == plan'[p]
  <1>3. /\ u # <<>> => /\ Head(u) = <<"writeKey">> <=> Head(t) = <<"openKey">>
                       /\ Head(u) = <<"writeVault">> <=> Head(t) = <<"openVault">>
                       /\ \A i \in Items :
                                Head(u) = <<"writeItem", i>> <=> Head(t) = <<"openItem", i>>
        /\ Head(t) = <<"openKey">> => u # <<>>
        /\ Head(t) = <<"openVault">> => u # <<>>
        /\ \A i \in Items : Head(t) = <<"openItem", i>> => u # <<>>
        /\ Head(t) = <<"done">> => u = <<>>
        /\ <<"openKey">> \in Range(t) => Head(t) \in {<<"openKey">>, <<"moveAside">>}
    BY <1>1, <1>2, TailHead
  <1>4. At(p, "writeKey")' <=> At(p, "openKey")
    BY <1>1, <1>3 DEF At, Idle
  <1>5. At(p, "writeVault")' <=> At(p, "openVault")
    BY <1>1, <1>3 DEF At, Idle
  <1>6. ASSUME NEW i \in Items PROVE AtItem(p, "writeItem", i)' <=> AtItem(p, "openItem", i)
    BY <1>1, <1>3 DEF AtItem, Idle
  <1>7. At(p, "done") => Idle(p)'
    BY <1>1, <1>3 DEF At, Idle
  <1>8. <<"openKey">> \in Range(plan[p]) => At(p, "openKey") \/ At(p, "moveAside")
    BY <1>1, <1>3 DEF At, Idle
  <1>. QED
    BY <1>4, <1>5, <1>6, <1>7, <1>8

\* The step at the head is one step.
LEMMA OneStep ==
    ASSUME NEW p \in Proc
    PROVE  /\ \A s, u : At(p, s) /\ At(p, u) => s = u
           /\ \A s, u, i : ~(At(p, s) /\ AtItem(p, u, i))
           /\ \A s, u, i, j : AtItem(p, s, i) /\ AtItem(p, u, j) => s = u /\ i = j
           /\ \A s : At(p, s) => ~Idle(p) /\ Head(plan[p]) = <<s>>
           /\ \A s, i : AtItem(p, s, i) => ~Idle(p) /\ Head(plan[p]) = <<s, i>>
  <1>1. /\ \A s, u : At(p, s) /\ At(p, u) => s = u
        /\ \A s, u, i : ~(At(p, s) /\ AtItem(p, u, i))
    BY Names DEF At, AtItem, StepNames
  <1>2. \A s, u, i, j : AtItem(p, s, i) /\ AtItem(p, u, j) => s = u /\ i = j
    BY Names DEF AtItem, StepNames
  <1>3. /\ \A s : At(p, s) => ~Idle(p) /\ Head(plan[p]) = <<s>>
        /\ \A s, i : AtItem(p, s, i) => ~Idle(p) /\ Head(plan[p]) = <<s, i>>
    BY DEF At, AtItem
  <1>. QED
    BY <1>1, <1>2, <1>3

\* The places of the last steps of a password change.
LEMMA ClosesFacts ==
    ASSUME NEW t \in Seq(StepSet), t # <<>>, Closes(t)
    PROVE  /\ Len(t) > 10 => Head(t) \in Opening
           /\ Len(t) = 10 => Head(t) = <<"openVault">>
           /\ Len(t) = 9 => Head(t) = <<"writeVault">>
           /\ Len(t) = 8 => Head(t) = <<"loadState">>
           /\ Len(t) = 7 => Head(t) = <<"storeState">>
           /\ Len(t) = 6 => Head(t) = <<"writeState">>
           /\ Len(t) = 5 => Head(t) = <<"dropOlder">>
           /\ Len(t) = 4 => Head(t) = <<"adopt">>
           /\ Len(t) = 3 => Head(t) = <<"storeApp">>
           /\ Len(t) = 2 => Head(t) = <<"writeState">>
           /\ Len(t) = 1 => Head(t) = <<"done">>
           /\ Len(t) \in Nat /\ Len(t) > 0
  <1>1. Len(t) \in Nat /\ Len(t) > 0 /\ 1 \in DOMAIN t /\ Head(t) = t[1]
    BY TailSteps
  <1>2. IF 1 + 10 > Len(t) THEN t[1] = Closing[1 + 10 - Len(t)] ELSE t[1] \in Opening
    BY <1>1 DEF Closes
  <1>3. Len(t) > 10 => Head(t) \in Opening
    BY <1>1, <1>2
  <1>4. Len(t) <= 10 => Head(t) = Closing[11 - Len(t)]
    BY <1>1, <1>2
  <1>5. /\ Closing[1] = <<"openVault">> /\ Closing[2] = <<"writeVault">>
        /\ Closing[3] = <<"loadState">> /\ Closing[4] = <<"storeState">>
        /\ Closing[5] = <<"writeState">> /\ Closing[6] = <<"dropOlder">>
        /\ Closing[7] = <<"adopt">> /\ Closing[8] = <<"storeApp">>
        /\ Closing[9] = <<"writeState">> /\ Closing[10] = <<"done">>
    BY DEF Closing
  <1>6. /\ 11 - 10 = 1 /\ 11 - 9 = 2 /\ 11 - 8 = 3 /\ 11 - 7 = 4 /\ 11 - 6 = 5
        /\ 11 - 5 = 6 /\ 11 - 4 = 7 /\ 11 - 3 = 8 /\ 11 - 2 = 9 /\ 11 - 1 = 10
    OBVIOUS
  <1>9. ASSUME NEW n \in 1..10, Len(t) = n PROVE Head(t) = Closing[11 - n]
    BY <1>4, <1>9
  <1>7. /\ Len(t) = 10 => Head(t) = Closing[1]
        /\ Len(t) = 8 => Head(t) = Closing[3]
        /\ Len(t) = 7 => Head(t) = Closing[4]
        /\ Len(t) = 6 => Head(t) = Closing[5]
    BY <1>9, <1>6
  <1>8. /\ Len(t) = 9 => Head(t) = Closing[2]
        /\ Len(t) = 5 => Head(t) = Closing[6]
        /\ Len(t) = 4 => Head(t) = Closing[7]
        /\ Len(t) = 3 => Head(t) = Closing[8]
        /\ Len(t) = 2 => Head(t) = Closing[9]
        /\ Len(t) = 1 => Head(t) = Closing[10]
    BY <1>9, <1>6
  <1>. QED
    BY <1>1, <1>3, <1>5, <1>7, <1>8

LEMMA ClosesRange ==
    ASSUME NEW t \in Seq(StepSet), Closes(t)
    PROVE  /\ Range(t) \subseteq Opening \cup
                {<<"openVault">>, <<"writeVault">>, <<"loadState">>, <<"storeState">>,
                 <<"writeState">>, <<"dropOlder">>, <<"adopt">>, <<"storeApp">>, <<"done">>}
           /\ Len(t) <= 10 => Range(t) \subseteq
                {<<"openVault">>, <<"writeVault">>, <<"loadState">>, <<"storeState">>,
                 <<"writeState">>, <<"dropOlder">>, <<"adopt">>, <<"storeApp">>, <<"done">>}
  <1>. DEFINE C == {<<"openVault">>, <<"writeVault">>, <<"loadState">>, <<"storeState">>,
                 <<"writeState">>, <<"dropOlder">>, <<"adopt">>, <<"storeApp">>, <<"done">>}
  <1>1. \A n \in 1..10 : Closing[n] \in C
    BY DEF Closing
  <1>2. Len(t) \in Nat /\ DOMAIN t = 1..Len(t)
    BY LenProperties
  <1>3. ASSUME NEW k \in DOMAIN t
        PROVE  t[k] \in Opening \cup C /\ (Len(t) <= 10 => t[k] \in C)
    <2>1. k \in Nat /\ k >= 1 /\ k <= Len(t)
      BY <1>2
    <2>2. CASE k + 10 > Len(t)
      <3>1. t[k] = Closing[k + 10 - Len(t)]
        BY <2>2 DEF Closes
      <3>2. k + 10 - Len(t) \in 1..10
        BY <2>1, <2>2, <1>2
      <3>. QED
        BY <3>1, <3>2, <1>1
    <2>3. CASE ~(k + 10 > Len(t))
      <3>1. t[k] \in Opening
        BY <2>3 DEF Closes
      <3>2. Len(t) > 10
        BY <2>1, <2>3, <1>2
      <3>. QED
        BY <3>1, <3>2, <1>2
    <2>. QED
      BY <2>2, <2>3
  <1>. HIDE DEF C
  <1>4. Range(t) \subseteq Opening \cup C /\ (Len(t) <= 10 => Range(t) \subseteq C)
    BY <1>3 DEF Range
  <1>. QED
    BY <1>4 DEF C

Kinds == {"none", "create", "unlock", "save", "drop", "rekeyStart", "rekey", "rekeyed",
          "restore"}
Changing == {"rekeyStart", "rekey", "rekeyed", "restore"}
JobInv == job \in [Proc -> [kind : Kinds, pw : Passwords, back : {0} \cup Backup]]

LEMMA OpeningSteps ==
    /\ \A s : <<s>> \in Opening => s \in {"moveAside", "openKey", "writeKey"}
    /\ \A s, i : <<s, i>> \in Opening => s \in {"openItem", "writeItem"}
  BY Names DEF Opening, StepNames

\* Where a password change is, by the step it is at.
LEMMA ChangeHeads ==
    ASSUME Plans, KindInv, Kind \in Changing
    PROVE  /\ ~Idle("gui") /\ Ahead \in Nat /\ Ahead > 0 /\ Kind = job.gui.kind
           /\ At("gui", "moveAside") => Kind = "rekeyStart"
           /\ \A s \in {"openKey", "writeKey"} : At("gui", s) => Kind = "rekey" /\ Ahead > 10
           /\ \A s, i : AtItem("gui", s, i) =>
                 Kind = "rekey" /\ Ahead > 10 /\ s \in {"openItem", "writeItem"}
           /\ At("gui", "openVault") => Kind = "rekey" /\ Ahead = 10
           /\ At("gui", "writeVault") => Kind = "rekey" /\ Ahead = 9
           /\ At("gui", "loadState") => Kind = "rekey" /\ Ahead = 8
           /\ At("gui", "storeState") => Kind = "rekey" /\ Ahead = 7
           /\ At("gui", "writeState") => (Kind = "rekey" /\ Ahead = 6) \/ (Kind = "rekeyed" /\ Ahead = 2)
           /\ At("gui", "dropOlder") => Kind = "rekey" /\ Ahead = 5
           /\ At("gui", "adopt") => Kind = "rekeyed" /\ Ahead = 4
           /\ At("gui", "storeApp") => Kind = "rekeyed" /\ Ahead = 3
           /\ At("gui", "done") => Kind \in {"rekeyed", "restore"}
           /\ \A s \in {"clearActive", "moveBack"} : At("gui", s) => Kind = "restore"
           /\ \A s \in {"loadSeen", "prompt", "recolour"} : ~At("gui", s)
  <1>. DEFINE t == plan["gui"]
  <1>0. t \in Seq(StepSet) /\ "gui" \in Proc
    BY DEF Plans, Proc
  <1>1. t # <<>> /\ ~Idle("gui") /\ Kind = job.gui.kind
    BY DEF Kind, Changing, Idle
  <1>2. Ahead \in Nat /\ Ahead > 0 /\ Ahead = Len(t)
    BY <1>0, <1>1, TailSteps DEF Ahead
  <1>2a. Ahead \in Nat /\ Ahead > 0
    BY <1>2
  <1>3. /\ \A s : At("gui", s) <=> Head(t) = <<s>>
        /\ \A s, i : AtItem("gui", s, i) <=> Head(t) = <<s, i>>
    BY <1>1 DEF At, AtItem
  <1>. HIDE DEF t
  <1>4. CASE Kind = "rekeyStart"
    <2>1. Head(t) = <<"moveAside">>
      BY <1>3, <1>4 DEF KindInv
    <2>. QED
      BY <1>1, <1>2, <1>3, <1>4, <2>1, Names DEF StepNames
  <1>5. CASE Kind = "restore"
    <2>1. t \in {restoreBackup, Tail(restoreBackup), Done}
      BY <1>5 DEF KindInv, t
    <2>2. Head(t) \in {<<"clearActive">>, <<"moveBack">>, <<"done">>}
      BY <2>1 DEF restoreBackup, Done
    <2>. QED
      BY <1>1, <1>2, <1>3, <1>5, <2>2, Names DEF StepNames
  <1>6. CASE Kind \in {"rekey", "rekeyed"}
    <2>1. Closes(t) /\ (Kind = "rekey" => Ahead > 4) /\ (Kind = "rekeyed" => Ahead < 5)
      BY <1>6 DEF KindInv, t
    <2>2. /\ Ahead > 10 => Head(t) \in Opening
          /\ Ahead = 10 => Head(t) = <<"openVault">>
          /\ Ahead = 9 => Head(t) = <<"writeVault">>
          /\ Ahead = 8 => Head(t) = <<"loadState">>
          /\ Ahead = 7 => Head(t) = <<"storeState">>
          /\ Ahead = 6 => Head(t) = <<"writeState">>
          /\ Ahead = 5 => Head(t) = <<"dropOlder">>
          /\ Ahead = 4 => Head(t) = <<"adopt">>
          /\ Ahead = 3 => Head(t) = <<"storeApp">>
          /\ Ahead = 2 => Head(t) = <<"writeState">>
          /\ Ahead = 1 => Head(t) = <<"done">>
      BY <1>0, <1>1, <1>2, <2>1, ClosesFacts
    <2>3. <<"moveAside">> \in Range(t) => Kind # "rekey"
      BY <1>6 DEF KindInv, Left, t
    <2>4. Head(t) \in Range(t)
      BY <1>0, <1>1, TailLeft
    <2>5. CASE Ahead > 10
      <3>1. Kind = "rekey" /\ Head(t) \in Opening /\ Head(t) # <<"moveAside">>
        <4>1. ~(Ahead < 5)
          BY <1>2a, <2>5
        <4>2. Kind = "rekey"
          BY <4>1, <1>6, <2>1
        <4>. QED
          BY <4>2, <2>2, <2>3, <2>4, <2>5
      <3>2. /\ \A s : At("gui", s) => s \in {"openKey", "writeKey"}
            /\ \A s, i : AtItem("gui", s, i) => s \in {"openItem", "writeItem"}
        BY <1>3, <3>1, OpeningSteps
      <3>. QED
        BY <1>1, <1>2, <2>5, <3>1, <3>2
    <2>6. CASE Ahead \in 1..10
      <3>1. Ahead \in 1..10
        BY <2>6
      <3>2. ASSUME NEW n \in 1..10, Ahead = n PROVE Kind = IF n > 4 THEN "rekey" ELSE "rekeyed"
        BY <1>6, <2>1, <3>2
      <3>3. \A s, i : ~AtItem("gui", s, i)
        BY <1>3, <2>2, <3>1, Names DEF StepNames
      <3>4. \A s : At("gui", s) => Head(t) = <<s>>
        BY <1>3
      <3>5. /\ At("gui", "openVault") => Ahead = 10
            /\ At("gui", "writeVault") => Ahead = 9
            /\ At("gui", "loadState") => Ahead = 8
            /\ At("gui", "storeState") => Ahead = 7
            /\ At("gui", "writeState") => Ahead = 6 \/ Ahead = 2
            /\ At("gui", "dropOlder") => Ahead = 5
            /\ At("gui", "adopt") => Ahead = 4
            /\ At("gui", "storeApp") => Ahead = 3
            /\ At("gui", "done") => Ahead = 1
        BY <3>1, <3>4, <2>2, Names DEF StepNames
      <3>6. /\ ~At("gui", "moveAside")
            /\ \A s \in {"openKey", "writeKey"} : ~At("gui", s)
            /\ \A s \in {"clearActive", "moveBack"} : ~At("gui", s)
            /\ \A s \in {"loadSeen", "prompt", "recolour"} : ~At("gui", s)
        BY <3>1, <3>4, <2>2, Names DEF StepNames
      <3>7. /\ Ahead \in {10, 9, 8, 7, 6, 5} => Kind = "rekey"
            /\ Ahead \in {4, 3, 2, 1} => Kind = "rekeyed"
        BY <3>1, <3>2
      <3>8. /\ At("gui", "openVault") => Kind = "rekey" /\ Ahead = 10
            /\ At("gui", "writeVault") => Kind = "rekey" /\ Ahead = 9
            /\ At("gui", "loadState") => Kind = "rekey" /\ Ahead = 8
            /\ At("gui", "storeState") => Kind = "rekey" /\ Ahead = 7
            /\ At("gui", "writeState") =>
                  (Kind = "rekey" /\ Ahead = 6) \/ (Kind = "rekeyed" /\ Ahead = 2)
            /\ At("gui", "dropOlder") => Kind = "rekey" /\ Ahead = 5
            /\ At("gui", "adopt") => Kind = "rekeyed" /\ Ahead = 4
            /\ At("gui", "storeApp") => Kind = "rekeyed" /\ Ahead = 3
            /\ At("gui", "done") => Kind = "rekeyed"
        BY <3>5, <3>7
      <3>. QED
        BY <1>1, <1>2, <3>3, <3>6, <3>7, <3>8
    <2>7. Ahead > 10 \/ Ahead \in 1..10
      BY <1>2a
    <2>. QED
      BY <2>5, <2>6, <2>7
  <1>. QED
    BY <1>4, <1>5, <1>6 DEF Changing

\* The steps no other operation has.
LEMMA OtherHeads ==
    ASSUME Plans, KindInv, Kind \notin Changing
    PROVE  /\ \A s \in {"moveAside", "dropOlder", "adopt", "clearActive", "moveBack"} :
                 ~At("gui", s)
           /\ Kind = "none" => \A s, i : /\ ~AtItem("gui", s, i)
                                         /\ At("gui", s) => s \in {"storeApp", "storeState",
                                                                   "writeState", "done"}
  <1>1. \A s : At("gui", s) => <<s>> \in Range(plan["gui"])
    BY TailLeft DEF At, Idle, Plans, Proc
  <1>2. \A s, i : AtItem("gui", s, i) => <<s, i>> \in Range(plan["gui"])
    BY TailLeft DEF AtItem, Idle, Plans, Proc
  <1>3. \A s \in {"moveAside", "dropOlder", "adopt", "clearActive", "moveBack"} :
            <<s>> \notin Range(plan["gui"])
    BY DEF KindInv, Changing, Left, Private
  <1>4. Kind = "none" => Range(plan["gui"]) \subseteq
            {<<"storeApp">>, <<"storeState">>, <<"writeState">>, <<"done">>}
    BY DEF KindInv, Left
  <1>5. \A s \in {"moveAside", "dropOlder", "adopt", "clearActive", "moveBack"} : ~At("gui", s)
    BY <1>1, <1>3
  <1>6. ASSUME Kind = "none"
        PROVE  \A s, i : /\ ~AtItem("gui", s, i)
                         /\ At("gui", s) => s \in {"storeApp", "storeState", "writeState", "done"}
    <2>1. ASSUME NEW s, NEW i PROVE ~AtItem("gui", s, i)
      <3>1. /\ <<s, i>> # <<"storeApp">> /\ <<s, i>> # <<"storeState">>
            /\ <<s, i>> # <<"writeState">> /\ <<s, i>> # <<"done">>
        BY Names DEF StepNames
      <3>. QED
        BY <3>1, <1>2, <1>4, <1>6
    <2>2. ASSUME NEW s, At("gui", s)
          PROVE  s \in {"storeApp", "storeState", "writeState", "done"}
      <3>1. <<s>> \in {<<"storeApp">>, <<"storeState">>, <<"writeState">>, <<"done">>}
        BY <1>1, <1>4, <1>6, <2>2
      <3>. QED
        BY <3>1, Names DEF StepNames
    <2>. QED
      BY <2>1, <2>2
  <1>. QED
    BY <1>5, <1>6

\* KindInv, for one value of the variables it is about.
LEMMA KindInvNow ==
    ASSUME job'["cli"].kind \in {"none", "create", "unlock", "save"},
           <<"prompt">> \in Range(plan'["cli"]) => Range(plan'["cli"]) \subseteq
               {<<"loadSeen">>, <<"storeState">>, <<"writeState">>, <<"prompt">>},
           NEW k, k = IF plan'["gui"] = <<>> THEN "idle" ELSE job'["gui"].kind,
           k = "rekeyStart" =>
               /\ Closes(plan'["gui"]) /\ Len(plan'["gui"]) > 10
               /\ plan'["gui"] # <<>> /\ Head(plan'["gui"]) = <<"moveAside">>
               /\ <<"openKey">> \in Range(plan'["gui"])
               /\ <<"moveAside">> \notin Range(Tail(plan'["gui"])),
           k = "rekey" => /\ Closes(plan'["gui"]) /\ Len(plan'["gui"]) > 4
                          /\ <<"moveAside">> \notin Range(plan'["gui"]),
           k = "rekeyed" => Closes(plan'["gui"]) /\ Len(plan'["gui"]) < 5,
           k = "restore" => plan'["gui"] \in {restoreBackup, Tail(restoreBackup), Done},
           k = "none" => Range(plan'["gui"]) \subseteq
               {<<"storeApp">>, <<"storeState">>, <<"writeState">>, <<"done">>},
           k \notin Changing => Range(plan'["gui"]) \cap Private = {},
           k \in Changing => job'["gui"].back \in Backup
    PROVE  KindInv' /\ Kind' = k
  <1>1. Kind' = k
    BY DEF Kind, Idle
  <1>2. (Closes(plan.gui))' = Closes(plan'["gui"])
    BY DEF Closes
  <1>3. (Left("gui"))' = Range(plan'["gui"]) /\ (Left("cli"))' = Range(plan'["cli"])
    BY DEF Left
  <1>4. Ahead' = Len(plan'["gui"])
    BY DEF Ahead
  <1>5. Kind' = "rekeyStart" =>
          /\ (Closes(plan.gui))' /\ Ahead' > 10 /\ At("gui", "moveAside")'
          /\ <<"openKey">> \in (Left("gui"))' /\ <<"moveAside">> \notin Range(Tail(plan'["gui"]))
    BY <1>1, <1>2, <1>3, <1>4 DEF At, Idle
  <1>6. /\ job'["cli"].kind \in {"none", "create", "unlock", "save"}
        /\ <<"prompt">> \in (Left("cli"))' => (Left("cli"))' \subseteq
               {<<"loadSeen">>, <<"storeState">>, <<"writeState">>, <<"prompt">>}
    BY <1>3
  <1>7. /\ Kind' = "rekey" => (Closes(plan.gui))' /\ Ahead' > 4 /\ <<"moveAside">> \notin (Left("gui"))'
        /\ Kind' = "rekeyed" => (Closes(plan.gui))' /\ Ahead' < 5
        /\ Kind' = "restore" => plan'["gui"] \in {restoreBackup, Tail(restoreBackup), Done}
        /\ Kind' = "none" => (Left("gui"))' \subseteq
               {<<"storeApp">>, <<"storeState">>, <<"writeState">>, <<"done">>}
    BY <1>1, <1>2, <1>3, <1>4
  <1>8. /\ Kind' \notin {"rekeyStart", "rekey", "rekeyed", "restore"} =>
                (Left("gui"))' \cap Private = {}
        /\ Kind' \in {"rekeyStart", "rekey", "rekeyed", "restore"} => job'["gui"].back \in Backup
    BY <1>1, <1>3 DEF Changing
  <1>9. KindInv'
    BY <1>5, <1>6, <1>7, <1>8 DEF KindInv
  <1>. QED
    BY <1>1, <1>9

\* KindInv, read.
LEMMA KindInvWas ==
    ASSUME KindInv
    PROVE  /\ job["cli"].kind \in {"none", "create", "unlock", "save"}
           /\ <<"prompt">> \in Range(plan["cli"]) => Range(plan["cli"]) \subseteq
               {<<"loadSeen">>, <<"storeState">>, <<"writeState">>, <<"prompt">>}
           /\ Kind = IF plan["gui"] = <<>> THEN "idle" ELSE job["gui"].kind
           /\ Kind = "rekeyStart" =>
               /\ Closes(plan["gui"]) /\ Len(plan["gui"]) > 10
               /\ plan["gui"] # <<>> /\ Head(plan["gui"]) = <<"moveAside">>
               /\ <<"openKey">> \in Range(plan["gui"])
               /\ <<"moveAside">> \notin Range(Tail(plan["gui"]))
           /\ Kind = "rekey" => /\ Closes(plan["gui"]) /\ Len(plan["gui"]) > 4
                                /\ <<"moveAside">> \notin Range(plan["gui"])
           /\ Kind = "rekeyed" => Closes(plan["gui"]) /\ Len(plan["gui"]) < 5
           /\ Kind = "restore" => plan["gui"] \in {restoreBackup, Tail(restoreBackup), Done}
           /\ Kind = "none" => Range(plan["gui"]) \subseteq
               {<<"storeApp">>, <<"storeState">>, <<"writeState">>, <<"done">>}
           /\ Kind \notin Changing => Range(plan["gui"]) \cap Private = {}
           /\ Kind \in Changing => job["gui"].back \in Backup
  <1>1. Kind = IF plan["gui"] = <<>> THEN "idle" ELSE job["gui"].kind
    BY DEF Kind, Idle
  <1>2. /\ job["cli"].kind \in {"none", "create", "unlock", "save"}
        /\ <<"prompt">> \in Range(plan["cli"]) => Range(plan["cli"]) \subseteq
               {<<"loadSeen">>, <<"storeState">>, <<"writeState">>, <<"prompt">>}
    BY DEF KindInv, Left
  <1>3. Kind = "rekeyStart" =>
               /\ Closes(plan["gui"]) /\ Len(plan["gui"]) > 10
               /\ plan["gui"] # <<>> /\ Head(plan["gui"]) = <<"moveAside">>
               /\ <<"openKey">> \in Range(plan["gui"])
               /\ <<"moveAside">> \notin Range(Tail(plan["gui"]))
    BY DEF KindInv, Left, Ahead, At, Idle
  <1>4. /\ Kind = "rekey" => /\ Closes(plan["gui"]) /\ Len(plan["gui"]) > 4
                             /\ <<"moveAside">> \notin Range(plan["gui"])
        /\ Kind = "rekeyed" => Closes(plan["gui"]) /\ Len(plan["gui"]) < 5
    BY DEF KindInv, Left, Ahead
  <1>5. /\ Kind = "restore" => plan["gui"] \in {restoreBackup, Tail(restoreBackup), Done}
        /\ Kind = "none" => Range(plan["gui"]) \subseteq
               {<<"storeApp">>, <<"storeState">>, <<"writeState">>, <<"done">>}
        /\ Kind \notin Changing => Range(plan["gui"]) \cap Private = {}
        /\ Kind \in Changing => job["gui"].back \in Backup
    BY DEF KindInv, Left, Changing
  <1>. QED
    BY <1>1, <1>2, <1>3, <1>4, <1>5

\* KindInv holds on when the command line alone goes on, stops or starts.
LEMMA KindOfCli ==
    ASSUME KindInv, plan'["gui"] = plan["gui"], job'["gui"] = job["gui"],
           job'["cli"].kind \in {"none", "create", "unlock", "save"},
           <<"prompt">> \in Range(plan'["cli"]) => Range(plan'["cli"]) \subseteq
               {<<"loadSeen">>, <<"storeState">>, <<"writeState">>, <<"prompt">>}
    PROVE  KindInv' /\ Kind' = Kind
  <1>. DEFINE k == Kind
  <1>1. k = IF plan'["gui"] = <<>> THEN "idle" ELSE job'["gui"].kind
    BY KindInvWas
  <1>2. k = "rekeyStart" =>
               /\ Closes(plan'["gui"]) /\ Len(plan'["gui"]) > 10
               /\ plan'["gui"] # <<>> /\ Head(plan'["gui"]) = <<"moveAside">>
               /\ <<"openKey">> \in Range(plan'["gui"])
               /\ <<"moveAside">> \notin Range(Tail(plan'["gui"]))
    BY KindInvWas
  <1>3. /\ k = "rekey" => /\ Closes(plan'["gui"]) /\ Len(plan'["gui"]) > 4
                          /\ <<"moveAside">> \notin Range(plan'["gui"])
        /\ k = "rekeyed" => Closes(plan'["gui"]) /\ Len(plan'["gui"]) < 5
    BY KindInvWas
  <1>4. /\ k = "restore" => plan'["gui"] \in {restoreBackup, Tail(restoreBackup), Done}
        /\ k = "none" => Range(plan'["gui"]) \subseteq
               {<<"storeApp">>, <<"storeState">>, <<"writeState">>, <<"done">>}
        /\ k \notin Changing => Range(plan'["gui"]) \cap Private = {}
        /\ k \in Changing => job'["gui"].back \in Backup
    BY KindInvWas
  <1>. HIDE DEF k
  <1>5. KindInv' /\ Kind' = k
    BY <1>1, <1>2, <1>3, <1>4, KindInvNow
  <1>. QED
    BY <1>5 DEF k

\* Where a step of the desktop application leads.
LEMMA KindOfStep ==
    ASSUME Plans, JobInv, KindInv, ~Idle("gui"), Advance("gui"), job'["cli"] = job["cli"],
           job'["gui"].back = job["gui"].back,
           ~At("gui", "moveAside"), ~At("gui", "dropOlder"), job'["gui"].kind = job["gui"].kind
    PROVE  KindInv' /\ Kind' \in {Kind, "idle"} /\ (Kind' = "idle" <=> Idle("gui")')
  <1>. DEFINE t == plan["gui"]
              u == plan'["gui"]
              k == IF u = <<>> THEN "idle" ELSE Kind
  <1>1. /\ "gui" \in Proc /\ "cli" \in Proc /\ t # <<>> /\ t \in Seq(StepSet)
        /\ u = Tail(t) /\ plan'["cli"] = plan["cli"]
        /\ Range(u) \subseteq Range(t) /\ Len(t) \in Nat /\ Len(u) = Len(t) - 1
    BY Advanced DEF Proc, Plans
  <1>2. Kind = job["gui"].kind
    BY KindInvWas, <1>1
  <1>3. k = IF u = <<>> THEN "idle" ELSE job'["gui"].kind
    BY <1>2
  <1>4. k # "rekeyStart" /\ (k # "idle" => k = Kind)
    BY ChangeHeads, KindInvWas DEF Changing, At, Idle
  <1>5. k = "rekey" => Closes(u) /\ Len(u) > 4 /\ <<"moveAside">> \notin Range(u)
    <2>1. SUFFICES ASSUME Kind = "rekey", k = Kind
                   PROVE  Closes(u) /\ Len(u) > 4 /\ <<"moveAside">> \notin Range(u)
      BY <1>4
    <2>2. Closes(t) /\ Len(t) > 4 /\ <<"moveAside">> \notin Range(t)
      BY <2>1, KindInvWas
    <2>3. Closes(u)
      BY <1>1, <2>2, TailCloses
    <2>4. Len(t) = 5 => Head(t) = <<"dropOlder">>
      BY <1>1, <2>2, ClosesFacts
    <2>5. Len(t) # 5
      BY <2>4, <1>1 DEF At, Idle
    <2>. QED
      <3>1. Len(t) \in Nat /\ Len(t) > 4 /\ Len(t) # 5
        BY <1>1, <2>2, <2>5
      <3>2. \A n \in Nat : n > 4 /\ n # 5 => (n - 1) > 4
        OBVIOUS
      <3>3. Len(u) > 4
        BY <1>1, <3>1, <3>2
      <3>4. <<"moveAside">> \notin Range(u)
        BY <1>1, <2>2
      <3>. QED
        BY <2>3, <3>3, <3>4
  <1>6. k = "rekeyed" => Closes(u) /\ Len(u) < 5
    <2>1. SUFFICES ASSUME Kind = "rekeyed" PROVE Closes(u) /\ Len(u) < 5
      BY <1>4
    <2>2. Closes(t) /\ Len(t) < 5
      BY <2>1, KindInvWas
    <2>3. Closes(u)
      BY <1>1, <2>2, TailCloses
    <2>. QED
      BY <1>1, <2>2, <2>3
  <1>7. k = "restore" => u \in {restoreBackup, Tail(restoreBackup), Done}
    <2>1. SUFFICES ASSUME Kind = "restore", u # <<>>
                   PROVE  u \in {restoreBackup, Tail(restoreBackup), Done}
      BY <1>4
    <2>2. t \in {restoreBackup, Tail(restoreBackup), Done}
      BY <2>1, KindInvWas
    <2>3. Tail(Tail(restoreBackup)) = Done /\ Tail(Done) = <<>>
      BY DEF restoreBackup, Done
    <2>. QED
      BY <1>1, <2>1, <2>2, <2>3
  <1>8. /\ k = "none" => Range(u) \subseteq
               {<<"storeApp">>, <<"storeState">>, <<"writeState">>, <<"done">>}
        /\ k \in Changing => job'["gui"].back \in Backup
    BY <1>1, <1>4, KindInvWas DEF Changing
  <1>9. k \notin Changing => Range(u) \cap Private = {}
    <2>1. CASE u = <<>>
      BY <2>1, Pieces
    <2>2. CASE u # <<>>
      BY <2>2, <1>1, KindInvWas
    <2>. QED
      BY <2>1, <2>2
  <1>10. /\ job'["cli"].kind \in {"none", "create", "unlock", "save"}
         /\ <<"prompt">> \in Range(plan'["cli"]) => Range(plan'["cli"]) \subseteq
               {<<"loadSeen">>, <<"storeState">>, <<"writeState">>, <<"prompt">>}
    BY <1>1, KindInvWas
  <1>11. Kind # "idle"
    BY <1>1, <1>2 DEF JobInv, Kinds
  <1>. HIDE DEF k
  <1>12. KindInv' /\ Kind' = k
    BY <1>3, <1>4, <1>5, <1>6, <1>7, <1>8, <1>9, <1>10, KindInvNow
  <1>. QED
    BY <1>12, <1>11 DEF k, Idle

\* A process is given a new plan.
LEMMA NewPlan ==
    ASSUME Plans, NEW p \in Proc, NEW t, Block(t), plan' = [plan EXCEPT ![p] = t]
    PROVE  /\ Plans' /\ plan'[p] = t /\ t \in Seq(StepSet)
           /\ \A q \in Proc : q # p => plan'[q] = plan[q]
           /\ ~Writing(p)'
  <1>1. /\ t \in Seq(StepSet) /\ WellFormed(t)
        /\ t # <<>> => /\ t[1] # <<"writeKey">> /\ t[1] # <<"writeVault">>
                       /\ \A i \in Items : t[1] # <<"writeItem", i>>
    BY DEF Block
  <1>2. plan'[p] = t /\ \A q \in Proc : q # p => plan'[q] = plan[q]
    BY DEF Plans
  <1>3. plan' \in [Proc -> Seq(StepSet)]
    BY <1>1 DEF Plans
  <1>4. \A q \in Proc : WellFormed(plan'[q])
    BY <1>1, <1>2 DEF Plans
  <1>5. (\A q \in Proc : WellFormed(plan[q]))'
    BY <1>4 DEF WellFormed
  <1>6. Plans'
    BY <1>3, <1>5 DEF Plans
  <1>7. t # <<>> => Head(t) = t[1]
    BY <1>1, TailSteps
  <1>8. ~Writing(p)'
    BY <1>1, <1>2, <1>7 DEF Writing, At, AtItem, Idle
  <1>. QED
    BY <1>1, <1>2, <1>6, <1>8

\* An operation of p ends before its time.
Stopped(p, t, k) ==
    /\ plan' = [plan EXCEPT ![p] = t]
    /\ job' = [job EXCEPT ![p].kind = k] /\ k \in Kinds
    /\ p = "cli" => k \in {"none", job["cli"].kind}
    /\ \/ t = <<>>
       \/ p = "gui" /\ Kind = "rekey" /\ t = restoreBackup /\ k = "restore"
       \/ /\ p = "gui" /\ k = "none"
          /\ t \in {StoreAppState \o Done, << <<"storeState">>, <<"writeState">> >> \o Done}

LEMMA StoppedPlan ==
    ASSUME NEW p \in Proc, NEW t, NEW k, Stopped(p, t, k)
    PROVE  /\ Block(t)
           /\ Range(t) \subseteq {<<"clearActive">>, <<"moveBack">>, <<"storeApp">>,
                                  <<"storeState">>, <<"writeState">>, <<"done">>}
           /\ k = "none" => Range(t) \subseteq {<<"storeApp">>, <<"storeState">>,
                                                <<"writeState">>, <<"done">>}
  <1>1. CASE t = <<>>
    BY <1>1, Pieces
  <1>2. CASE p = "gui" /\ Kind = "rekey" /\ t = restoreBackup /\ k = "restore"
    BY <1>2, Pieces
  <1>3. CASE t \in {StoreAppState \o Done, << <<"storeState">>, <<"writeState">> >> \o Done}
    BY <1>3, ShortPlans DEF StateSteps
  <1>. QED
    BY <1>1, <1>2, <1>3 DEF Stopped

LEMMA StoppedFacts ==
    ASSUME Plans, JobInv, KindInv, NEW p \in Proc, NEW t, NEW k, Stopped(p, t, k)
    PROVE  /\ Plans' /\ JobInv' /\ KindInv' /\ plan'[p] = t
           /\ \A q \in Proc : q # p => plan'[q] = plan[q] /\ Touching(q)' = Touching(q)
           /\ ~Writing(p)' /\ Touching(p)' = {}
           /\ \A s \in {"openKey", "writeKey", "prompt"} : <<s>> \notin Range(plan'[p])
           /\ p = "cli" => Kind' = Kind
           /\ p = "gui" => \/ Kind' = "idle"
                           \/ Kind' = "none"
                           \/ Kind = "rekey" /\ Kind' = "restore" /\ At("gui", "clearActive")'
  <1>1. /\ Block(t)
        /\ Range(t) \subseteq {<<"clearActive">>, <<"moveBack">>, <<"storeApp">>,
                               <<"storeState">>, <<"writeState">>, <<"done">>}
        /\ k = "none" => Range(t) \subseteq {<<"storeApp">>, <<"storeState">>,
                                             <<"writeState">>, <<"done">>}
    BY StoppedPlan
  <1>2. /\ Plans' /\ plan'[p] = t /\ ~Writing(p)'
        /\ \A q \in Proc : q # p => plan'[q] = plan[q]
    BY <1>1, NewPlan DEF Stopped
  <1>3. \A q \in Proc : q # p => plan'[q] = plan[q] /\ Touching(q)' = Touching(q)
    BY <1>2 DEF Touching
  <1>4. \A s \in ItemStep, i \in Items : <<s, i>> \notin Range(t)
    BY <1>1, Names DEF StepNames
  <1>5. Touching(p)' = {}
    BY <1>2, <1>4 DEF Touching
  <1>6. \A s \in {"openKey", "writeKey", "prompt"} : <<s>> \notin Range(plan'[p])
    BY <1>1, <1>2, Names DEF StepNames
  <1>7. /\ JobInv' /\ job'[p].kind = k /\ job'[p].back = job[p].back
        /\ \A q \in Proc : q # p => job'[q] = job[q]
    BY DEF Stopped, JobInv
  <1>8. CASE p = "cli"
    <2>1. job'["cli"].kind \in {"none", "create", "unlock", "save"}
      BY <1>7, <1>8, KindInvWas DEF Stopped
    <2>2. plan'["gui"] = plan["gui"] /\ job'["gui"] = job["gui"]
      BY <1>2, <1>7, <1>8 DEF Proc
    <2>3. KindInv' /\ Kind' = Kind
      BY <1>6, <1>8, <2>1, <2>2, KindOfCli
    <2>. QED
      BY <1>2, <1>3, <1>5, <1>6, <1>7, <1>8, <2>3
  <1>9. CASE p = "gui"
    <2>. DEFINE m == IF t = <<>> THEN "idle" ELSE k
    <2>1. m = IF plan'["gui"] = <<>> THEN "idle" ELSE job'["gui"].kind
      BY <1>2, <1>7, <1>9
    <2>2. \/ m = "idle" /\ t = <<>>
          \/ m = "none" /\ k = "none"
          \/ m = "restore" /\ t = restoreBackup /\ Kind = "rekey"
      BY <1>9 DEF Stopped
    <2>3. plan'["cli"] = plan["cli"] /\ job'["cli"] = job["cli"]
      BY <1>2, <1>7, <1>9 DEF Proc
    <2>4. /\ job'["cli"].kind \in {"none", "create", "unlock", "save"}
          /\ <<"prompt">> \in Range(plan'["cli"]) => Range(plan'["cli"]) \subseteq
               {<<"loadSeen">>, <<"storeState">>, <<"writeState">>, <<"prompt">>}
      BY <2>3, KindInvWas
    <2>5. m \notin {"rekeyStart", "rekey", "rekeyed"}
      BY <2>2
    <2>6. m = "restore" => plan'["gui"] \in {restoreBackup, Tail(restoreBackup), Done}
      BY <1>2, <1>9, <2>2
    <2>7. m = "none" => Range(plan'["gui"]) \subseteq
               {<<"storeApp">>, <<"storeState">>, <<"writeState">>, <<"done">>}
      BY <1>1, <1>2, <1>9, <2>2
    <2>8. m \notin Changing => Range(plan'["gui"]) \cap Private = {}
      <3>1. SUFFICES ASSUME m \notin Changing PROVE Range(t) \cap Private = {}
        BY <1>2, <1>9
      <3>2. Range(t) \subseteq {<<"storeApp">>, <<"storeState">>, <<"writeState">>, <<"done">>}
        BY <1>1, <2>2, <3>1, Pieces DEF Changing
      <3>. QED
        BY <3>2, Names DEF StepNames, Private
    <2>9. m \in Changing => job'["gui"].back \in Backup
      BY <1>7, <1>9, <2>2, KindInvWas DEF Changing
    <2>. HIDE DEF m
    <2>10. KindInv' /\ Kind' = m
      BY <2>1, <2>4, <2>5, <2>6, <2>7, <2>8, <2>9, KindInvNow
    <2>11. m = "restore" => At("gui", "clearActive")'
      BY <1>2, <1>9, <2>2 DEF At, Idle, restoreBackup
    <2>. QED
      BY <1>2, <1>3, <1>5, <1>6, <1>7, <1>9, <2>2, <2>10, <2>11
  <1>. QED
    BY <1>8, <1>9 DEF Proc

\* An operation of p begins that is no password change.
Begun(p, t) ==
    /\ plan' = [plan EXCEPT ![p] = t] /\ Block(t)
    /\ \A q \in Proc : q # p => job'[q] = job[q]
    /\ p = "gui" => /\ job'["gui"].kind \in {"create", "unlock", "save", "drop"}
                    /\ Range(t) \cap Private = {} /\ t # <<>>
    /\ p = "cli" => /\ job'["cli"].kind \in {"create", "unlock", "save"}
                    /\ <<"prompt">> \in Range(t) => Range(t) \subseteq
                         {<<"loadSeen">>, <<"storeState">>, <<"writeState">>, <<"prompt">>}

LEMMA BegunFacts ==
    ASSUME Plans, KindInv, NEW p \in Proc, NEW t, Begun(p, t)
    PROVE  /\ Plans' /\ KindInv' /\ plan'[p] = t
           /\ \A q \in Proc : q # p => plan'[q] = plan[q] /\ Touching(q)' = Touching(q)
           /\ ~Writing(p)'
           /\ p = "cli" => Kind' = Kind
           /\ p = "gui" => Kind' \in {"create", "unlock", "save", "drop"}
  <1>1. /\ Plans' /\ plan'[p] = t /\ ~Writing(p)'
        /\ \A q \in Proc : q # p => plan'[q] = plan[q]
    BY NewPlan DEF Begun
  <1>2. \A q \in Proc : q # p => plan'[q] = plan[q] /\ Touching(q)' = Touching(q)
    BY <1>1 DEF Touching
  <1>3. CASE p = "cli"
    <2>1. plan'["gui"] = plan["gui"] /\ job'["gui"] = job["gui"]
      BY <1>1, <1>3 DEF Proc, Begun
    <2>2. /\ job'["cli"].kind \in {"none", "create", "unlock", "save"}
          /\ <<"prompt">> \in Range(plan'["cli"]) => Range(plan'["cli"]) \subseteq
               {<<"loadSeen">>, <<"storeState">>, <<"writeState">>, <<"prompt">>}
      BY <1>1, <1>3 DEF Begun
    <2>3. KindInv' /\ Kind' = Kind
      BY <2>1, <2>2, KindOfCli
    <2>. QED
      BY <1>1, <1>2, <1>3, <2>3
  <1>4. CASE p = "gui"
    <2>1. plan'["cli"] = plan["cli"] /\ job'["cli"] = job["cli"]
      BY <1>1, <1>4 DEF Proc, Begun
    <2>2. /\ job'["cli"].kind \in {"none", "create", "unlock", "save"}
          /\ <<"prompt">> \in Range(plan'["cli"]) => Range(plan'["cli"]) \subseteq
               {<<"loadSeen">>, <<"storeState">>, <<"writeState">>, <<"prompt">>}
      BY <2>1, KindInvWas
    <2>. DEFINE m == job'["gui"].kind
    <2>3. m \in {"create", "unlock", "save", "drop"} /\ plan'["gui"] # <<>>
      BY <1>1, <1>4 DEF Begun
    <2>4. Range(plan'["gui"]) \cap Private = {}
      BY <1>1, <1>4 DEF Begun
    <2>5. m = IF plan'["gui"] = <<>> THEN "idle" ELSE job'["gui"].kind
      BY <2>3
    <2>6. m \notin Changing \cup {"none"}
      BY <2>3 DEF Changing
    <2>. HIDE DEF m
    <2>7. m \notin {"rekeyStart", "rekey", "rekeyed", "restore", "none"} /\ m \notin Changing
      BY <2>6 DEF Changing
    <2>8. KindInv' /\ Kind' = m
      BY <2>2, <2>4, <2>5, <2>7, KindInvNow
    <2>. QED
      BY <1>1, <1>2, <1>4, <2>3, <2>8
  <1>. QED
    BY <1>3, <1>4 DEF Proc

DirSet == [there : BOOLEAN, key : File, item : [Items -> File],
           vault : [k : File, items : SUBSET Items, mod : Nat]]
DirT == dir \in [{0} \cup Backup -> DirSet]
AtT == at \in [Proc -> {-1, 0} \cup Backup]

\* The vault the window has made or opened has a key, once the key is written.
MadeInv ==
    Kind \in {"create", "unlock"} =>
        <<"writeKey">> \in Left("gui") \/ work.gui.key \in Key

\* The file of an item is left alone.
LEMMA ProgressKept ==
    ASSUME Plans, NEW p \in Proc, NEW i \in Items, Progress(p, i),
           \/ plan'[p] = plan[p] /\ at'[p] = at[p]
           \/ /\ ~Idle(p) /\ Advance(p)
              /\ ~AtItem(p, "openItem", i) /\ ~AtItem(p, "writeItem", i),
           dir'[0].item[i] = dir[0].item[i], work'[p].key = work[p].key
    PROVE  Progress(p, i)'
  <1>1. CASE plan'[p] = plan[p] /\ at'[p] = at[p]
    BY <1>1 DEF Progress, AtItem, Idle, Left
  <1>2. CASE /\ ~Idle(p) /\ Advance(p)
             /\ ~AtItem(p, "openItem", i) /\ ~AtItem(p, "writeItem", i)
    <2>1. ~AtItem(p, "writeItem", i)'
      BY <1>2, NextStep
    <2>2. <<"openItem", i>> \in Left(p) \/ (work[p].key \in Key /\ dir[0].item[i] = work[p].key)
      BY <1>2 DEF Progress
    <2>3. <<"openItem", i>> \in Range(plan[p]) => <<"openItem", i>> \in Range(plan'[p])
      <3>1. Head(plan[p]) # <<"openItem", i>>
        BY <1>2 DEF AtItem
      <3>. QED
        BY <1>2, <3>1, Advanced
    <2>4. (<<"openItem", i>> \in Left(p))' \/ (work'[p].key \in Key /\ dir'[0].item[i] = work'[p].key)
      BY <2>2, <2>3 DEF Left
    <2>. QED
      BY <2>1, <2>4 DEF Progress
  <1>. QED
    BY <1>1, <1>2

LEMMA ProgressOpened ==
    ASSUME Plans, NEW p \in Proc, NEW i \in Items, AtItem(p, "openItem", i), Advance(p),
           at'[p] = 0, dir'[0].item[i] = Torn
    PROVE  Progress(p, i)'
  <1>1. ~Idle(p)
    BY DEF AtItem
  <1>2. AtItem(p, "writeItem", i)'
    BY <1>1, NextStep
  <1>. QED
    BY <1>2 DEF Progress

LEMMA ProgressWritten ==
    ASSUME Plans, NEW p \in Proc, NEW i \in Items, AtItem(p, "writeItem", i), Advance(p),
           work'[p].key \in Key, dir'[0].item[i] = work'[p].key
    PROVE  Progress(p, i)'
  <1>1. ~Idle(p) /\ ~AtItem(p, "openItem", i)
    BY OneStep DEF AtItem
  <1>2. ~AtItem(p, "writeItem", i)'
    BY <1>1, NextStep
  <1>. QED
    BY <1>2 DEF Progress

\* The key files are left alone.
LEMMA KeyFrame ==
    ASSUME KeyInv, DirT, AtT, DirT', AtT',
           \A n \in {0} \cup Backup : dir'[n].key = dir[n].key /\ (dir[n].there => dir'[n].there),
           \A q \in Proc : \/ plan'[q] = plan[q] /\ at'[q] = at[q]
                           \/ ~At(q, "writeKey")' /\ (Writing(q)' => at'[q] = 0)
    PROVE  KeyInv'
  <1>1. DOMAIN dir = {0} \cup Backup /\ DOMAIN dir' = {0} \cup Backup
    BY DEF DirT
  <1>2. \A n \in DOMAIN dir' : dir'[n].key # None => dir'[n].there
    BY <1>1 DEF KeyInv
  <1>3. \A q \in Proc : plan'[q] = plan[q] =>
            /\ At(q, "writeKey")' = At(q, "writeKey") /\ Writing(q)' = Writing(q)
    BY DEF At, AtItem, Idle, Writing
  <1>4. ASSUME NEW q \in Proc, At(q, "writeKey")', at'[q] >= 0 PROVE dir'[at'[q]].key = Torn
    <2>1. at'[q] = at[q] /\ At(q, "writeKey")
      BY <1>3, <1>4
    <2>2. dir[at[q]].key = Torn
      BY <1>4, <2>1 DEF KeyInv
    <2>3. at[q] \in {0} \cup Backup
      BY <1>4, <2>1 DEF AtT, Backup
    <2>. QED
      BY <2>1, <2>2, <2>3
  <1>5. ASSUME At("gui", "writeKey")', At("cli", "writeKey")' PROVE at'["cli"] # 0
    BY <1>3, <1>5 DEF KeyInv, Proc
  <1>6. ASSUME Writing("gui")' PROVE at'["gui"] = 0
    <2>1. Writing("gui") => at["gui"] = 0
      BY DEF KeyInv, Writing
    <2>. QED
      BY <1>3, <1>6, <2>1 DEF Proc
  <1>7. At("gui", "writeKey")' \/ At("gui", "writeVault")' \/ (\E i \in Items : AtItem("gui", "writeItem", i))'
            => at'["gui"] = 0
    BY <1>6 DEF Writing
  <1>. QED
    BY <1>2, <1>4, <1>5, <1>7 DEF KeyInv

LEMMA TouchFrame ==
    ASSUME TouchInv, acked' = acked,
           \A q \in Proc : gain'[q] \subseteq gain[q] /\ Touching(q)' \subseteq Touching(q),
           Touching("gui")' = {} \/ Kind' = Kind \/ Kind' = "rekey"
    PROVE  TouchInv'
  <1>1. \A q \in Proc : Other(q) \in Proc
    BY DEF Other, Proc
  <1>2. \A q \in Proc : \A i \in Touching(q)' : i \notin gain'[Other(q)]
    BY <1>1 DEF TouchInv
  <1>3. \A i \in Touching("cli")' : i \notin acked'
    BY DEF TouchInv, Proc
  <1>4. \A i \in Touching("gui")' : i \in acked' => Kind' \in {"rekeyStart", "rekey"}
    BY DEF TouchInv, Proc
  <1>. QED
    BY <1>2, <1>3, <1>4 DEF TouchInv

\* A password change leaves nothing to report.
LEMMA Quiet ==
    ASSUME GainInv, StoreTypeOK, Kind \in Changing, JobInv
    PROVE  gain["gui"] = {} /\ gain["cli"] = {} /\ clean = FALSE
  <1>1. Rekeying
    BY DEF Rekeying, Kind, Changing
  <1>. QED
    BY <1>1 DEF GainInv, StoreTypeOK

LEMMA QuietFrame ==
    ASSUME gain'["gui"] = {}, gain'["cli"] = {}, clean' = FALSE
    PROVE  GainInv'
  BY DEF GainInv, Proc

LEMMA GainFrame ==
    ASSUME GainInv, clean' = clean, Kind' \in Changing => Kind \in Changing,
           \A q \in Proc : /\ gain'[q] \subseteq gain[q]
                           /\ Range(plan'[q]) \subseteq Range(plan[q])
                           /\ gain'[q] # {} => work'[q].key = work[q].key
                           /\ \A i \in gain'[q] : Progress(q, i)',
           <<"prompt">> \in Range(plan'["cli"]) => work'["cli"].key = work["cli"].key,
           dir[0].key \in Key => dir'[0].key = dir[0].key
    PROVE  GainInv'
  <1>1. (Kind \in Changing <=> Rekeying) /\ (Kind' \in Changing <=> Rekeying')
    BY DEF Kind, Rekeying, Changing
  <1>2. clean' => ~Rekeying'
    BY <1>1 DEF GainInv
  <1>3. Rekeying' => gain'["gui"] = {}
    BY <1>1 DEF GainInv, Proc
  <1>4. gain'["cli"] # {} => clean'
    BY DEF GainInv, Proc
  <1>5. clean' /\ (<<"prompt">> \in Left("cli"))' =>
            dir'[0].key \in Key /\ work'["cli"].key = dir'[0].key
    BY DEF GainInv, Left, Proc
  <1>6. ASSUME NEW q \in Proc, NEW i \in gain'[q]
        PROVE  /\ dir'[0].key \in Key /\ work'[q].key = dir'[0].key
               /\ Progress(q, i)'
               /\ {<<"removeItem", i>>, <<"forget", i>>, <<"openKey">>, <<"writeKey">>}
                        \cap Left(q)' = {}
    <2>1. i \in gain[q] /\ work'[q].key = work[q].key /\ Progress(q, i)'
      BY <1>6
    <2>2. /\ dir[0].key \in Key /\ work[q].key = dir[0].key
          /\ {<<"removeItem", i>>, <<"forget", i>>, <<"openKey">>, <<"writeKey">>}
                        \cap Left(q) = {}
      BY <2>1 DEF GainInv
    <2>. QED
      BY <2>1, <2>2 DEF Left
  <1>. QED
    BY <1>2, <1>3, <1>4, <1>5, <1>6 DEF GainInv

LEMMA RebuildFrame ==
    ASSUME Plans, KindInv, RebuildInv, work'["gui"].key = work["gui"].key,
           Kind' = "rekeyStart" => Kind = "rekeyStart",
           Rebuilding' => Rebuilding,
           \/ plan'["gui"] = plan["gui"]
           \/ /\ ~Idle("gui") /\ Advance("gui")
              /\ ~At("gui", "openKey") /\ ~At("gui", "writeKey"),
           \/ dir'[0].key = dir[0].key
           \/ dir[0].key = None
           \/ dir[0].key = Torn /\ ~At("gui", "writeKey")
    PROVE  RebuildInv'
  <1>0. None \notin Key /\ Torn \notin Key /\ None # Torn
    BY DEF Key, None, Torn
  <1>1. Kind' = "rekeyStart" => work'["gui"].key = None
    BY DEF RebuildInv
  <1>2. SUFFICES ASSUME Rebuilding'
                 PROVE  IF (<<"openKey">> \in Left("gui"))' THEN work'["gui"].key = None
                        ELSE IF At("gui", "writeKey")' THEN work'["gui"].key = None /\ dir'[0].key = Torn
                        ELSE dir'[0].key \in Key /\ work'["gui"].key = dir'[0].key
    BY <1>1 DEF RebuildInv
  <1>3. IF <<"openKey">> \in Left("gui") THEN work["gui"].key = None
        ELSE IF At("gui", "writeKey") THEN work["gui"].key = None /\ dir[0].key = Torn
        ELSE dir[0].key \in Key /\ work["gui"].key = dir[0].key
    BY <1>2 DEF RebuildInv
  <1>4. CASE plan'["gui"] = plan["gui"]
    <2>1. (<<"openKey">> \in Left("gui"))' <=> <<"openKey">> \in Left("gui")
      BY <1>4 DEF Left
    <2>2. At("gui", "writeKey")' <=> At("gui", "writeKey")
      BY <1>4 DEF At, Idle
    <2>. QED
      BY <1>0, <1>3, <2>1, <2>2
  <1>5. CASE /\ ~Idle("gui") /\ Advance("gui")
             /\ ~At("gui", "openKey") /\ ~At("gui", "writeKey")
    <2>0. "gui" \in Proc
      BY DEF Proc
    <2>1. ~At("gui", "writeKey")'
      BY <1>5, <2>0, NextStep
    <2>2. Kind \in {"rekey", "rekeyed"}
      BY <1>2 DEF Rebuilding
    <2>3. ~At("gui", "moveAside")
      BY <2>2, ChangeHeads DEF Changing
    <2>4. <<"openKey">> \notin Range(plan["gui"])
      BY <1>5, <2>0, <2>3, NextStep
    <2>5. <<"openKey">> \notin Range(plan'["gui"])
      BY <1>5, <2>0, <2>4, Advanced
    <2>6. dir[0].key \in Key /\ work["gui"].key = dir[0].key
      BY <1>3, <1>5, <2>4 DEF Left
    <2>7. dir'[0].key = dir[0].key
      BY <1>0, <2>6
    <2>. QED
      BY <2>1, <2>5, <2>6, <2>7 DEF Left
  <1>. QED
    BY <1>4, <1>5

LEMMA AckedFrame ==
    ASSUME AckedInv, DirT, DirT', acked' = acked,
           \A i \in acked : /\ \A n \in Backup : ReadableIn(n, i) => ReadableIn(n, i)'
                            /\ ReadableIn(0, i) => ReadableIn(0, i)' \/ Kind = "rekey"
                            /\ Kind' = "rekeyStart" =>
                                   Kind = "rekeyStart" /\ plan'["gui"] = plan["gui"]
                            /\ Rebuilding' => Progress("gui", i)',
           Kind' = "rekey" => Kind = "rekey",
           Kind' = "restore" /\ At("gui", "clearActive")' =>
               Kind = "rekey" \/ (Kind = "restore" /\ At("gui", "clearActive"))
    PROVE  AckedInv'
  <1>1. DOMAIN dir = {0} \cup Backup /\ DOMAIN dir' = {0} \cup Backup
    BY DEF DirT
  <1>2. SUFFICES ASSUME NEW i \in acked
                 PROVE  /\ \E n \in DOMAIN dir' : ReadableIn(n, i)'
                        /\ Kind' = "rekeyStart" => (<<"openItem", i>> \in Left("gui"))'
                        /\ Rebuilding' => Progress("gui", i)'
                        /\ Kind' = "rekey" => Kept(i)'
                        /\ Kind' = "restore" /\ At("gui", "clearActive")' => Kept(i)'
    BY DEF AckedInv
  <1>3. Kept(i) => Kept(i)'
    BY DEF Kept
  <1>4. /\ \E n \in DOMAIN dir : ReadableIn(n, i)
        /\ Kind = "rekeyStart" => <<"openItem", i>> \in Left("gui")
        /\ Kind = "rekey" => Kept(i)
        /\ Kind = "restore" /\ At("gui", "clearActive") => Kept(i)
    BY DEF AckedInv
  <1>5. \E n \in DOMAIN dir' : ReadableIn(n, i)'
    <2>1. CASE Kind = "rekey"
      <3>1. Kept(i)'
        BY <1>3, <1>4, <2>1
      <3>. QED
        BY <1>1, <3>1 DEF Kept
    <2>2. CASE Kind # "rekey"
      BY <1>1, <1>4, <2>2
    <2>. QED
      BY <2>1, <2>2
  <1>6. Kind' = "rekeyStart" => (<<"openItem", i>> \in Left("gui"))'
    BY <1>4 DEF Left
  <1>7. /\ Kind' = "rekey" => Kept(i)'
        /\ Kind' = "restore" /\ At("gui", "clearActive")' => Kept(i)'
    BY <1>3, <1>4
  <1>. QED
    BY <1>5, <1>6, <1>7

Core == StoreTypeOK /\ JobInv /\ Plans /\ KindInv
FilesInv == KeyInv /\ MadeInv /\ TouchInv /\ GainInv /\ RebuildInv /\ AckedInv

LEMMA MadeFrame ==
    ASSUME MadeInv, work'["gui"].key = work["gui"].key,
           Kind' \in {"create", "unlock"} => Kind' = Kind,
           <<"writeKey">> \in Range(plan["gui"]) => <<"writeKey">> \in Range(plan'["gui"])
    PROVE  MadeInv'
  BY DEF MadeInv, Left

LEMMA CoreTypes ==
    ASSUME StoreTypeOK
    PROVE  /\ DirT /\ AtT /\ work \in [Proc -> Vault] /\ gain \in [Proc -> SUBSET Items]
           /\ acked \subseteq Items /\ \A q \in Proc : gain[q] \subseteq Items
           /\ DOMAIN dir = {0} \cup Backup
           /\ \A n \in {0} \cup Backup : dir[n] \in DirSet
  BY DEF StoreTypeOK, DirT, AtT, DirSet

LEMMA RestoreStep ==
    ASSUME KindInv, ~Idle("gui"), plan'["gui"] = Tail(plan["gui"]), Kind = "restore"
    PROVE  ~At("gui", "clearActive")'
  <1>1. plan["gui"] \in {restoreBackup, Tail(restoreBackup), Done}
    BY KindInvWas
  <1>2. /\ Tail(restoreBackup) = << <<"moveBack">>, <<"done">> >>
        /\ Tail(Tail(restoreBackup)) = << <<"done">> >>
        /\ Tail(Done) = <<>>
    BY DEF restoreBackup, Done
  <1>4. /\ Head(<< <<"moveBack">>, <<"done">> >>) = <<"moveBack">>
        /\ Head(<< <<"done">> >>) = <<"done">>
    OBVIOUS
  <1>3. plan'["gui"] # <<>> => Head(plan'["gui"]) \in {<<"moveBack">>, <<"done">>}
    BY <1>1, <1>2, <1>4
  <1>. QED
    BY <1>3, Names DEF At, Idle, StepNames

\* A step that leaves the vault's files alone, and the same plan behind it.
Silent(p) ==
    /\ ~Idle(p) /\ Advance(p)
    /\ dir' = dir /\ at' = at /\ acked' = acked /\ gain' = gain /\ clean' = clean
    /\ \A q \in Proc : work'[q].key = work[q].key
    /\ \A s \in {"openKey", "writeKey", "openVault", "writeVault"} : ~At(p, s)
    /\ \A i \in Items : ~AtItem(p, "openItem", i) /\ ~AtItem(p, "writeItem", i)
    /\ p = "gui" => ~At(p, "moveAside")
    /\ IF p = "cli" THEN Kind' = Kind
       ELSE Kind' \in {Kind, "idle"} \/ (Kind = "rekey" /\ Kind' = "rekeyed")

LEMMA SilentFacts ==
    ASSUME Core, NEW p \in Proc, Silent(p)
    PROVE  /\ ~Writing(p)'
           /\ \A q \in Proc : /\ Range(plan'[q]) \subseteq Range(plan[q])
                              /\ q # p => plan'[q] = plan[q]
                              /\ Touching(q)' \subseteq Touching(q)
           /\ <<"writeKey">> \in Range(plan["gui"]) => <<"writeKey">> \in Range(plan'["gui"])
           /\ Rebuilding' => Rebuilding
           /\ Kind' = "rekeyStart" => Kind = "rekeyStart" /\ p = "cli"
           /\ Kind' \in Changing => Kind \in Changing
  <1>1. /\ \A q \in Proc : q # p => plan'[q] = plan[q]
        /\ Range(plan'[p]) \subseteq Range(plan[p])
        /\ \A x \in Range(plan[p]) : x # Head(plan[p]) => x \in Range(plan'[p])
        /\ Len(plan[p]) \in Nat /\ Len(plan'[p]) = Len(plan[p]) - 1
    BY Advanced DEF Core, Silent
  <1>2. ~Writing(p)'
    BY NextStep DEF Core, Silent, Writing
  <1>3. \A q \in Proc : Range(plan'[q]) \subseteq Range(plan[q])
    BY <1>1
  <1>4. \A q \in Proc : Touching(q)' \subseteq Touching(q)
    BY <1>3 DEF Touching
  <1>5. <<"writeKey">> \in Range(plan["gui"]) => <<"writeKey">> \in Range(plan'["gui"])
    <2>1. p = "gui" => Head(plan["gui"]) # <<"writeKey">>
      BY DEF Silent, At
    <2>. QED
      BY <1>1, <2>1 DEF Proc
  <1>6. Kind' = "rekeyStart" => Kind = "rekeyStart" /\ p = "cli"
    <2>1. Kind = "rekeyStart" => At("gui", "moveAside")
      BY DEF Core, KindInv
    <2>. QED
      BY <2>1 DEF Silent, Proc
  <1>7. Kind' \in Changing => Kind \in Changing
    BY DEF Silent, Changing
  <1>8. Rebuilding' => Rebuilding
    <2>1. Kind' \in {"rekey", "rekeyed"} => Kind \in {"rekey", "rekeyed"}
      BY DEF Silent
    <2>2. ASSUME NEW n \in Nat, NEW m, m = n - 1, m > 3 PROVE n > 3
      BY <2>2
    <2>3. Ahead' > 3 => Ahead > 3
      BY <1>1, <2>2 DEF Ahead, Proc
    <2>. QED
      BY <2>1, <2>3 DEF Rebuilding
  <1>. QED
    BY <1>1, <1>2, <1>3, <1>4, <1>5, <1>6, <1>7, <1>8

\* Once the new vault is stored no item is written any more.
LEMMA RekeyedTouches ==
    ASSUME Plans', KindInv', Kind' = "rekeyed"
    PROVE  Touching("gui")' = {}
  <1>1. plan'["gui"] \in Seq(StepSet) /\ Closes(plan'["gui"]) /\ Len(plan'["gui"]) < 5
    BY DEF Plans, KindInv, Ahead, Proc, Closes
  <1>2. Len(plan'["gui"]) <= 10
    BY <1>1, LenProperties
  <1>3. \A s, i : <<s, i>> \notin Range(plan'["gui"])
    BY <1>1, <1>2, ClosesRange, Names DEF StepNames
  <1>. QED
    BY <1>3 DEF Touching

LEMMA SilentFiles ==
    ASSUME Core, FilesInv, NEW p \in Proc, Silent(p), Plans', KindInv',
           Kind' = "idle" => Idle("gui")'
    PROVE  FilesInv'
  <1>1. /\ ~Writing(p)'
        /\ \A q \in Proc : /\ Range(plan'[q]) \subseteq Range(plan[q])
                           /\ q # p => plan'[q] = plan[q]
                           /\ Touching(q)' \subseteq Touching(q)
        /\ <<"writeKey">> \in Range(plan["gui"]) => <<"writeKey">> \in Range(plan'["gui"])
        /\ Rebuilding' => Rebuilding
        /\ Kind' = "rekeyStart" => Kind = "rekeyStart" /\ p = "cli"
        /\ Kind' \in Changing => Kind \in Changing
    BY SilentFacts
  <1>2. /\ DirT /\ AtT /\ DirT' /\ AtT' /\ acked \subseteq Items
        /\ \A q \in Proc : gain[q] \subseteq Items
    BY CoreTypes DEF Core, Silent, DirT, AtT
  <1>3. /\ dir' = dir /\ at' = at /\ acked' = acked /\ gain' = gain /\ clean' = clean
        /\ \A q \in Proc : work'[q].key = work[q].key
        /\ "gui" \in Proc /\ "cli" \in Proc
    BY DEF Silent, Proc
  <1>4. ASSUME NEW q \in Proc, NEW i \in Items, Progress(q, i) PROVE Progress(q, i)'
    <2>1. \/ plan'[q] = plan[q] /\ at'[q] = at[q]
          \/ /\ ~Idle(q) /\ Advance(q)
             /\ ~AtItem(q, "openItem", i) /\ ~AtItem(q, "writeItem", i)
      BY <1>1, <1>3 DEF Silent
    <2>. QED
      BY <1>3, <1>4, <2>1, ProgressKept DEF Core
  <1>5. KeyInv'
    <2>1. \A q \in Proc : \/ plan'[q] = plan[q] /\ at'[q] = at[q]
                          \/ ~At(q, "writeKey")' /\ (Writing(q)' => at'[q] = 0)
      BY <1>1, <1>3 DEF Writing
    <2>. QED
      BY <1>2, <1>3, <2>1, KeyFrame DEF FilesInv
  <1>6. MadeInv'
    <2>1. Kind' \in {"create", "unlock"} => Kind' = Kind
      BY DEF Silent
    <2>. QED
      BY <1>1, <1>3, <2>1, MadeFrame DEF FilesInv
  <1>7. TouchInv'
    <2>1. Touching("gui")' = {} \/ Kind' = Kind \/ Kind' = "rekey"
      <3>1. CASE Kind' = "idle"
        BY <3>1, Pieces DEF Touching, Idle
      <3>2. CASE Kind = "rekey" /\ Kind' = "rekeyed"
        BY <3>2, RekeyedTouches
      <3>. QED
        BY <3>1, <3>2 DEF Silent, Proc
    <2>. QED
      BY <1>1, <1>3, <2>1, TouchFrame DEF FilesInv
  <1>8. GainInv'
    <2>1. \A q \in Proc : \A i \in gain'[q] : Progress(q, i)'
      BY <1>2, <1>3, <1>4 DEF FilesInv, GainInv
    <2>. QED
      BY <1>1, <1>3, <2>1, GainFrame DEF FilesInv
  <1>9. RebuildInv'
    <2>1. \/ plan'["gui"] = plan["gui"]
          \/ /\ ~Idle("gui") /\ Advance("gui")
             /\ ~At("gui", "openKey") /\ ~At("gui", "writeKey")
      BY <1>1, <1>3 DEF Silent
    <2>. QED
      BY <1>1, <1>3, <2>1, RebuildFrame DEF Core, FilesInv
  <1>10. AckedInv'
    <2>1. \A i \in acked, n \in {0} \cup Backup : ReadableIn(n, i) => ReadableIn(n, i)'
      BY <1>3 DEF ReadableIn
    <2>2. \A i \in acked : Rebuilding' => Progress("gui", i)'
      BY <1>1, <1>2, <1>3, <1>4 DEF FilesInv, AckedInv
    <2>3. Kind' = "rekeyStart" => Kind = "rekeyStart" /\ plan'["gui"] = plan["gui"]
      BY <1>1, <1>3
    <2>4. Kind' = "rekey" => Kind = "rekey"
      BY DEF Silent
    <2>5. Kind' = "restore" /\ At("gui", "clearActive")' =>
               Kind = "rekey" \/ (Kind = "restore" /\ At("gui", "clearActive"))
      <3>1. CASE p = "cli"
        BY <1>1, <1>3, <3>1 DEF Silent, At, Idle
      <3>2. CASE p = "gui"
        <4>1. Kind' = "restore" => Kind = "restore"
          BY <3>2 DEF Silent
        <4>2. plan'["gui"] = Tail(plan["gui"]) /\ ~Idle("gui")
          BY <3>2, Advanced DEF Core, Silent
        <4>. QED
          BY <4>1, <4>2, RestoreStep DEF Core
      <3>. QED
        BY <3>1, <3>2 DEF Proc
    <2>. QED
      BY <1>2, <1>3, <2>1, <2>2, <2>3, <2>4, <2>5, AckedFrame DEF FilesInv
  <1>. QED
    BY <1>5, <1>6, <1>7, <1>8, <1>9, <1>10 DEF FilesInv

LEMMA StoppedFiles ==
    ASSUME Core, FilesInv, NEW p \in Proc, NEW t, NEW k, Stopped(p, t, k),
           dir' = dir, at' = at, work' = work, acked' = acked, clean' = clean,
           \A q \in Proc : gain'[q] \subseteq gain[q],
           \A i \in gain'[p] : Progress(p, i)'
    PROVE  FilesInv'
  <1>1. /\ Plans' /\ KindInv' /\ plan'[p] = t
        /\ \A q \in Proc : q # p => plan'[q] = plan[q] /\ Touching(q)' = Touching(q)
        /\ ~Writing(p)' /\ Touching(p)' = {}
        /\ \A s \in {"openKey", "writeKey", "prompt"} : <<s>> \notin Range(plan'[p])
        /\ p = "cli" => Kind' = Kind
        /\ p = "gui" => \/ Kind' = "idle"
                        \/ Kind' = "none"
                        \/ Kind = "rekey" /\ Kind' = "restore" /\ At("gui", "clearActive")'
    BY StoppedFacts DEF Core
  <1>2. /\ DirT /\ AtT /\ DirT' /\ AtT' /\ acked \subseteq Items
        /\ \A q \in Proc : gain[q] \subseteq Items
    BY CoreTypes DEF Core, DirT, AtT
  <1>3. "gui" \in Proc /\ "cli" \in Proc /\ \A q \in Proc : q = p \/ q # p
    BY DEF Proc
  <1>4. ASSUME NEW q \in Proc, q # p, NEW i \in Items, Progress(q, i) PROVE Progress(q, i)'
    BY <1>1, <1>4, ProgressKept DEF Core
  <1>5. KeyInv'
    <2>1. \A q \in Proc : \/ plan'[q] = plan[q] /\ at'[q] = at[q]
                          \/ ~At(q, "writeKey")' /\ (Writing(q)' => at'[q] = 0)
      BY <1>1 DEF Writing
    <2>. QED
      BY <1>2, <2>1, KeyFrame DEF FilesInv
  <1>6. MadeInv'
    <2>1. CASE p = "cli"
      BY <1>1, <1>3, <2>1, MadeFrame DEF FilesInv
    <2>2. CASE p = "gui"
      BY <1>1, <2>2 DEF MadeInv
    <2>. QED
      BY <2>1, <2>2 DEF Proc
  <1>7. TouchInv'
    <2>1. Touching("gui")' = {} \/ Kind' = Kind
      BY <1>1, <1>3 DEF Proc
    <2>. QED
      BY <1>1, <2>1, TouchFrame DEF FilesInv
  <1>8. Kind' \in Changing => Kind \in Changing
    BY <1>1 DEF Changing, Proc
  <1>9. GainInv'
    <2>0. \A q \in Proc : q # p => gain'[q] \subseteq gain[q] /\ gain'[q] \subseteq Items
      BY <1>2
    <2>1. \A q \in Proc : \A i \in gain'[q] : Progress(q, i)'
      <3>1. SUFFICES ASSUME NEW q \in Proc, NEW i \in gain'[q] PROVE Progress(q, i)'
        OBVIOUS
      <3>2. CASE q = p
        BY <3>1, <3>2
      <3>3. CASE q # p
        <4>1. i \in gain[q] /\ i \in Items
          BY <1>2, <3>1
        <4>2. Progress(q, i)
          BY <4>1 DEF FilesInv, GainInv
        <4>. QED
          BY <1>4, <3>3, <4>1, <4>2
      <3>. QED
        BY <3>2, <3>3
    <2>2. /\ dir[0].key \in Key => dir'[0].key = dir[0].key
          /\ <<"prompt">> \in Range(plan'["cli"]) => work'["cli"].key = work["cli"].key
      OBVIOUS
    <2>3. clean' => ~Rekeying'
      <3>1. (Kind \in Changing <=> Rekeying) /\ (Kind' \in Changing <=> Rekeying')
        BY DEF Kind, Rekeying, Changing
      <3>. QED
        BY <1>8, <3>1 DEF FilesInv, GainInv
    <2>4. Rekeying' => gain'["gui"] = {}
      <3>1. (Kind \in Changing <=> Rekeying) /\ (Kind' \in Changing <=> Rekeying')
        BY DEF Kind, Rekeying, Changing
      <3>. QED
        BY <1>3, <1>8, <3>1 DEF FilesInv, GainInv
    <2>5. gain'["cli"] # {} => clean'
      BY <1>3 DEF FilesInv, GainInv
    <2>6. clean' /\ (<<"prompt">> \in Left("cli"))' =>
              dir'[0].key \in Key /\ work'["cli"].key = dir'[0].key
      <3>1. (<<"prompt">> \in Left("cli"))' => <<"prompt">> \in Left("cli")
        BY <1>1, <1>3 DEF Left
      <3>. QED
        BY <3>1 DEF FilesInv, GainInv
    <2>7. ASSUME NEW q \in Proc, NEW i \in gain'[q]
          PROVE  /\ dir'[0].key \in Key /\ work'[q].key = dir'[0].key
                 /\ {<<"removeItem", i>>, <<"forget", i>>, <<"openKey">>, <<"writeKey">>}
                          \cap Left(q)' = {}
      <3>1. i \in gain[q] /\ i \in Items
        BY <1>2, <2>7
      <3>2. /\ dir[0].key \in Key /\ work[q].key = dir[0].key
            /\ {<<"removeItem", i>>, <<"forget", i>>, <<"openKey">>, <<"writeKey">>}
                          \cap Left(q) = {}
        BY <3>1 DEF FilesInv, GainInv
      <3>3. CASE q = p
        <4>1. <<"removeItem", i>> \notin Range(plan'[p]) /\ <<"forget", i>> \notin Range(plan'[p])
          BY <1>1, <3>1 DEF Touching, ItemStep
        <4>. QED
          BY <1>1, <3>2, <3>3, <4>1 DEF Left
      <3>4. CASE q # p
        BY <1>1, <3>2, <3>4 DEF Left
      <3>. QED
        BY <3>3, <3>4
    <2>. QED
      BY <2>1, <2>3, <2>4, <2>5, <2>6, <2>7 DEF GainInv
  <1>10. Rebuilding' => Rebuilding /\ p = "cli" /\ plan'["gui"] = plan["gui"]
    <2>1. Kind' \in {"rekey", "rekeyed"} => p = "cli" /\ Kind' = Kind
      BY <1>1 DEF Proc
    <2>2. p = "cli" => plan'["gui"] = plan["gui"]
      BY <1>1, <1>3
    <2>. QED
      BY <2>1, <2>2 DEF Rebuilding, Ahead
  <1>11. RebuildInv'
    <2>1. CASE p = "cli"
      <3>1. plan'["gui"] = plan["gui"] /\ Kind' = Kind
        BY <1>1, <1>3, <2>1
      <3>. QED
        BY <1>10, <3>1, RebuildFrame DEF Core, FilesInv
    <2>2. CASE p = "gui"
      BY <1>1, <1>10, <2>2 DEF RebuildInv
    <2>. QED
      BY <2>1, <2>2 DEF Proc
  <1>12. AckedInv'
    <2>1. \A i \in acked, n \in {0} \cup Backup : ReadableIn(n, i) => ReadableIn(n, i)'
      BY DEF ReadableIn
    <2>2. \A i \in acked : Rebuilding' => Progress("gui", i)'
      BY <1>2, <1>3, <1>4, <1>10 DEF FilesInv, AckedInv
    <2>3. Kind' = "rekeyStart" => Kind = "rekeyStart" /\ plan'["gui"] = plan["gui"]
      BY <1>1, <1>3 DEF Proc
    <2>4. Kind' = "rekey" => Kind = "rekey"
      BY <1>1 DEF Proc
    <2>5. Kind' = "restore" /\ At("gui", "clearActive")' =>
               Kind = "rekey" \/ (Kind = "restore" /\ At("gui", "clearActive"))
      <3>1. CASE p = "cli"
        BY <1>1, <1>3, <3>1 DEF At, Idle
      <3>2. CASE p = "gui"
        BY <1>1, <3>2
      <3>. QED
        BY <3>1, <3>2 DEF Proc
    <2>. QED
      BY <1>2, <2>1, <2>2, <2>3, <2>4, <2>5, AckedFrame DEF FilesInv
  <1>. QED
    BY <1>5, <1>6, <1>7, <1>9, <1>11, <1>12 DEF FilesInv

\* What the items an operation is to report need at its start.
Vouched(p, t, is) ==
    \A i \in is :
       /\ dir[0].key \in Key /\ work'[p].key = dir[0].key
       /\ <<"openItem", i>> \in Range(t)
       /\ {<<"removeItem", i>>, <<"forget", i>>, <<"openKey">>, <<"writeKey">>}
             \cap Range(t) = {}

\* An operation that is no password change begins.
LEMMA BegunFiles ==
    ASSUME Core, FilesInv, NEW p \in Proc, NEW t, Begun(p, t),
           NEW is \in SUBSET Items, NEW lost, Vouched(p, t, is),
           dir' = dir, at' = at, acked' = acked \ lost,
           \A q \in Proc : q # p => work'[q] = work[q],
           gain'[p] \subseteq is \ Touching(Other(p)),
           \A q \in Proc : q # p => gain'[q] \subseteq gain[q] \ lost,
           Touching(p)' \subseteq lost,
           clean' => ~Rekeying',
           p = "gui" => clean' = clean /\ Kind \notin Changing,
           p = "cli" => is = {} \/ clean',
           p = "cli" /\ clean' /\ <<"prompt">> \in Range(t) =>
               dir[0].key \in Key /\ work'["cli"].key = dir[0].key,
           p = "gui" /\ job'["gui"].kind \in {"create", "unlock"} =>
               <<"writeKey">> \in Range(t) \/ work'["gui"].key \in Key
    PROVE  FilesInv'
  <1>1. /\ Plans' /\ KindInv' /\ plan'[p] = t
        /\ \A q \in Proc : q # p => plan'[q] = plan[q] /\ Touching(q)' = Touching(q)
        /\ ~Writing(p)'
        /\ p = "cli" => Kind' = Kind
        /\ p = "gui" => Kind' \in {"create", "unlock", "save", "drop"}
    BY BegunFacts DEF Core
  <1>2. /\ DirT /\ AtT /\ DirT' /\ AtT' /\ acked \subseteq Items
        /\ \A q \in Proc : gain[q] \subseteq Items
    BY CoreTypes DEF Core, DirT, AtT
  <1>3. "gui" \in Proc /\ "cli" \in Proc /\ \A q \in Proc : q = p \/ q # p
    BY DEF Proc
  <1>4. ASSUME NEW q \in Proc, q # p, NEW i \in Items, Progress(q, i) PROVE Progress(q, i)'
    <2>1. work'[q].key = work[q].key /\ dir'[0].item[i] = dir[0].item[i]
      BY <1>4
    <2>. QED
      BY <1>1, <1>4, <2>1, ProgressKept DEF Core
  <1>5. KeyInv'
    <2>1. \A q \in Proc : \/ plan'[q] = plan[q] /\ at'[q] = at[q]
                          \/ ~At(q, "writeKey")' /\ (Writing(q)' => at'[q] = 0)
      BY <1>1 DEF Writing
    <2>. QED
      BY <1>2, <2>1, KeyFrame DEF FilesInv
  <1>6. MadeInv'
    <2>1. CASE p = "cli"
      BY <1>1, <1>3, <2>1, MadeFrame DEF FilesInv
    <2>2. CASE p = "gui"
      <3>1. Kind' = job'["gui"].kind \/ Kind' = "idle"
        BY DEF Kind
      <3>2. Kind' \in {"create", "unlock"} => job'["gui"].kind \in {"create", "unlock"}
        BY <3>1
      <3>. QED
        BY <1>1, <2>2, <3>2 DEF MadeInv, Left
    <2>. QED
      BY <2>1, <2>2 DEF Proc
  <1>7. TouchInv'
    <2>1. ASSUME NEW q \in Proc, NEW i \in Touching(q)' PROVE i \notin gain'[Other(q)]
      <3>1. CASE q = p
        <4>1. Other(q) \in Proc /\ Other(q) # p /\ i \in lost
          BY <2>1, <3>1 DEF Other, Proc
        <4>. QED
          BY <4>1
      <3>2. CASE q # p
        <4>1. Other(q) = p /\ Other(p) = q
          BY <3>2 DEF Other, Proc
        <4>2. i \in Touching(q)
          BY <1>1, <2>1, <3>2
        <4>. QED
          BY <4>1, <4>2
      <3>. QED
        BY <3>1, <3>2
    <2>2. ASSUME NEW i \in Touching("cli")' PROVE i \notin acked'
      <3>1. CASE p = "cli"
        BY <2>2, <3>1
      <3>2. CASE p = "gui"
        BY <1>1, <1>3, <2>2, <3>2 DEF FilesInv, TouchInv
      <3>. QED
        BY <3>1, <3>2 DEF Proc
    <2>3. ASSUME NEW i \in Touching("gui")', i \in acked' PROVE Kind' \in {"rekeyStart", "rekey"}
      <3>1. CASE p = "gui"
        BY <2>3, <3>1
      <3>2. CASE p = "cli"
        BY <1>1, <1>3, <2>3, <3>2 DEF FilesInv, TouchInv
      <3>. QED
        BY <3>1, <3>2 DEF Proc
    <2>. QED
      BY <2>1, <2>2, <2>3 DEF TouchInv
  <1>8. (Kind \in Changing <=> Rekeying) /\ (Kind' \in Changing <=> Rekeying')
    BY DEF Kind, Rekeying, Changing
  <1>9. GainInv'
    <2>1. Rekeying' => gain'["gui"] = {}
      <3>1. Kind' \in Changing => p = "cli" /\ Kind \in Changing
        BY <1>1 DEF Changing, Proc
      <3>2. Rekeying' => p = "cli" /\ gain["gui"] = {}
        BY <1>8, <3>1 DEF FilesInv, GainInv
      <3>. QED
        BY <3>2 DEF Proc
    <2>2. gain'["cli"] # {} => clean'
      BY <1>3 DEF FilesInv, GainInv, Proc
    <2>3. clean' /\ (<<"prompt">> \in Left("cli"))' =>
              dir'[0].key \in Key /\ work'["cli"].key = dir'[0].key
      <3>1. CASE p = "cli"
        BY <1>1, <3>1 DEF Left
      <3>2. CASE p = "gui"
        BY <1>1, <1>3, <3>2 DEF Left, FilesInv, GainInv
      <3>. QED
        BY <3>1, <3>2 DEF Proc
    <2>4. ASSUME NEW q \in Proc, NEW i \in gain'[q]
          PROVE  /\ dir'[0].key \in Key /\ work'[q].key = dir'[0].key
                 /\ Progress(q, i)'
                 /\ {<<"removeItem", i>>, <<"forget", i>>, <<"openKey">>, <<"writeKey">>}
                          \cap Left(q)' = {}
      <3>1. CASE q = p
        <4>1. i \in is /\ i \in Items
          BY <2>4, <3>1
        <4>2. /\ dir[0].key \in Key /\ work'[p].key = dir[0].key
              /\ <<"openItem", i>> \in Range(t)
              /\ {<<"removeItem", i>>, <<"forget", i>>, <<"openKey">>, <<"writeKey">>}
                       \cap Range(t) = {}
          BY <4>1 DEF Vouched
        <4>3. ~AtItem(p, "writeItem", i)'
          BY <1>1, <4>1 DEF Writing
        <4>4. Progress(p, i)'
          BY <1>1, <4>2, <4>3 DEF Progress, Left
        <4>. QED
          BY <1>1, <3>1, <4>2, <4>4 DEF Left
      <3>2. CASE q # p
        <4>1. i \in gain[q] /\ i \in Items /\ work'[q] = work[q]
          BY <1>2, <2>4, <3>2
        <4>2. /\ dir[0].key \in Key /\ work[q].key = dir[0].key
              /\ Progress(q, i)
              /\ {<<"removeItem", i>>, <<"forget", i>>, <<"openKey">>, <<"writeKey">>}
                       \cap Left(q) = {}
          BY <4>1 DEF FilesInv, GainInv
        <4>3. Progress(q, i)'
          BY <1>4, <3>2, <4>1, <4>2
        <4>. QED
          BY <1>1, <3>2, <4>1, <4>2, <4>3 DEF Left
      <3>. QED
        BY <3>1, <3>2
    <2>. QED
      BY <2>1, <2>2, <2>3, <2>4 DEF GainInv
  <1>10. Rebuilding' => Rebuilding /\ p = "cli" /\ plan'["gui"] = plan["gui"]
    <2>1. Kind' \in {"rekey", "rekeyed"} => p = "cli" /\ Kind' = Kind
      BY <1>1 DEF Proc
    <2>2. p = "cli" => plan'["gui"] = plan["gui"]
      BY <1>1, <1>3
    <2>. QED
      BY <2>1, <2>2 DEF Rebuilding, Ahead
  <1>11. RebuildInv'
    <2>1. CASE p = "cli"
      <3>1. plan'["gui"] = plan["gui"] /\ Kind' = Kind /\ work'["gui"].key = work["gui"].key
        BY <1>1, <1>3, <2>1
      <3>. QED
        BY <1>10, <3>1, RebuildFrame DEF Core, FilesInv
    <2>2. CASE p = "gui"
      BY <1>1, <1>10, <2>2 DEF RebuildInv
    <2>. QED
      BY <2>1, <2>2 DEF Proc
  <1>12. AckedInv'
    <2>1. ASSUME NEW i \in acked'
          PROVE  /\ \E n \in DOMAIN dir' : ReadableIn(n, i)'
                 /\ Kind' = "rekeyStart" => (<<"openItem", i>> \in Left("gui"))'
                 /\ Rebuilding' => Progress("gui", i)'
                 /\ Kind' = "rekey" => Kept(i)'
                 /\ Kind' = "restore" /\ At("gui", "clearActive")' => Kept(i)'
      <3>1. i \in acked /\ i \in Items
        BY <1>2, <2>1
      <3>2. /\ \E n \in DOMAIN dir : ReadableIn(n, i)
            /\ Kind = "rekeyStart" => <<"openItem", i>> \in Left("gui")
            /\ Rebuilding => Progress("gui", i)
            /\ Kind = "rekey" => Kept(i)
            /\ Kind = "restore" /\ At("gui", "clearActive") => Kept(i)
        BY <3>1 DEF FilesInv, AckedInv
      <3>3. /\ \E n \in DOMAIN dir' : ReadableIn(n, i)'
            /\ Kept(i)' = Kept(i)
        BY <3>2 DEF ReadableIn, Kept
      <3>4. CASE p = "cli"
        <4>1. plan'["gui"] = plan["gui"] /\ Kind' = Kind
          BY <1>1, <1>3, <3>4
        <4>2. Rebuilding' => Progress("gui", i)'
          BY <1>3, <1>4, <1>10, <3>1, <3>2, <3>4
        <4>3. /\ Kind' = "rekeyStart" => (<<"openItem", i>> \in Left("gui"))'
              /\ At("gui", "clearActive")' = At("gui", "clearActive")
          BY <3>2, <4>1 DEF Left, At, Idle
        <4>. QED
          BY <3>2, <3>3, <4>1, <4>2, <4>3
      <3>5. CASE p = "gui"
        BY <1>1, <1>10, <3>3, <3>5
      <3>. QED
        BY <3>4, <3>5 DEF Proc
    <2>. QED
      BY <2>1 DEF AckedInv
  <1>. QED
    BY <1>5, <1>6, <1>7, <1>9, <1>11, <1>12 DEF FilesInv

StateT == state \in Entry /\ app \in [Proc -> Entry] /\ st \in [Proc -> Entry]
CountT == /\ pwOf \in [Key -> Passwords] /\ keys \in 0..MaxKeys
          /\ clock \in Nat /\ failures \in 0..MaxFailures
MemT == (mem = Nil \/ (mem \in Vault /\ mem.key \in Key)) /\ work \in [Proc -> Vault]
HistT == /\ acked \subseteq Items /\ gain \in [Proc -> SUBSET Items]
         /\ clean \in BOOLEAN /\ whole \subseteq Items

LEMMA Types == StoreTypeOK <=> DirT /\ AtT /\ StateT /\ CountT /\ MemT /\ HistT
  BY DEF StoreTypeOK, DirT, AtT, StateT, CountT, MemT, HistT, DirSet

LEMMA TypesNext ==
    ASSUME DirT', AtT', StateT', CountT', MemT', HistT'
    PROVE  StoreTypeOK'
  BY DEF StoreTypeOK, DirT, AtT, StateT, CountT, MemT, HistT, DirSet

LEMMA SameDir == ASSUME DirT, dir' = dir PROVE DirT'
  BY DEF DirT
LEMMA SameAt == ASSUME AtT, at' = at PROVE AtT'
  BY DEF AtT
LEMMA SameState == ASSUME StateT, state' = state, app' = app, st' = st PROVE StateT'
  BY DEF StateT
LEMMA SameCount ==
    ASSUME CountT, pwOf' = pwOf, keys' = keys, failures' = failures, clock' \in Nat
    PROVE  CountT'
  BY DEF CountT
LEMMA SameMem == ASSUME MemT, mem' = mem, work' = work PROVE MemT'
  BY DEF MemT
LEMMA SameHist ==
    ASSUME HistT, acked' = acked, gain' = gain, clean' = clean, whole' = whole PROVE HistT'
  BY DEF HistT

LEMMA NilVault == Nil \in Vault /\ Nil.key = None /\ Nil.items = {} /\ Nil.from = 0
  BY DEF Nil, Vault, None

LEMMA SomeVault ==
    ASSUME StoreTypeOK, mem # Nil \/ mem.items # {}
    PROVE  mem \in Vault /\ mem.key \in Key /\ mem.items \subseteq Items /\ mem # Nil
  BY NilVault DEF StoreTypeOK, Vault

\* What a process opens is a vault.
LEMMA OpenedVault ==
    ASSUME DirT, NEW n \in {0} \cup Backup, NEW pw, Opens(n, pw)
    PROVE  Opened(n) \in Vault /\ Opened(n).key = dir[n].key /\ dir[n].key \in Key
  <1>1. dir[n] \in DirSet
    BY DEF DirT
  <1>2. dir[n].vault \in [k : File, items : SUBSET Items, mod : Nat]
    BY <1>1 DEF DirSet
  <1>3. dir[n].vault.items \in SUBSET Items /\ dir[n].vault.mod \in Nat
    BY <1>2
  <1>4. dir[n].key \in Key
    BY DEF Opens
  <1>. QED
    BY <1>3, <1>4 DEF Opened, Vault

\* An operation of the desktop application begins.
LEMMA BeginTypes ==
    ASSUME Core, NEW p \in Proc, NEW v \in Vault, work' = [work EXCEPT ![p] = v],
           Tick, dir' = dir, at' = at, state' = state, st' = st, app' \in [Proc -> Entry],
           pwOf' = pwOf, keys' = keys, failures' = failures,
           mem' = mem \/ (mem' \in Vault /\ mem'.key \in Key),
           acked' \subseteq acked, gain' \in [Proc -> SUBSET Items], clean' \in BOOLEAN,
           whole' \in {{}, whole}
    PROVE  StoreTypeOK'
  <1>1. DirT /\ AtT /\ StateT /\ CountT /\ MemT /\ HistT
    BY Types DEF Core
  <1>2. DirT' /\ AtT'
    BY <1>1, SameDir, SameAt
  <1>3. StateT'
    BY <1>1 DEF StateT
  <1>4. clock' \in Nat
    BY <1>1 DEF CountT, Tick
  <1>5. CountT'
    BY <1>1, <1>4, SameCount
  <1>6. work' \in [Proc -> Vault]
    BY <1>1 DEF MemT
  <1>7. MemT'
    BY <1>1, <1>6 DEF MemT
  <1>8. HistT'
    BY <1>1 DEF HistT
  <1>. QED
    BY <1>2, <1>3, <1>5, <1>7, <1>8, TypesNext

LEMMA StartsTypes ==
    ASSUME StoreTypeOK, NEW p \in Proc, NEW is \in SUBSET Items, NEW lost,
           Starts(p, is, lost)
    PROVE  /\ gain' \in [Proc -> SUBSET Items] /\ acked' \subseteq acked /\ whole' = {}
           /\ gain'[p] \subseteq is \ Touching(Other(p)) /\ acked' = acked \ lost
           /\ \A q \in Proc : q # p => gain'[q] \subseteq gain[q] \ lost
  <1>1. \A q \in Proc : gain[q] \in SUBSET Items
    BY DEF StoreTypeOK
  <1>2. gain' = [q \in Proc |-> IF q = p THEN is \ Touching(Other(p)) ELSE gain[q] \ lost]
    BY DEF Starts
  <1>3. gain' \in [Proc -> SUBSET Items]
    BY <1>1, <1>2
  <1>4. /\ gain'[p] \subseteq is \ Touching(Other(p))
        /\ \A q \in Proc : q # p => gain'[q] \subseteq gain[q] \ lost
    BY <1>2
  <1>. QED
    BY <1>3, <1>4 DEF Starts

LEMMA TickTypes == ASSUME StoreTypeOK, Tick PROVE clock \in Nat /\ clock' = clock + 1 /\ clock + 1 \in Nat
  BY DEF StoreTypeOK, Tick

\* The record of a running operation.
LEMMA JobTypes ==
    ASSUME JobInv, NEW p \in Proc, NEW j \in [kind : Kinds, pw : Passwords, back : {0} \cup Backup],
           job' = [job EXCEPT ![p] = j]
    PROVE  JobInv' /\ job'[p] = j /\ \A q \in Proc : q # p => job'[q] = job[q]
  BY DEF JobInv

WholeFree == WholeInv /\ BuildInv
LEMMA NoWhole == ASSUME whole' = {} PROVE WholeFree'
  BY DEF WholeFree, WholeInv, BuildInv

\* What a running operation touches is in its plan.
LEMMA TouchingIs ==
    ASSUME NEW p \in Proc, NEW lost,
           \A s \in ItemStep, i \in Items : <<s, i>> \in Range(plan'[p]) => i \in lost
    PROVE  Touching(p)' \subseteq lost
  BY DEF Touching

LEMMA IdleKind == ASSUME Idle("gui") PROVE Kind \notin Changing /\ Kind = "idle"
  BY DEF Kind, Changing

StoreInv == Core /\ FilesInv /\ WholeFree

JobSet == [kind : Kinds, pw : Passwords, back : {0} \cup Backup]

\* What an operation of p starts with: the vault it works on and its plan.
Launched(p, v, j, t) ==
    /\ Tick /\ work' = [work EXCEPT ![p] = v]
    /\ job' = [job EXCEPT ![p] = j] /\ plan' = [plan EXCEPT ![p] = t]
    /\ v \in Vault /\ j \in JobSet /\ Block(t)
    /\ dir' = dir /\ state' = state /\ pwOf' = pwOf /\ keys' = keys /\ failures' = failures
    /\ st' = st /\ at' = at

LEMMA GuiBegins ==
    ASSUME StoreInv, NEW v, NEW j, NEW t, NEW is \in SUBSET Items, NEW lost,
           Launched("gui", v, j, t), Idle("gui"), Starts("gui", is, lost), clean' = clean,
           app' = app, mem' = mem \/ (mem' \in Vault /\ mem'.key \in Key),
           Range(t) \cap Private = {}, t # <<>>,
           j.kind \in {"create", "unlock", "save", "drop"},
           j.kind \in {"create", "unlock"} => <<"writeKey">> \in Range(t) \/ v.key \in Key,
           \A s \in ItemStep, i \in Items : <<s, i>> \in Range(t) => i \in lost,
           \A i \in is :
               /\ dir[0].key \in Key /\ v.key = dir[0].key
               /\ <<"openItem", i>> \in Range(t)
               /\ {<<"removeItem", i>>, <<"forget", i>>, <<"openKey">>, <<"writeKey">>}
                     \cap Range(t) = {}
    PROVE  StoreInv'
  <1>0. Core /\ FilesInv /\ StoreTypeOK /\ "gui" \in Proc /\ JobInv
    BY DEF StoreInv, Core, Proc
  <1>1. work'["gui"] = v /\ \A q \in Proc : q # "gui" => work'[q] = work[q]
    BY <1>0 DEF StoreTypeOK, Launched
  <1>2. JobInv' /\ job'["gui"] = j /\ \A q \in Proc : q # "gui" => job'[q] = job[q]
    BY <1>0, JobTypes DEF JobSet, Launched
  <1>3. Begun("gui", t)
    BY <1>2 DEF Begun, Launched
  <1>4. /\ Plans' /\ KindInv' /\ plan'["gui"] = t /\ Kind' \in {"create", "unlock", "save", "drop"}
    BY <1>0, <1>3, BegunFacts DEF Core
  <1>5. /\ gain' \in [Proc -> SUBSET Items] /\ acked' \subseteq acked /\ whole' = {}
        /\ gain'["gui"] \subseteq is \ Touching(Other("gui")) /\ acked' = acked \ lost
        /\ \A q \in Proc : q # "gui" => gain'[q] \subseteq gain[q] \ lost
    <2>1. Starts("gui", is, lost) /\ "gui" \in Proc /\ StoreTypeOK /\ is \in SUBSET Items
      BY <1>0
    <2>2. acked' = acked \ lost /\ whole' = {}
      BY <2>1 DEF Starts
    <2>3. gain' \in [Proc -> SUBSET Items]
      BY <2>1, StartsTypes
    <2>4. gain'["gui"] \subseteq is \ Touching(Other("gui"))
      BY <2>1 DEF Starts
    <2>5. \A q \in Proc : q # "gui" => gain'[q] \subseteq gain[q] \ lost
      BY <2>1 DEF Starts
    <2>. QED
      BY <2>2, <2>3, <2>4, <2>5
  <1>6. StoreTypeOK'
    <2>1. app' \in [Proc -> Entry] /\ clean' \in BOOLEAN
      BY <1>0 DEF StoreTypeOK
    <2>2. /\ v \in Vault /\ work' = [work EXCEPT !["gui"] = v] /\ Tick /\ dir' = dir
          /\ at' = at /\ state' = state /\ st' = st /\ pwOf' = pwOf /\ keys' = keys
          /\ failures' = failures
      BY DEF Launched
    <2>3. mem' = mem \/ (mem' \in Vault /\ mem'.key \in Key)
      OBVIOUS
    <2>4. acked' \subseteq acked /\ gain' \in [Proc -> SUBSET Items] /\ whole' \in {{}, whole}
      BY <1>5
    <2>5. Core /\ "gui" \in Proc
      BY <1>0
    <2>. QED
      BY <2>1, <2>2, <2>3, <2>4, <2>5, BeginTypes
  <1>7. FilesInv'
    <2>1. Vouched("gui", t, is)
      BY <1>1 DEF Vouched
    <2>2. Touching("gui")' \subseteq lost
      BY <1>0, <1>4, TouchingIs
    <2>3. clean' => ~Rekeying'
      BY <1>4 DEF Rekeying, Kind
    <2>4. Kind \notin Changing
      BY IdleKind
    <2>5. dir' = dir /\ at' = at
      BY DEF Launched
    <2>6. job'["gui"].kind \in {"create", "unlock"} =>
               <<"writeKey">> \in Range(t) \/ work'["gui"].key \in Key
      BY <1>1, <1>2
    <2>. QED
      BY <1>0, <1>1, <1>3, <1>5, <2>1, <2>2, <2>3, <2>4, <2>5, <2>6, BegunFiles
  <1>. QED
    BY <1>2, <1>4, <1>5, <1>6, <1>7, NoWhole DEF StoreInv, Core

LEMMA OfCreate ==
    ASSUME StoreInv, NEW pw \in Passwords, Create(pw)
    PROVE  StoreInv'
  <1>. DEFINE t == CreateVaultKey \o StoreVault \o << <<"recolour">> >> \o StoreVault \o Done
              v == [Nil EXCEPT !.mod = clock + 1]
              j == [kind |-> "create", pw |-> pw, back |-> 0]
  <1>1. /\ Idle("gui") /\ Tick /\ work' = [work EXCEPT !["gui"] = v]
        /\ job' = [job EXCEPT !["gui"] = j] /\ plan' = [plan EXCEPT !["gui"] = t]
        /\ Starts("gui", {}, {}) /\ clean' = clean
        /\ dir' = dir /\ state' = state /\ pwOf' = pwOf /\ keys' = keys /\ failures' = failures
        /\ mem' = mem /\ app' = app /\ st' = st /\ at' = at
    BY DEF Create, disk
  <1>2. /\ Block(t)
        /\ Range(t) = {<<"openKey">>, <<"writeKey">>, <<"recolour">>, <<"done">>} \cup VaultSteps
    BY PlanOfCreation
  <1>3. v \in Vault
    BY <1>1, NilVault, TickTypes DEF Vault, Nil, StoreInv, Core
  <1>4. j \in JobSet /\ j.kind = "create"
    BY DEF Kinds, JobSet
  <1>. HIDE DEF t, v, j
  <1>5. Range(t) \cap Private = {}
    BY <1>2, Names DEF VaultSteps, Private, StepNames
  <1>6. <<"writeKey">> \in Range(t) /\ t # <<>>
    BY <1>2, Pieces
  <1>7. \A s \in ItemStep, i \in Items : <<s, i>> \notin Range(t)
    BY <1>2, Names DEF VaultSteps, StepNames
  <1>8. {} \in SUBSET Items /\ Launched("gui", v, j, t)
    BY <1>1, <1>2, <1>3, <1>4 DEF Launched
  <1>. QED
    BY <1>1, <1>4, <1>5, <1>6, <1>7, <1>8, GuiBegins

LEMMA OfUnlock ==
    ASSUME StoreInv, NEW n \in {0} \cup Backup, NEW pw \in Passwords, Unlock(n, pw)
    PROVE  StoreInv'
  <1>. DEFINE t == LoadVault \o Done
              v == Opened(n)
              j == [kind |-> "unlock", pw |-> pw, back |-> 0]
  <1>1. /\ Idle("gui") /\ Tick /\ work' = [work EXCEPT !["gui"] = v] /\ Opens(n, pw)
        /\ job' = [job EXCEPT !["gui"] = j] /\ plan' = [plan EXCEPT !["gui"] = t]
        /\ Starts("gui", {}, {}) /\ clean' = clean
        /\ dir' = dir /\ state' = state /\ pwOf' = pwOf /\ keys' = keys /\ failures' = failures
        /\ mem' = mem /\ app' = app /\ st' = st /\ at' = at
    BY DEF Unlock, disk
  <1>2. /\ Block(t)
        /\ Range(t) = {<<"loadSeen">>, <<"storeState">>, <<"writeState">>, <<"done">>}
    BY ShortPlans
  <1>3. v \in Vault /\ v.key \in Key
    BY <1>1, OpenedVault, CoreTypes DEF StoreInv, Core
  <1>4. j \in JobSet /\ j.kind = "unlock"
    BY DEF Kinds, JobSet
  <1>. HIDE DEF t, v, j
  <1>5. Range(t) \cap Private = {}
    BY <1>2, Names DEF Private, StepNames
  <1>6. t # <<>>
    BY <1>2, Pieces
  <1>7. \A s \in ItemStep, i \in Items : <<s, i>> \notin Range(t)
    BY <1>2, Names DEF StepNames
  <1>8. {} \in SUBSET Items /\ Launched("gui", v, j, t)
    BY <1>1, <1>2, <1>3, <1>4 DEF Launched
  <1>. QED
    BY <1>1, <1>3, <1>4, <1>5, <1>6, <1>7, <1>8, GuiBegins

\* The record of the operation keeps all but its kind.
LEMMA Rekinded ==
    ASSUME JobInv, NEW p \in Proc, NEW k \in Kinds,
           job' = [job EXCEPT ![p] = [job[p] EXCEPT !.kind = k]]
    PROVE  [job[p] EXCEPT !.kind = k] \in JobSet /\ [job[p] EXCEPT !.kind = k].kind = k
  <1>1. job[p] \in JobSet
    BY DEF JobInv, JobSet
  <1>. QED
    BY <1>1 DEF JobSet

LEMMA OfSaveItem ==
    ASSUME StoreInv, NEW i \in Items, NEW old \in {{}} \cup {{j} : j \in Items}, SaveItem(i, old)
    PROVE  StoreInv'
  <1>. DEFINE t == StoreItem(i) \o ForgetItem(old) \o StoreVault \o StoreAppState \o Done
              v == [mem EXCEPT !.items = @ \cup {i}, !.mod = clock + 1]
              j == [job["gui"] EXCEPT !.kind = "save"]
              is == IF mem.from = 0 /\ mem.key = dir[0].key THEN {i} ELSE {}
              lost == old \cup {i}
  <1>1. /\ Idle("gui") /\ Tick /\ work' = [work EXCEPT !["gui"] = v]
        /\ job' = [job EXCEPT !["gui"] = j] /\ plan' = [plan EXCEPT !["gui"] = t]
        /\ Starts("gui", is, lost) /\ clean' = clean
        /\ dir' = dir /\ state' = state /\ pwOf' = pwOf /\ keys' = keys /\ failures' = failures
        /\ app' = app /\ st' = st /\ at' = at
    BY DEF SaveItem, disk
  <1>2. mem # Nil /\ mem' = v /\ old \subseteq mem.items \ {i}
    BY DEF SaveItem
  <1>3. /\ Block(t)
        /\ Range(t) = {<<"openItem", i>>, <<"writeItem", i>>} \cup {<<"forget", x>> : x \in old}
                      \cup VaultSteps \cup StateSteps
    BY PlanOfSave
  <1>4. v \in Vault /\ v.key \in Key /\ v.key = mem.key
    BY <1>1, <1>2, SomeVault, TickTypes DEF Vault, StoreInv, Core
  <1>5. j \in JobSet /\ j.kind = "save"
    <2>1. "save" \in Kinds /\ "gui" \in Proc
      BY DEF Kinds, Proc
    <2>. QED
      BY <1>1, <2>1, Rekinded DEF StoreInv, Core
  <1>6. is \in SUBSET Items /\ is \subseteq {i} /\ (is # {} => dir[0].key = v.key)
    BY <1>4
  <1>7. old \subseteq Items /\ i \notin old
    BY <1>2
  <1>. HIDE DEF t, v, j, is
  <1>8. Range(t) \cap Private = {}
    BY <1>3, Names DEF VaultSteps, StateSteps, Private, StepNames
  <1>9. t # <<>> /\ <<"openItem", i>> \in Range(t)
    BY <1>3, Pieces
  <1>10. ASSUME NEW s \in ItemStep, NEW x \in Items, <<s, x>> \in Range(t) PROVE x \in lost
    BY <1>3, <1>10, Names DEF VaultSteps, StateSteps, StepNames
  <1>11. /\ <<"removeItem", i>> \notin Range(t) /\ <<"forget", i>> \notin Range(t)
         /\ <<"openKey">> \notin Range(t) /\ <<"writeKey">> \notin Range(t)
    BY <1>3, <1>7, Names DEF VaultSteps, StateSteps, StepNames
  <1>. HIDE DEF lost
  <1>12. \A x \in is :
               /\ dir[0].key \in Key /\ v.key = dir[0].key
               /\ <<"openItem", x>> \in Range(t)
               /\ {<<"removeItem", x>>, <<"forget", x>>, <<"openKey">>, <<"writeKey">>}
                     \cap Range(t) = {}
    BY <1>4, <1>6, <1>9, <1>11
  <1>13. Launched("gui", v, j, t)
    BY <1>1, <1>3, <1>4, <1>5 DEF Launched
  <1>. QED
    BY <1>1, <1>2, <1>4, <1>5, <1>6, <1>8, <1>9, <1>10, <1>12, <1>13, GuiBegins

\* A deletion begins, of the item's file or of one that does not load.
LEMMA DeletionBegins ==
    ASSUME StoreInv, NEW i \in mem.items, NEW s \in {"removeItem", "forget"},
           NEW k \in {"save", "drop"}, Idle("gui"), Tick,
           mem' = [mem EXCEPT !.items = @ \ {i}, !.mod = clock + 1],
           work' = [work EXCEPT !["gui"] = mem'],
           job' = [job EXCEPT !["gui"] = [job["gui"] EXCEPT !.kind = k]],
           plan' = [plan EXCEPT !["gui"] = << <<s, i>> >> \o StoreVault \o StoreAppState \o Done],
           Starts("gui", {}, {i}), clean' = clean,
           dir' = dir, state' = state, pwOf' = pwOf, keys' = keys, failures' = failures,
           app' = app, st' = st, at' = at
    PROVE  StoreInv'
  <1>. DEFINE t == << <<s, i>> >> \o StoreVault \o StoreAppState \o Done
              v == [mem EXCEPT !.items = @ \ {i}, !.mod = clock + 1]
              j == [job["gui"] EXCEPT !.kind = k]
  <1>1. mem \in Vault /\ mem.key \in Key /\ mem.items \subseteq Items
    BY SomeVault DEF StoreInv, Core
  <1>2. i \in Items
    BY <1>1
  <1>3. Block(t) /\ Range(t) = {<<s, i>>} \cup VaultSteps \cup StateSteps
    BY <1>2, PlanOfAnswer
  <1>4. v \in Vault /\ v.key \in Key
    BY <1>1, TickTypes DEF Vault, StoreInv, Core
  <1>5. j \in JobSet /\ j.kind = k
    <2>1. k \in Kinds /\ "gui" \in Proc
      BY DEF Kinds, Proc
    <2>. QED
      BY <2>1, Rekinded DEF StoreInv, Core
  <1>6. mem' = v /\ work' = [work EXCEPT !["gui"] = v]
    OBVIOUS
  <1>7. Launched("gui", v, j, t)
    BY <1>3, <1>4, <1>5, <1>6 DEF Launched
  <1>. HIDE DEF t, v, j
  <1>8. Range(t) \cap Private = {}
    BY <1>3, Names DEF VaultSteps, StateSteps, Private, StepNames
  <1>9. t # <<>>
    BY <1>3, Pieces
  <1>10. ASSUME NEW u \in ItemStep, NEW x \in Items, <<u, x>> \in Range(t) PROVE x \in {i}
    BY <1>3, <1>10, Names DEF VaultSteps, StateSteps, StepNames
  <1>11. {} \in SUBSET Items
    OBVIOUS
  <1>. QED
    BY <1>4, <1>5, <1>6, <1>7, <1>8, <1>9, <1>10, <1>11, GuiBegins

LEMMA OfDeleteItem ==
    ASSUME StoreInv, NEW i \in Items, DeleteItem(i)
    PROVE  StoreInv'
  <1>1. i \in mem.items
    BY DEF DeleteItem
  <1>. QED
    BY <1>1, DeletionBegins DEF DeleteItem, disk

LEMMA OfDropUnreadable ==
    ASSUME StoreInv, NEW i \in Items, DropUnreadable(i)
    PROVE  StoreInv'
  <1>1. i \in mem.items
    BY DEF DropUnreadable
  <1>. QED
    BY <1>1, DeletionBegins DEF DropUnreadable, disk

LEMMA CliBegins ==
    ASSUME StoreInv, NEW v, NEW j, NEW t, NEW is \in SUBSET Items, NEW lost,
           Launched("cli", v, j, t), app' \in [Proc -> Entry], mem' = mem,
           gain' \in [Proc -> SUBSET Items], acked' = acked \ lost, whole' = {},
           gain'["cli"] \subseteq is \ Touching("gui"),
           gain'["gui"] \subseteq gain["gui"] \ lost,
           clean' \in BOOLEAN, clean' => ~Rekeying, is = {} \/ clean',
           j.kind \in {"create", "unlock", "save"},
           <<"prompt">> \in Range(t) =>
               /\ clean' => dir[0].key \in Key /\ v.key = dir[0].key
               /\ Range(t) \subseteq
                      {<<"loadSeen">>, <<"storeState">>, <<"writeState">>, <<"prompt">>},
           \A s \in ItemStep, i \in Items : <<s, i>> \in Range(t) => i \in lost,
           \A i \in is :
               /\ dir[0].key \in Key /\ v.key = dir[0].key
               /\ <<"openItem", i>> \in Range(t)
               /\ {<<"removeItem", i>>, <<"forget", i>>, <<"openKey">>, <<"writeKey">>}
                     \cap Range(t) = {}
    PROVE  StoreInv'
  <1>0. Core /\ FilesInv /\ StoreTypeOK /\ "cli" \in Proc /\ JobInv
    BY DEF StoreInv, Core, Proc
  <1>1. work'["cli"] = v /\ \A q \in Proc : q # "cli" => work'[q] = work[q]
    BY <1>0 DEF StoreTypeOK, Launched
  <1>2. JobInv' /\ job'["cli"] = j /\ \A q \in Proc : q # "cli" => job'[q] = job[q]
    BY <1>0, JobTypes DEF JobSet, Launched
  <1>3. Begun("cli", t)
    BY <1>2 DEF Begun, Launched
  <1>4. Plans' /\ KindInv' /\ plan'["cli"] = t /\ Kind' = Kind
    BY <1>0, <1>3, BegunFacts DEF Core
  <1>5. StoreTypeOK'
    <2>1. acked' \subseteq acked /\ whole' \in {{}, whole}
      OBVIOUS
    <2>. QED
      BY <1>0, <2>1, BeginTypes DEF Launched
  <1>6. FilesInv'
    <2>1. Vouched("cli", t, is)
      BY <1>1 DEF Vouched
    <2>2. Touching("cli")' \subseteq lost
      BY <1>0, <1>4, TouchingIs
    <2>3. clean' => ~Rekeying'
      <3>1. (Kind \in Changing <=> Rekeying) /\ (Kind' \in Changing <=> Rekeying')
        BY DEF Kind, Rekeying, Changing
      <3>. QED
        BY <1>4, <3>1
    <2>4. dir' = dir /\ at' = at
      BY DEF Launched
    <2>5. Other("cli") = "gui" /\ \A q \in Proc : q # "cli" => q = "gui"
      BY DEF Other, Proc
    <2>6. gain'["cli"] \subseteq is \ Touching(Other("cli"))
      BY <2>5
    <2>7. \A q \in Proc : q # "cli" => gain'[q] \subseteq gain[q] \ lost
      BY <2>5
    <2>8. clean' /\ <<"prompt">> \in Range(t) =>
               dir[0].key \in Key /\ work'["cli"].key = dir[0].key
      BY <1>1
    <2>. QED
      BY <1>0, <1>1, <1>3, <2>1, <2>2, <2>3, <2>4, <2>6, <2>7, <2>8, BegunFiles
  <1>. QED
    BY <1>2, <1>4, <1>5, <1>6, NoWhole DEF StoreInv, Core

\* The premises of CliBegins, as one fact.
CliMayBegin(v, j, t, is, lost) ==
    /\ Launched("cli", v, j, t) /\ app' \in [Proc -> Entry] /\ mem' = mem
    /\ gain' \in [Proc -> SUBSET Items] /\ acked' = acked \ lost /\ whole' = {}
    /\ gain'["cli"] \subseteq is \ Touching("gui")
    /\ gain'["gui"] \subseteq gain["gui"] \ lost
    /\ clean' \in BOOLEAN /\ (clean' => ~Rekeying) /\ (is = {} \/ clean')
    /\ is \in SUBSET Items /\ j.kind \in {"create", "unlock", "save"}
    /\ <<"prompt">> \notin Range(t)
    /\ \A s \in ItemStep, i \in Items : <<s, i>> \in Range(t) => i \in lost
    /\ \A i \in is :
          /\ dir[0].key \in Key /\ v.key = dir[0].key
          /\ <<"openItem", i>> \in Range(t)
          /\ {<<"removeItem", i>>, <<"forget", i>>, <<"openKey">>, <<"writeKey">>}
                \cap Range(t) = {}

LEMMA CliMayBeginBegins ==
    ASSUME StoreInv, NEW v, NEW j, NEW t, NEW is, NEW lost, CliMayBegin(v, j, t, is, lost)
    PROVE  StoreInv'
  BY CliBegins DEF CliMayBegin

LEMMA OfInitVault ==
    ASSUME StoreInv, NEW pw \in Passwords, InitVault(pw)
    PROVE  StoreInv'
  <1>. DEFINE t == CreateVaultKey \o StoreVault \o Done
              v == [Nil EXCEPT !.mod = clock + 1]
              j == [kind |-> "create", pw |-> pw, back |-> 0]
  <1>1. /\ Tick /\ work' = [work EXCEPT !["cli"] = v]
        /\ job' = [job EXCEPT !["cli"] = j] /\ plan' = [plan EXCEPT !["cli"] = t]
        /\ gain' = [q \in Proc |-> {}] /\ clean' = ~Rekeying /\ whole' = {} /\ acked' = acked
        /\ dir' = dir /\ state' = state /\ pwOf' = pwOf /\ keys' = keys /\ failures' = failures
        /\ mem' = mem /\ app' = app /\ st' = st /\ at' = at
    BY DEF InitVault, disk
  <1>2. /\ Block(t)
        /\ Range(t) = {<<"openKey">>, <<"writeKey">>, <<"done">>} \cup VaultSteps
    BY PlanOfCreation
  <1>3. v \in Vault
    BY <1>1, NilVault, TickTypes DEF Vault, Nil, StoreInv, Core
  <1>4. j \in JobSet /\ j.kind = "create"
    BY DEF Kinds, JobSet
  <1>. HIDE DEF t, v, j
  <1>5. <<"prompt">> \notin Range(t)
    BY <1>2, Names DEF VaultSteps, StepNames
  <1>6. \A s \in ItemStep, i \in Items : <<s, i>> \notin Range(t)
    BY <1>2, Names DEF VaultSteps, StepNames
  <1>7. {} \in SUBSET Items /\ Launched("cli", v, j, t)
    BY <1>1, <1>2, <1>3, <1>4 DEF Launched
  <1>8. /\ gain' \in [Proc -> SUBSET Items] /\ gain'["cli"] = {} /\ gain'["gui"] = {}
        /\ app' \in [Proc -> Entry] /\ clean' \in BOOLEAN
    BY <1>1 DEF StoreInv, Core, StoreTypeOK, Proc, Rekeying
  <1>9. acked' = acked \ {}
    BY <1>1
  <1>. QED
    BY <1>1, <1>4, <1>5, <1>6, <1>7, <1>8, <1>9, CliBegins

LEMMA OfLoadCommand ==
    ASSUME StoreInv, NEW pw \in Passwords, LoadCommand(pw)
    PROVE  StoreInv'
  <1>. DEFINE t == LoadVault \o << <<"prompt">> >>
              v == Opened(0)
              j == [kind |-> "unlock", pw |-> pw, back |-> 0]
  <1>1. /\ Tick /\ work' = [work EXCEPT !["cli"] = v] /\ Opens(0, pw)
        /\ job' = [job EXCEPT !["cli"] = j] /\ plan' = [plan EXCEPT !["cli"] = t]
        /\ Starts("cli", {}, {}) /\ clean' = ~Rekeying /\ app' = [app EXCEPT !["cli"] = state]
        /\ dir' = dir /\ state' = state /\ pwOf' = pwOf /\ keys' = keys /\ failures' = failures
        /\ mem' = mem /\ st' = st /\ at' = at
    BY DEF LoadCommand, disk
  <1>2. /\ Block(t)
        /\ Range(t) = {<<"loadSeen">>, <<"storeState">>, <<"writeState">>, <<"prompt">>}
    BY ShortPlans
  <1>3. v \in Vault /\ v.key \in Key /\ dir[0].key = v.key
    BY <1>1, OpenedVault, CoreTypes DEF StoreInv, Core
  <1>4. j \in JobSet /\ j.kind = "unlock"
    BY DEF Kinds, JobSet
  <1>. HIDE DEF t, v, j
  <1>6. \A s \in ItemStep, i \in Items : <<s, i>> \notin Range(t)
    BY <1>2, Names DEF StepNames
  <1>7. {} \in SUBSET Items /\ Launched("cli", v, j, t) /\ "cli" \in Proc /\ StoreTypeOK
    BY <1>1, <1>2, <1>3, <1>4 DEF Launched, Proc, StoreInv, Core
  <1>8. app' \in [Proc -> Entry] /\ clean' \in BOOLEAN
    BY <1>1, <1>7 DEF StoreTypeOK, Proc, Rekeying
  <1>9. /\ gain' \in [Proc -> SUBSET Items] /\ acked' = acked \ {} /\ whole' = {}
        /\ gain'["cli"] \subseteq {} \ Touching(Other("cli"))
        /\ \A q \in Proc : q # "cli" => gain'[q] \subseteq gain[q] \ {}
    BY <1>1, <1>7, StartsTypes
  <1>10. gain'["cli"] \subseteq {} \ Touching("gui") /\ gain'["gui"] \subseteq gain["gui"] \ {}
    BY <1>9 DEF Other, Proc
  <1>11. clean' => ~Rekeying
    BY <1>1
  <1>. QED
    BY <1>1, <1>2, <1>3, <1>4, <1>6, <1>7, <1>8, <1>9, <1>10, <1>11, CliBegins

\* A command goes on once the user has answered.
LEMMA AnswerBegins ==
    ASSUME StoreInv, NEW u \in Vault, u.key = work["cli"].key, NEW s,
           NEW is \in SUBSET Items, NEW i \in Items, Answered(u, s, is, {i}),
           NEW t, t = s \o StoreVault \o StoreAppState \o Done,
           Block(t), <<"prompt">> \notin Range(t),
           \A x \in ItemStep, y \in Items : <<x, y>> \in Range(t) => y = i,
           is = {} \/ /\ is = {i} /\ <<"openItem", i>> \in Range(t)
                      /\ {<<"removeItem", i>>, <<"forget", i>>, <<"openKey">>, <<"writeKey">>}
                           \cap Range(t) = {}
    PROVE  StoreInv'
  <1>. DEFINE v == [u EXCEPT !.mod = clock + 1]
              j == [job["cli"] EXCEPT !.kind = "save"]
              ks == IF clean THEN is ELSE {}
              lost == {i}
  <1>1. /\ At("cli", "prompt") /\ Tick /\ work' = [work EXCEPT !["cli"] = v]
        /\ plan' = [plan EXCEPT !["cli"] = t]
        /\ Starts("cli", ks, lost) /\ clean' = clean /\ app' = app
        /\ dir' = dir /\ state' = state /\ pwOf' = pwOf /\ keys' = keys /\ failures' = failures
        /\ mem' = mem /\ st' = st /\ at' = at
    BY DEF Answered, disk
  <1>2. job' = [job EXCEPT !["cli"] = j]
    BY DEF Answered
  <1>3. "cli" \in Proc /\ StoreTypeOK /\ JobInv /\ Plans /\ GainInv
    BY DEF Proc, StoreInv, Core, FilesInv
  <1>4. v \in Vault /\ v.key = work["cli"].key
    BY <1>1, <1>3, TickTypes DEF Vault
  <1>5. j \in JobSet /\ j.kind = "save"
    <2>1. "save" \in Kinds
      BY DEF Kinds
    <2>. QED
      BY <1>2, <1>3, <2>1, Rekinded
  <1>6. ks \in SUBSET Items /\ (ks = {} \/ ks = is) /\ (ks = {} \/ clean)
    OBVIOUS
  <1>7. Launched("cli", v, j, t)
    BY <1>1, <1>2, <1>4, <1>5 DEF Launched
  <1>8. app' \in [Proc -> Entry] /\ clean' \in BOOLEAN
    BY <1>1, <1>3 DEF StoreTypeOK
  <1>. HIDE DEF v, j, ks, lost
  <1>9. /\ gain' \in [Proc -> SUBSET Items] /\ acked' = acked \ lost /\ whole' = {}
        /\ gain'["cli"] \subseteq ks \ Touching(Other("cli"))
        /\ \A q \in Proc : q # "cli" => gain'[q] \subseteq gain[q] \ lost
    <2>1. ks \in SUBSET Items
      BY <1>6
    <2>2. Starts("cli", ks, lost) /\ "cli" \in Proc /\ StoreTypeOK
      BY <1>1, <1>3
    <2>. QED
      BY <2>1, <2>2, StartsTypes
  <1>10. gain'["cli"] \subseteq ks \ Touching("gui") /\ gain'["gui"] \subseteq gain["gui"] \ lost
    BY <1>9 DEF Other, Proc
  <1>11. clean' => ~Rekeying
    BY <1>1, <1>3 DEF GainInv
  <1>12. clean => dir[0].key \in Key /\ v.key = dir[0].key
    <2>1. <<"prompt">> \in Left("cli")
      BY <1>1, <1>3, TailLeft DEF At, Idle, Left, Plans
    <2>. QED
      BY <1>3, <1>4, <2>1 DEF GainInv
  <1>13. \A x \in ks :
               /\ dir[0].key \in Key /\ v.key = dir[0].key
               /\ <<"openItem", x>> \in Range(t)
               /\ {<<"removeItem", x>>, <<"forget", x>>, <<"openKey">>, <<"writeKey">>}
                     \cap Range(t) = {}
    BY <1>6, <1>12
  <1>14. \A x \in ItemStep, y \in Items : <<x, y>> \in Range(t) => y \in lost
    BY DEF lost
  <1>15. ks = {} \/ clean'
    BY <1>1, <1>6
  <1>16. mem' = mem /\ j.kind \in {"create", "unlock", "save"} /\ ks \in SUBSET Items
    BY <1>1, <1>5, <1>6
  <1>17. gain' \in [Proc -> SUBSET Items] /\ acked' = acked \ lost /\ whole' = {}
    BY <1>9
  <1>18. <<"prompt">> \notin Range(t)
    OBVIOUS
  <1>19. CliMayBegin(v, j, t, ks, lost)
    BY <1>7, <1>8, <1>10, <1>11, <1>13, <1>14, <1>15, <1>16, <1>17, <1>18 DEF CliMayBegin
  <1>. QED
    BY <1>19, CliMayBeginBegins

LEMMA OfStoring ==
    ASSUME StoreInv, NEW i \in Items,
           Answered([work["cli"] EXCEPT !.items = @ \cup {i}], StoreItem(i), {i}, {i})
    PROVE  StoreInv'
  <1>. DEFINE u == [work["cli"] EXCEPT !.items = @ \cup {i}]
              t == StoreItem(i) \o StoreVault \o StoreAppState \o Done
  <1>1. work["cli"] \in Vault
    BY DEF StoreInv, Core, StoreTypeOK, Proc
  <1>2. u \in Vault /\ u.key = work["cli"].key
    BY <1>1 DEF Vault
  <1>3. /\ Block(t)
        /\ Range(t) = {<<"openItem", i>>, <<"writeItem", i>>} \cup VaultSteps \cup StateSteps
    BY PlanOfAnswer
  <1>. HIDE DEF t
  <1>4. /\ <<"prompt">> \notin Range(t) /\ <<"openItem", i>> \in Range(t)
        /\ <<"openKey">> \notin Range(t) /\ <<"writeKey">> \notin Range(t)
        /\ <<"removeItem", i>> \notin Range(t) /\ <<"forget", i>> \notin Range(t)
    BY <1>3, Names DEF VaultSteps, StateSteps, StepNames
  <1>5. ASSUME NEW x \in ItemStep, NEW y \in Items, <<x, y>> \in Range(t) PROVE y = i
    BY <1>3, <1>5, Names DEF VaultSteps, StateSteps, StepNames
  <1>6. {i} \in SUBSET Items /\ t = StoreItem(i) \o StoreVault \o StoreAppState \o Done
    BY DEF t
  <1>7. {<<"removeItem", i>>, <<"forget", i>>, <<"openKey">>, <<"writeKey">>} \cap Range(t) = {}
    BY <1>4
  <1>. HIDE DEF u
  <1>8. Answered(u, StoreItem(i), {i}, {i})
    BY DEF u
  <1>9. \A x \in ItemStep, y \in Items : <<x, y>> \in Range(t) => y = i
    BY <1>5
  <1>10. {i} = {} \/ /\ {i} = {i} /\ <<"openItem", i>> \in Range(t)
                     /\ {<<"removeItem", i>>, <<"forget", i>>, <<"openKey">>, <<"writeKey">>}
                          \cap Range(t) = {}
    BY <1>4, <1>7
  <1>11. Block(t) /\ <<"prompt">> \notin Range(t)
    BY <1>3, <1>4
  <1>. QED
    BY <1>2, <1>6, <1>8, <1>9, <1>10, <1>11, AnswerBegins

LEMMA OfAddCmd == ASSUME StoreInv, NEW i \in Items, AddCmd(i) PROVE StoreInv'
  BY OfStoring DEF AddCmd

LEMMA OfEditCmd == ASSUME StoreInv, NEW i \in Items, EditCmd(i) PROVE StoreInv'
  BY OfStoring DEF EditCmd

LEMMA OfRemoveCmd ==
    ASSUME StoreInv, NEW i \in Items, RemoveCmd(i)
    PROVE  StoreInv'
  <1>. DEFINE u == [work["cli"] EXCEPT !.items = @ \ {i}]
              s == << <<"removeItem", i>> >>
              t == s \o StoreVault \o StoreAppState \o Done
  <1>1. work["cli"] \in Vault
    BY DEF StoreInv, Core, StoreTypeOK, Proc
  <1>2. u \in Vault /\ u.key = work["cli"].key
    BY <1>1 DEF Vault
  <1>3. Block(t) /\ Range(t) = {<<"removeItem", i>>} \cup VaultSteps \cup StateSteps
    BY PlanOfAnswer
  <1>6. Answered(u, s, {}, {i}) /\ {} \in SUBSET Items
    BY DEF RemoveCmd
  <1>7. t = s \o StoreVault \o StoreAppState \o Done
    OBVIOUS
  <1>. HIDE DEF t, s, u
  <1>4. <<"prompt">> \notin Range(t)
    BY <1>3, Names DEF VaultSteps, StateSteps, StepNames
  <1>5. ASSUME NEW x \in ItemStep, NEW y \in Items, <<x, y>> \in Range(t) PROVE y = i
    BY <1>3, <1>5, Names DEF VaultSteps, StateSteps, StepNames
  <1>. QED
    BY <1>2, <1>3, <1>4, <1>5, <1>6, <1>7, AnswerBegins

\* While the command line runs no vault is vouched for as a whole.
LEMMA CliWhole == ASSUME WholeFree, ~Idle("cli"), whole' = whole PROVE WholeFree'
  BY NoWhole DEF WholeFree, WholeInv

LEMMA OtherIdle ==
    ASSUME Plans, ~Idle("gui"), Advance("gui"), Idle("cli")
    PROVE  Idle("cli")'
  BY Advanced DEF Idle, Proc

LEMMA SameWhole ==
    ASSUME dir' = dir, whole' = whole
    PROVE  /\ \A n : HasWhole(n)' = HasWhole(n)
           /\ (\E n \in DOMAIN dir : HasWhole(n)) => \E n \in DOMAIN dir' : HasWhole(n)'
           /\ state' = state => \A n : Aside(n)' = Aside(n) /\ Named(n)' = Named(n)
  <1>1. \A n : HasWhole(n)' = HasWhole(n)
    BY DEF HasWhole, Whole
  <1>2. state' = state => \A n : Named(n)' = Named(n)
    BY DEF Named, catalogueVaultVersion
  <1>. QED
    BY <1>1, <1>2 DEF Aside

\* WholeInv, read and written for each kind of operation.
LEMMA WholeNow ==
    ASSUME Idle("cli")', \E n \in DOMAIN dir' : HasWhole(n)',
           \/ Kind' = "idle" /\ (mem' = Nil \/ HasWhole(0)' \/ \E n \in Backup : Aside(n)')
           \/ Kind' = "none" /\ mem' = Nil
           \/ /\ Kind' = "rekeyStart" /\ Named(job.gui.back)'
              /\ HasWhole(0)' \/ \E n \in Backup : Aside(n)'
              /\ \A i \in work'["gui"].items : (<<"openItem", i>> \in Left("gui"))'
           \/ /\ Kind' = "rekey" /\ (Ahead' > 5 => Named(job.gui.back)')
              /\ \/ HasWhole(job.gui.back)'
                 \/ state' = Cut /\ Ahead' > 7 /\ \E n \in Backup : HasWhole(n)'
           \/ Kind' = "rekeyed" /\ (Ahead' < 4 => HasWhole(0)')
           \/ /\ Kind' = "restore"
              /\ \/ HasWhole(0)' /\ ~At("gui", "clearActive")'
                 \/ \E n \in Backup : Aside(n)'
    PROVE  WholeInv'
  BY DEF WholeInv

\* usm.json is read, cut or written by the desktop application.
LEMMA StateStepWhole ==
    ASSUME Core, WholeFree, Silent("gui"), job' = job, work' = work, mem' = mem, whole' = whole,
           Kind' \in {Kind, "idle"}, Kind' = "idle" <=> Idle("gui")',
           \/ At("gui", "loadState") /\ state # Cut /\ state' = state
           \/ At("gui", "loadSeen")
           \/ (At("gui", "storeState") \/ At("gui", "storeApp")) /\ state' = Cut
           \/ At("gui", "writeState")
    PROVE  WholeFree'
  <1>1. SUFFICES ASSUME whole # {} PROVE WholeFree'
    BY NoWhole
  <1>2. /\ Idle("cli") /\ \E n \in DOMAIN dir : HasWhole(n)
        /\ Kind \in {"idle", "none", "rekeyStart", "rekey", "rekeyed", "restore"}
        /\ Kind = "none" => mem = Nil
        /\ Kind = "rekey" => /\ Ahead > 5 => Named(job.gui.back)
                             /\ \/ HasWhole(job.gui.back)
                                \/ state = Cut /\ Ahead > 7 /\ \E n \in Backup : HasWhole(n)
        /\ Kind = "rekeyed" /\ Ahead < 4 => HasWhole(0)
    BY <1>1 DEF WholeFree, WholeInv
  <1>3. /\ \A n : HasWhole(n)' = HasWhole(n)
        /\ \E n \in DOMAIN dir' : HasWhole(n)'
        /\ state' = state => \A n : Named(n)' = Named(n)
    BY <1>2, SameWhole DEF Silent
  <1>4. Plans /\ KindInv /\ ~Idle("gui") /\ Advance("gui") /\ "gui" \in Proc /\ dir' = dir
    BY DEF Core, Silent, Proc
  <1>5. Idle("cli")'
    BY <1>2, <1>4, OtherIdle
  <1>6. Ahead \in Nat /\ Ahead' = Ahead - 1
    BY <1>4, Advanced DEF Ahead
  <1>7. Kind # "idle"
    BY <1>4 DEF Core, JobInv, Kinds, Kind, Proc
  <1>8. CASE Kind \notin Changing
    <2>1. Kind = "none" /\ mem' = Nil
      BY <1>2, <1>7, <1>8 DEF Changing
    <2>2. Kind' \in {"idle", "none"}
      BY <2>1
    <2>3. WholeInv'
      BY <1>3, <1>5, <2>1, <2>2, WholeNow
    <2>4. ~Rebuilding'
      BY <2>2 DEF Rebuilding
    <2>. QED
      BY <2>3, <2>4 DEF WholeFree, BuildInv
  <1>9. CASE Kind \in Changing
    <2>1. /\ At("gui", "loadState") => Kind = "rekey" /\ Ahead = 8
          /\ At("gui", "storeState") => Kind = "rekey" /\ Ahead = 7
          /\ At("gui", "writeState") => (Kind = "rekey" /\ Ahead = 6) \/ (Kind = "rekeyed" /\ Ahead = 2)
          /\ At("gui", "storeApp") => Kind = "rekeyed" /\ Ahead = 3
          /\ ~At("gui", "loadSeen")
      BY <1>4, <1>9, ChangeHeads
    <2>2. CASE Kind = "rekeyed"
      <3>1. HasWhole(0)' /\ Ahead' < 4
        BY <1>2, <1>3, <1>6, <2>1, <2>2
      <3>2. Kind' \in {"idle", "rekeyed"}
        BY <2>2
      <3>3. WholeInv'
        BY <1>3, <1>5, <3>1, <3>2, WholeNow
      <3>4. ~(Ahead' > 3)
        BY <1>6, <2>1, <2>2
      <3>5. ~Rebuilding'
        BY <3>4 DEF Rebuilding
      <3>. QED
        BY <3>3, <3>5 DEF WholeFree, BuildInv
    <2>3. CASE Kind = "rekey"
      <3>1. Kind' = "rekey"
        <4>1. Ahead' # 0
          BY <1>6, <2>1, <2>3
        <4>2. ~Idle("gui")'
          BY <4>1, EmptySeq DEF Idle, Ahead
        <4>. QED
          BY <2>3, <4>2
      <3>2. HasWhole(job.gui.back)
        BY <1>2, <2>1, <2>3
      <3>3. Ahead' > 5 => Named(job.gui.back)'
        <4>1. CASE At("gui", "loadState")
          BY <1>2, <1>3, <2>1, <2>3, <4>1
        <4>2. CASE At("gui", "storeState")
          BY <2>1, <2>3, <4>2 DEF Named
        <4>3. CASE At("gui", "writeState")
          <5>1. Ahead' = 5
            BY <1>6, <2>1, <2>3, <4>3
          <5>. QED
            BY <5>1
        <4>. QED
          BY <2>1, <2>3, <4>1, <4>2, <4>3
      <3>4. HasWhole(job.gui.back)'
        BY <1>3, <3>2
      <3>5. WholeInv'
        BY <1>3, <1>5, <3>1, <3>3, <3>4, WholeNow
      <3>6. Rebuilding /\ Ahead < 9 /\ Ahead' < 9 /\ Ahead' # 9
        BY <1>6, <2>1, <2>3 DEF Rebuilding
      <3>7. /\ \A i \in work["gui"].items : Progress("gui", i)
            /\ dir[0].vault.k = work["gui"].key /\ dir[0].vault.items = work["gui"].items
        BY <1>1, <3>6 DEF WholeFree, BuildInv
      <3>8. work["gui"].items \subseteq Items
        BY <1>4 DEF Core, StoreTypeOK, Vault
      <3>9. \A i \in work'["gui"].items : Progress("gui", i)'
        BY <1>4, <3>7, <3>8, ProgressKept DEF Silent
      <3>. QED
        BY <1>4, <3>5, <3>6, <3>7, <3>9 DEF WholeFree, BuildInv
    <2>. QED
      BY <2>1, <2>2, <2>3
  <1>. QED
    BY <1>8, <1>9

\* A step of an operation that goes on.
LEMMA StepKinds ==
    ASSUME Core, NEW p \in Proc, ~Idle(p), Advance(p), job' = job,
           p = "gui" => ~At(p, "moveAside") /\ ~At(p, "dropOlder")
    PROVE  /\ Plans' /\ KindInv' /\ JobInv'
           /\ p = "cli" => Kind' = Kind /\ plan'["gui"] = plan["gui"]
           /\ p = "gui" => /\ Kind' \in {Kind, "idle"} /\ (Kind' = "idle" <=> Idle("gui")')
                           /\ plan'["cli"] = plan["cli"]
  <1>1. /\ Plans' /\ Range(plan'[p]) \subseteq Range(plan[p])
        /\ \A q \in Proc : q # p => plan'[q] = plan[q]
    BY Advanced DEF Core
  <1>2. JobInv'
    BY DEF Core, JobInv
  <1>3. CASE p = "cli"
    <2>1. plan'["gui"] = plan["gui"]
      BY <1>1, <1>3 DEF Proc
    <2>2. <<"prompt">> \in Range(plan'["cli"]) => Range(plan'["cli"]) \subseteq
               {<<"loadSeen">>, <<"storeState">>, <<"writeState">>, <<"prompt">>}
      BY <1>1, <1>3, KindInvWas DEF Core
    <2>3. job'["cli"].kind \in {"none", "create", "unlock", "save"}
      BY KindInvWas DEF Core
    <2>. QED
      BY <1>1, <1>2, <1>3, <2>1, <2>2, <2>3, KindOfCli DEF Core
  <1>4. CASE p = "gui"
    BY <1>1, <1>2, <1>4, KindOfStep DEF Core, Proc
  <1>. QED
    BY <1>3, <1>4 DEF Proc

\* A step that leaves the files of the vault alone.
LEMMA SilentWhen ==
    ASSUME Core, NEW p \in Proc, NEW s \in {"loadState", "loadSeen", "storeState", "storeApp",
                                            "writeState", "recolour", "adopt", "clearActive"},
           At(p, s), Advance(p), job' = job, dir' = dir, at' = at,
           acked' = acked, gain' = gain, clean' = clean,
           \A q \in Proc : work'[q].key = work[q].key
    PROVE  Silent(p) /\ Plans' /\ KindInv' /\ JobInv'
           /\ (p = "gui" => Kind' \in {Kind, "idle"})
           /\ (Kind' = "idle" => Idle("gui")')
           /\ (p = "gui" => (Kind' = "idle" <=> Idle("gui")'))
  <1>1. ~Idle(p)
    BY DEF At
  <1>2. /\ \A u \in {"openKey", "writeKey", "openVault", "writeVault", "moveAside", "dropOlder"} :
              ~At(p, u)
        /\ \A i \in Items : ~AtItem(p, "openItem", i) /\ ~AtItem(p, "writeItem", i)
    BY OneStep
  <1>3. /\ Plans' /\ KindInv' /\ JobInv'
        /\ p = "cli" => Kind' = Kind /\ plan'["gui"] = plan["gui"]
        /\ p = "gui" => Kind' \in {Kind, "idle"} /\ (Kind' = "idle" <=> Idle("gui")')
    BY <1>1, <1>2, StepKinds
  <1>4. Silent(p)
    BY <1>1, <1>2, <1>3 DEF Silent, Proc
  <1>5. Kind' = "idle" => Idle("gui")'
    <2>1. CASE p = "cli"
      <3>1. Kind = "idle" => plan["gui"] = <<>>
        BY DEF Core, JobInv, Kinds, Kind, Idle, Proc
      <3>. QED
        BY <1>3, <2>1, <3>1 DEF Idle
    <2>2. CASE p = "gui"
      BY <1>3, <2>2
    <2>. QED
      BY <2>1, <2>2 DEF Proc
  <1>. QED
    BY <1>3, <1>4, <1>5

LEMMA EntryTypes ==
    /\ \A e \in Entry, v \in Vault : UpdateVaultCatalogue(e, v) \in Entry
    /\ \A e, f \in Entry : mergeCatalogueEntries(e, f) \in Entry
  <1>1. ASSUME NEW e \in Entry, NEW v \in Vault PROVE UpdateVaultCatalogue(e, v) \in Entry
    <2>1. e.version \in Nat \cup {-1} /\ e.seen \in Nat /\ v.mod \in Nat
      BY <1>1 DEF Entry, Vault
    <2>2. e.version + 1 \in Nat
      BY <2>1
    <2>. QED
      BY <2>1, <2>2 DEF UpdateVaultCatalogue, Entry
  <1>. QED
    BY <1>1 DEF mergeCatalogueEntries

LEMMA OfLoadState ==
    ASSUME StoreInv, NEW p \in Proc, LoadState(p)
    PROVE  StoreInv'
  <1>0. Core /\ FilesInv /\ StoreTypeOK /\ DirT /\ AtT /\ StateT /\ CountT /\ MemT /\ HistT
    BY Types DEF StoreInv, Core
  <1>1. PICK s \in {"loadState", "loadSeen"} : At(p, s)
    BY DEF LoadState
  <1>2. /\ state # Cut /\ Advance(p) /\ dir' = dir /\ state' = state /\ at' = at
        /\ pwOf' = pwOf /\ keys' = keys /\ clock' = clock /\ failures' = failures
        /\ mem' = mem /\ app' = app /\ work' = work /\ job' = job
        /\ acked' = acked /\ gain' = gain /\ clean' = clean /\ whole' = whole
    BY DEF LoadState, disk, hist
  <1>3. /\ Silent(p) /\ Plans' /\ KindInv' /\ JobInv' /\ (Kind' = "idle" => Idle("gui")')
        /\ p = "gui" => Kind' \in {Kind, "idle"} /\ (Kind' = "idle" <=> Idle("gui")')
    BY <1>0, <1>1, <1>2, SilentWhen
  <1>4. FilesInv'
    BY <1>0, <1>3, SilentFiles
  <1>5. st' \in [Proc -> Entry]
    <2>1. state \in Entry /\ work[p] \in Vault /\ clock \in Nat
      BY <1>0 DEF StateT, MemT, CountT
    <2>. DEFINE e == UpdateVaultCatalogue(state, work[p])
    <2>2. e \in Entry
      BY <2>1, EntryTypes
    <2>. HIDE DEF e
    <2>3. [e EXCEPT !.seen = clock] \in Entry
      BY <2>1, <2>2 DEF Entry
    <2>4. st' = [st EXCEPT ![p] = IF At(p, "loadSeen") THEN [e EXCEPT !.seen = clock] ELSE e]
      BY DEF LoadState, e
    <2>. QED
      BY <1>0, <2>2, <2>3, <2>4 DEF StateT
  <1>6. StoreTypeOK'
    <2>1. StateT'
      BY <1>0, <1>2, <1>5 DEF StateT
    <2>2. CountT'
      BY <1>0, <1>2 DEF CountT
    <2>. QED
      BY <1>0, <1>2, <2>1, <2>2, SameDir, SameAt, SameMem, SameHist, TypesNext
  <1>7. WholeFree'
    <2>1. CASE p = "cli"
      BY <1>1, <1>2, <2>1, CliWhole DEF StoreInv, At
    <2>2. CASE p = "gui"
      <3>1. At("gui", "loadState") \/ At("gui", "loadSeen")
        BY <1>1, <2>2
      <3>. QED
        BY <1>0, <1>2, <1>3, <2>2, <3>1, StateStepWhole DEF StoreInv
    <2>. QED
      BY <2>1, <2>2 DEF Proc
  <1>. QED
    BY <1>3, <1>4, <1>6, <1>7 DEF StoreInv, Core

LEMMA OfStoreState ==
    ASSUME StoreInv, NEW p \in Proc, StoreState(p)
    PROVE  StoreInv'
  <1>0. Core /\ FilesInv /\ StoreTypeOK /\ DirT /\ AtT /\ StateT /\ CountT /\ MemT /\ HistT
    BY Types DEF StoreInv, Core
  <1>1. PICK s \in {"storeState", "storeApp"} : At(p, s)
    BY DEF StoreState
  <1>2. /\ state # Cut /\ Advance(p) /\ dir' = dir /\ state' = Cut /\ at' = at
        /\ pwOf' = pwOf /\ keys' = keys /\ clock' = clock /\ failures' = failures
        /\ mem' = mem /\ work' = work /\ job' = job
        /\ acked' = acked /\ gain' = gain /\ clean' = clean /\ whole' = whole
    BY DEF StoreState, hist
  <1>3. /\ Silent(p) /\ Plans' /\ KindInv' /\ JobInv' /\ (Kind' = "idle" => Idle("gui")')
        /\ p = "gui" => Kind' \in {Kind, "idle"} /\ (Kind' = "idle" <=> Idle("gui")')
    BY <1>0, <1>1, <1>2, SilentWhen
  <1>4. FilesInv'
    BY <1>0, <1>3, SilentFiles
  <1>5. st' \in [Proc -> Entry] /\ app' \in [Proc -> Entry] /\ state' \in Entry
    <2>. DEFINE e == mergeCatalogueEntries(state, IF At(p, "storeApp") THEN app[p] ELSE st[p])
    <2>1. e \in Entry
      BY <1>0, EntryTypes DEF StateT
    <2>. HIDE DEF e
    <2>2. st' = [st EXCEPT ![p] = e] /\ app' = IF At(p, "storeApp") THEN [app EXCEPT ![p] = e] ELSE app
      BY DEF StoreState, e
    <2>3. Cut \in Entry
      BY DEF Cut, NoEntry, Entry
    <2>. QED
      BY <1>0, <1>2, <2>1, <2>2, <2>3 DEF StateT
  <1>6. StoreTypeOK'
    <2>1. StateT'
      BY <1>5 DEF StateT
    <2>2. CountT'
      BY <1>0, <1>2 DEF CountT
    <2>. QED
      BY <1>0, <1>2, <2>1, <2>2, SameDir, SameAt, SameMem, SameHist, TypesNext
  <1>7. WholeFree'
    <2>1. CASE p = "cli"
      BY <1>1, <1>2, <2>1, CliWhole DEF StoreInv, At
    <2>2. CASE p = "gui"
      <3>1. At("gui", "storeState") \/ At("gui", "storeApp")
        BY <1>1, <2>2
      <3>. QED
        BY <1>0, <1>2, <1>3, <2>2, <3>1, StateStepWhole DEF StoreInv
    <2>. QED
      BY <2>1, <2>2 DEF Proc
  <1>. QED
    BY <1>3, <1>4, <1>6, <1>7 DEF StoreInv, Core

LEMMA OfWriteState ==
    ASSUME StoreInv, NEW p \in Proc, WriteState(p)
    PROVE  StoreInv'
  <1>0. Core /\ FilesInv /\ StoreTypeOK /\ DirT /\ AtT /\ StateT /\ CountT /\ MemT /\ HistT
    BY Types DEF StoreInv, Core
  <1>1. At(p, "writeState")
    BY DEF WriteState
  <1>2. /\ Advance(p) /\ dir' = dir /\ state' = st[p] /\ at' = at
        /\ pwOf' = pwOf /\ keys' = keys /\ clock' = clock /\ failures' = failures
        /\ mem' = mem /\ work' = work /\ job' = job /\ app' = app /\ st' = st
        /\ acked' = acked /\ gain' = gain /\ clean' = clean /\ whole' = whole
    BY DEF WriteState, hist
  <1>3. /\ Silent(p) /\ Plans' /\ KindInv' /\ JobInv' /\ (Kind' = "idle" => Idle("gui")')
        /\ p = "gui" => Kind' \in {Kind, "idle"} /\ (Kind' = "idle" <=> Idle("gui")')
    BY <1>0, <1>1, <1>2, SilentWhen
  <1>4. FilesInv'
    BY <1>0, <1>3, SilentFiles
  <1>5. StoreTypeOK'
    <2>1. StateT'
      BY <1>0, <1>2 DEF StateT
    <2>2. CountT'
      BY <1>0, <1>2 DEF CountT
    <2>. QED
      BY <1>0, <1>2, <2>1, <2>2, SameDir, SameAt, SameMem, SameHist, TypesNext
  <1>6. WholeFree'
    <2>1. CASE p = "cli"
      BY <1>1, <1>2, <2>1, CliWhole DEF StoreInv, At
    <2>2. CASE p = "gui"
      BY <1>0, <1>1, <1>2, <1>3, <2>2, StateStepWhole DEF StoreInv
    <2>. QED
      BY <2>1, <2>2 DEF Proc
  <1>. QED
    BY <1>3, <1>4, <1>5, <1>6 DEF StoreInv, Core

LEMMA OfRecolour ==
    ASSUME StoreInv, Recolour
    PROVE  StoreInv'
  <1>0. /\ Core /\ FilesInv /\ StoreTypeOK /\ DirT /\ AtT /\ StateT /\ CountT /\ MemT /\ HistT
        /\ "gui" \in Proc
    BY Types DEF StoreInv, Core, Proc
  <1>1. /\ At("gui", "recolour") /\ Tick
        /\ work' = [work EXCEPT !["gui"] = [work["gui"] EXCEPT !.mod = clock + 1]]
        /\ Advance("gui") /\ dir' = dir /\ state' = state /\ at' = at
        /\ pwOf' = pwOf /\ keys' = keys /\ failures' = failures
        /\ mem' = mem /\ job' = job /\ app' = app /\ st' = st
        /\ acked' = acked /\ gain' = gain /\ clean' = clean /\ whole' = whole
    BY DEF Recolour, disk, hist
  <1>2. work["gui"] \in Vault /\ clock + 1 \in Nat
    BY <1>0, <1>1, TickTypes DEF MemT
  <1>. DEFINE v == [work["gui"] EXCEPT !.mod = clock + 1]
  <1>3. v \in Vault /\ v.key = work["gui"].key
    BY <1>2 DEF Vault
  <1>. HIDE DEF v
  <1>4. work' \in [Proc -> Vault] /\ \A q \in Proc : work'[q].key = work[q].key
    BY <1>0, <1>1, <1>3 DEF MemT, v
  <1>5. /\ Silent("gui") /\ Plans' /\ KindInv' /\ JobInv' /\ (Kind' = "idle" => Idle("gui")')
    BY <1>0, <1>1, <1>4, SilentWhen
  <1>6. FilesInv'
    BY <1>0, <1>5, SilentFiles
  <1>7. StoreTypeOK'
    <2>1. CountT'
      BY <1>0, <1>1, TickTypes, SameCount
    <2>2. MemT'
      BY <1>0, <1>1, <1>4 DEF MemT
    <2>. QED
      BY <1>0, <1>1, <2>1, <2>2, SameDir, SameAt, SameState, SameHist, TypesNext
  <1>8. whole = {}
    <2>1. Kind \notin Changing
      BY <1>0, <1>1, ChangeHeads DEF Core
    <2>2. Kind # "none"
      <3>1. Kind = "none" => \A s, i : At("gui", s) => s \in {"storeApp", "storeState",
                                                               "writeState", "done"}
        BY <1>0, <2>1, OtherHeads DEF Core
      <3>2. Kind = "none" => "recolour" \in {"storeApp", "storeState", "writeState", "done"}
        BY <1>1, <3>1
      <3>. QED
        BY <3>2
    <2>3. Kind # "idle"
      BY <1>0, <1>1 DEF At, Kind, Core, JobInv, Kinds
    <2>. QED
      BY <2>1, <2>2, <2>3 DEF StoreInv, WholeFree, WholeInv, Changing
  <1>. QED
    BY <1>1, <1>5, <1>6, <1>7, <1>8, NoWhole DEF StoreInv, Core

LEMMA OfAdopt ==
    ASSUME StoreInv, Adopt
    PROVE  StoreInv'
  <1>0. /\ Core /\ FilesInv /\ StoreTypeOK /\ DirT /\ AtT /\ StateT /\ CountT /\ MemT /\ HistT
        /\ "gui" \in Proc /\ Plans /\ KindInv /\ JobInv
    BY Types DEF StoreInv, Core, Proc
  <1>1. /\ At("gui", "adopt") /\ Advance("gui") /\ mem' = work["gui"]
        /\ app' = [app EXCEPT !["gui"] = UpdateVaultCatalogue(app["gui"], work["gui"])]
        /\ whole' = IF Whole(dir[0]) /\ Idle("cli") THEN dir[0].vault.items ELSE whole
        /\ dir' = dir /\ state' = state /\ at' = at
        /\ pwOf' = pwOf /\ keys' = keys /\ failures' = failures /\ clock' = clock
        /\ work' = work /\ job' = job /\ st' = st
        /\ acked' = acked /\ gain' = gain /\ clean' = clean
    BY DEF Adopt, disk
  <1>2. /\ Silent("gui") /\ Plans' /\ KindInv' /\ JobInv'
        /\ Kind' \in {Kind, "idle"} /\ (Kind' = "idle" <=> Idle("gui")')
    BY <1>0, <1>1, SilentWhen
  <1>3. FilesInv'
    BY <1>0, <1>2, SilentFiles
  <1>4. ~Idle("gui") /\ Kind = "rekeyed" /\ Ahead = 4 /\ Ahead \in Nat
    <2>1. Kind \in Changing
      BY <1>0, <1>1, OtherHeads
    <2>. QED
      BY <1>0, <1>1, <2>1, ChangeHeads
  <1>5. Rebuilding
    BY <1>4 DEF Rebuilding
  <1>6. Ahead' = 3
    <2>1. Ahead' = Ahead - 1
      BY <1>0, <1>1, <1>4, Advanced DEF Ahead
    <2>. QED
      BY <1>4, <2>1
  <1>7. /\ <<"openKey">> \notin Left("gui")
        /\ \A i : <<"openItem", i>> \notin Left("gui")
    <2>1. Closes(plan["gui"]) /\ plan["gui"] \in Seq(StepSet)
      BY <1>0, <1>4, KindInvWas DEF Plans
    <2>2. Len(plan["gui"]) <= 10
      <3>1. Len(plan["gui"]) = 4
        BY <1>4 DEF Ahead
      <3>. QED
        BY <3>1
    <2>3. Range(plan["gui"]) \subseteq
              {<<"openVault">>, <<"writeVault">>, <<"loadState">>, <<"storeState">>,
               <<"writeState">>, <<"dropOlder">>, <<"adopt">>, <<"storeApp">>, <<"done">>}
      BY <2>1, <2>2, ClosesRange
    <2>. QED
      BY <2>3, Names DEF StepNames, Left
  <1>8. dir[0].key \in Key /\ work["gui"].key = dir[0].key
    <2>1. <<"openKey">> \notin Left("gui")
      BY <1>7
    <2>2. ~At("gui", "writeKey")
      BY <1>0, <1>1, OneStep
    <2>. QED
      BY <1>0, <1>5, <2>1, <2>2 DEF FilesInv, RebuildInv
  <1>9. dir[0] \in DirSet /\ work["gui"] \in Vault
    BY <1>0, CoreTypes DEF MemT
  <1>10. StoreTypeOK'
    <2>1. app' \in [Proc -> Entry]
      BY <1>0, <1>1, <1>9, EntryTypes DEF StateT
    <2>2. StateT'
      BY <1>0, <1>1, <2>1 DEF StateT
    <2>3. CountT'
      BY <1>0, <1>1 DEF CountT
    <2>4. MemT'
      BY <1>0, <1>1, <1>8, <1>9 DEF MemT
    <2>5. dir[0].vault.items \subseteq Items
      BY <1>9 DEF DirSet
    <2>6. HistT'
      BY <1>0, <1>1, <2>5 DEF HistT
    <2>. QED
      BY <1>0, <1>1, <2>2, <2>3, <2>4, <2>6, SameDir, SameAt, TypesNext
  <1>11. ASSUME whole # {} PROVE Whole(dir[0]) /\ Idle("cli")
    <2>1. /\ \A i \in work["gui"].items : Progress("gui", i)
          /\ dir[0].vault.k = work["gui"].key /\ dir[0].vault.items = work["gui"].items
      <3>1. Ahead < 9
        BY <1>4
      <3>. QED
        BY <1>5, <1>11, <3>1 DEF StoreInv, WholeFree, BuildInv
    <2>2. ASSUME NEW i \in dir[0].vault.items PROVE dir[0].item[i] = dir[0].key
      <3>1. i \in Items /\ Progress("gui", i)
        BY <1>9, <2>1, <2>2 DEF Vault
      <3>2. <<"openItem", i>> \notin Left("gui")
        BY <1>7
      <3>3. ~AtItem("gui", "writeItem", i)
        BY <1>0, <1>1, OneStep
      <3>. QED
        BY <1>8, <3>1, <3>2, <3>3 DEF Progress
    <2>3. dir[0].there
      BY <1>0, <1>8 DEF FilesInv, KeyInv, DirT, None, Key
    <2>4. Idle("cli")
      BY <1>11 DEF StoreInv, WholeFree, WholeInv
    <2>. QED
      BY <1>8, <2>1, <2>2, <2>3, <2>4 DEF Whole
  <1>12. WholeFree'
    <2>1. SUFFICES ASSUME whole' # {} PROVE WholeFree'
      BY NoWhole
    <2>2. Whole(dir[0]) /\ Idle("cli") /\ whole' = dir[0].vault.items
      BY <1>1, <1>11, <2>1
    <2>3. HasWhole(0)' /\ 0 \in DOMAIN dir'
      BY <1>0, <1>1, <2>2 DEF HasWhole, Whole, DirT
    <2>4. Idle("cli")'
      BY <1>0, <1>1, <1>4, <2>2, OtherIdle
    <2>5. Kind' \in {"idle", "rekeyed"}
      BY <1>2, <1>4
    <2>6. WholeInv'
      BY <2>3, <2>4, <2>5, WholeNow
    <2>7. ~Rebuilding'
      BY <1>6 DEF Rebuilding
    <2>. QED
      BY <2>6, <2>7 DEF WholeFree, BuildInv
  <1>. QED
    BY <1>2, <1>3, <1>10, <1>12 DEF StoreInv, Core

\* The window's operation stops; where the last complete vault is does not change.
LEMMA StoppedWhole ==
    ASSUME StoreInv, NEW t, NEW k, Stopped("gui", t, k), ~Idle("gui") \/ mem' = Nil,
           dir' = dir, state' = state, whole' = whole,
           \/ mem' = Nil /\ k = "none"
           \/ /\ mem' = mem /\ ~At("gui", "dropOlder") /\ ~At("gui", "adopt")
              /\ Kind # "rekey" => t = <<>> \/ Kind = "drop"
              /\ Kind = "rekey" => t = restoreBackup /\ k = "restore"
    PROVE  WholeFree'
  <1>0. Core /\ Plans /\ KindInv /\ JobInv /\ WholeInv
    BY DEF StoreInv, Core, WholeFree
  <1>1. SUFFICES ASSUME whole # {} PROVE WholeFree'
    BY NoWhole
  <1>2. /\ Idle("cli") /\ \E n \in DOMAIN dir : HasWhole(n)
        /\ Kind \in {"idle", "none", "rekeyStart", "rekey", "rekeyed", "restore"}
        /\ Kind = "idle" => mem = Nil \/ HasWhole(0) \/ \E n \in Backup : Aside(n)
        /\ Kind = "none" => mem = Nil
        /\ Kind = "rekeyStart" => HasWhole(0) \/ \E n \in Backup : Aside(n)
        /\ Kind = "rekey" => /\ Ahead > 5 => Named(job.gui.back)
                             /\ \/ HasWhole(job.gui.back)
                                \/ state = Cut /\ \E n \in Backup : HasWhole(n)
        /\ Kind = "rekeyed" /\ Ahead < 4 => HasWhole(0)
        /\ Kind = "restore" => HasWhole(0) \/ \E n \in Backup : Aside(n)
    BY <1>0, <1>1 DEF WholeInv
  <1>3. /\ \A n : HasWhole(n)' = HasWhole(n)
        /\ \E n \in DOMAIN dir' : HasWhole(n)'
        /\ \A n : Aside(n)' = Aside(n)
    BY <1>2, SameWhole
  <1>4. /\ plan'["gui"] = t /\ plan'["cli"] = plan["cli"]
        /\ Kind' = "idle" \/ Kind' = "none" \/ (Kind = "rekey" /\ Kind' = "restore")
    BY <1>0, StoppedFacts DEF Proc
  <1>5. Idle("cli")'
    BY <1>2, <1>4 DEF Idle
  <1>6. ~Rebuilding'
    BY <1>4 DEF Rebuilding
  <1>7. WholeInv'
    <2>1. CASE mem' = Nil /\ k = "none"
      <3>1. Kind' = "idle" \/ Kind' = "none"
        <4>1. Kind' = "idle" \/ Kind' = job'["gui"].kind
          BY DEF Kind
        <4>2. job'["gui"].kind = "none"
          BY <1>0, <2>1 DEF Stopped, JobInv, Proc
        <4>. QED
          BY <4>1, <4>2
      <3>. QED
        BY <1>3, <1>5, <2>1, <3>1, WholeNow
    <2>2. CASE /\ mem' = mem /\ ~At("gui", "dropOlder") /\ ~At("gui", "adopt")
               /\ Kind # "rekey" => t = <<>> \/ Kind = "drop"
               /\ Kind = "rekey" => t = restoreBackup /\ k = "restore"
      <3>1. CASE Kind = "rekey"
        <4>1. Ahead > 5
          <5>1. Ahead \in Nat /\ Ahead > 4
            BY <1>0, <3>1, ChangeHeads, KindInvWas DEF Changing, Ahead
          <5>2. Ahead # 5
            <6>1. /\ plan["gui"] \in Seq(StepSet) /\ plan["gui"] # <<>> /\ Closes(plan["gui"])
              BY <1>0, <3>1, KindInvWas DEF Plans, Proc
            <6>2. Len(plan["gui"]) = 5 => Head(plan["gui"]) = <<"dropOlder">>
              BY <6>1, ClosesFacts
            <6>. QED
              BY <2>2, <6>1, <6>2 DEF Ahead, At, Idle
          <5>. QED
            BY <5>1, <5>2
        <4>2. \E n \in Backup : Aside(n)
          <5>1. job.gui.back \in Backup
            BY <1>0, <3>1, KindInvWas DEF Changing
          <5>. QED
            BY <1>2, <3>1, <4>1, <5>1 DEF Aside, Named
        <4>3. Kind' = "restore"
          <5>1. t # <<>>
            BY <2>2, <3>1 DEF restoreBackup
          <5>2. job'["gui"].kind = "restore"
            BY <1>0, <2>2, <3>1 DEF Stopped, JobInv, Proc
          <5>. QED
            BY <1>4, <5>1, <5>2 DEF Kind, Idle
        <4>. QED
          BY <1>3, <1>5, <4>2, <4>3, WholeNow
      <3>2. CASE Kind # "rekey"
        <4>1. t = <<>>
          BY <1>2, <2>2, <3>2
        <4>2. Kind' = "idle"
          BY <1>4, <4>1 DEF Kind, Idle
        <4>3. Kind = "rekeyed" => Ahead < 4
          <5>1. SUFFICES ASSUME Kind = "rekeyed" PROVE Ahead < 4
            OBVIOUS
          <5>2. Ahead \in Nat /\ Ahead < 5
            BY <1>0, <5>1, ChangeHeads, KindInvWas DEF Changing, Ahead
          <5>3. Ahead # 4
            <6>1. /\ plan["gui"] \in Seq(StepSet) /\ plan["gui"] # <<>> /\ Closes(plan["gui"])
              BY <1>0, <5>1, KindInvWas DEF Plans, Proc
            <6>2. Len(plan["gui"]) = 4 => Head(plan["gui"]) = <<"adopt">>
              BY <6>1, ClosesFacts
            <6>. QED
              BY <2>2, <6>1, <6>2 DEF Ahead, At, Idle
          <5>. QED
            BY <5>2, <5>3
        <4>4. mem = Nil \/ HasWhole(0) \/ \E n \in Backup : Aside(n)
          BY <1>2, <3>2, <4>3
        <4>. QED
          BY <1>3, <1>5, <2>2, <4>2, <4>4, WholeNow
      <3>. QED
        BY <3>1, <3>2
    <2>. QED
      BY <2>1, <2>2
  <1>. QED
    BY <1>6, <1>7 DEF WholeFree, BuildInv

LEMMA OfLeave ==
    ASSUME StoreInv, Leave
    PROVE  StoreInv'
  <1>0. /\ Core /\ FilesInv /\ StoreTypeOK /\ DirT /\ AtT /\ StateT /\ CountT /\ MemT /\ HistT
        /\ "cli" \in Proc /\ Plans /\ KindInv /\ JobInv
    BY Types DEF StoreInv, Core, Proc
  <1>1. /\ At("cli", "prompt") /\ plan' = [plan EXCEPT !["cli"] = <<>>]
        /\ dir' = dir /\ state' = state /\ at' = at /\ pwOf' = pwOf /\ keys' = keys
        /\ clock' = clock /\ failures' = failures /\ mem' = mem /\ app' = app /\ work' = work
        /\ st' = st /\ job' = job
        /\ acked' = acked /\ gain' = gain /\ clean' = clean /\ whole' = whole
    BY DEF Leave, disk, hist
  <1>2. Stopped("cli", <<>>, job["cli"].kind)
    <2>1. job["cli"].kind \in Kinds
      BY <1>0 DEF JobInv
    <2>2. job' = [job EXCEPT !["cli"].kind = job["cli"].kind]
      BY <1>0, <1>1 DEF JobInv
    <2>. QED
      BY <1>1, <2>1, <2>2 DEF Stopped
  <1>3. Plans' /\ KindInv' /\ JobInv'
    BY <1>0, <1>2, StoppedFacts
  <1>4. \A i \in gain'["cli"] : Progress("cli", i)'
    <2>1. SUFFICES ASSUME NEW i \in gain["cli"] PROVE Progress("cli", i)'
      BY <1>1
    <2>2. Progress("cli", i) /\ i \in Items
      BY <1>0, <2>1, CoreTypes DEF FilesInv, GainInv
    <2>3. ~AtItem("cli", "writeItem", i) /\ <<"openItem", i>> \notin Left("cli")
      <3>1. <<"prompt">> \in Range(plan["cli"])
        BY <1>0, <1>1, TailLeft DEF At, Idle, Plans
      <3>2. <<"openItem", i>> \notin Range(plan["cli"])
        BY <1>0, <3>1, KindInvWas, Names DEF StepNames
      <3>. QED
        BY <1>0, <1>1, <3>2, OneStep DEF Left
    <2>4. ~AtItem("cli", "writeItem", i)'
      <3>1. plan'["cli"] = <<>>
        BY <1>0, <1>1 DEF Plans
      <3>. QED
        BY <3>1 DEF AtItem, Idle
    <2>. QED
      BY <1>1, <2>2, <2>3, <2>4 DEF Progress
  <1>5. FilesInv'
    BY <1>0, <1>1, <1>2, <1>4, StoppedFiles
  <1>6. CountT'
    BY <1>0, <1>1 DEF CountT
  <1>7. StoreTypeOK'
    BY <1>0, <1>1, <1>6, SameDir, SameAt, SameState, SameMem, SameHist, TypesNext
  <1>8. WholeFree'
    BY <1>1, CliWhole DEF StoreInv, At
  <1>. QED
    BY <1>3, <1>5, <1>7, <1>8 DEF StoreInv, Core

\* A process gives its operation up.
LEMMA StopBegins ==
    ASSUME StoreInv, NEW p \in Proc, NEW t, NEW k, Stopped(p, t, k),
           dir' = dir, state' = state, at' = at, pwOf' = pwOf, keys' = keys, work' = work,
           clock' \in Nat, failures' \in 0..MaxFailures, app' \in [Proc -> Entry],
           st' \in [Proc -> Entry], mem' = mem \/ mem' = Nil,
           acked' = acked, clean' = clean, whole' = whole,
           gain' = [gain EXCEPT ![p] = {}], WholeFree'
    PROVE  StoreInv'
  <1>0. /\ Core /\ FilesInv /\ StoreTypeOK /\ DirT /\ AtT /\ StateT /\ CountT /\ MemT /\ HistT
        /\ Plans /\ KindInv /\ JobInv
    BY Types DEF StoreInv, Core
  <1>1. Plans' /\ KindInv' /\ JobInv'
    BY <1>0, StoppedFacts
  <1>2. /\ gain'[p] = {} /\ \A q \in Proc : gain'[q] \subseteq gain[q]
        /\ gain' \in [Proc -> SUBSET Items]
    BY <1>0 DEF HistT
  <1>3. FilesInv'
    BY <1>0, <1>2, StoppedFiles
  <1>4. StoreTypeOK'
    <2>1. CountT'
      BY <1>0 DEF CountT
    <2>2. StateT'
      BY <1>0 DEF StateT
    <2>3. MemT'
      BY <1>0 DEF MemT
    <2>4. HistT'
      BY <1>0, <1>2 DEF HistT
    <2>. QED
      BY <1>0, <2>1, <2>2, <2>3, <2>4, SameDir, SameAt, TypesNext
  <1>. QED
    BY <1>1, <1>3, <1>4 DEF StoreInv, Core

LEMMA OfAbandon ==
    ASSUME StoreInv, NEW p \in Proc, Abandon(p), ~Idle(p), failures' \in 0..MaxFailures,
           ~At(p, "dropOlder"), ~At(p, "adopt")
    PROVE  StoreInv'
  <1>0. /\ Core /\ StoreTypeOK /\ DirT /\ AtT /\ StateT /\ CountT /\ MemT /\ HistT
        /\ Plans /\ KindInv /\ JobInv
    BY Types DEF StoreInv, Core
  <1>. DEFINE k == IF job[p].kind = "rekey" THEN "restore" ELSE "none"
              t == IF job[p].kind = "rekey" THEN restoreBackup
                   ELSE IF job[p].kind = "drop" THEN StoreAppState \o Done ELSE <<>>
  <1>1. /\ plan' = [plan EXCEPT ![p] = t] /\ job' = [job EXCEPT ![p].kind = k]
        /\ dir' = dir /\ state' = state /\ at' = at /\ pwOf' = pwOf /\ keys' = keys
        /\ clock' = clock /\ mem' = mem /\ app' = app /\ work' = work /\ st' = st
        /\ acked' = acked /\ clean' = clean /\ whole' = whole
        /\ gain' = [gain EXCEPT ![p] = {}]
    BY <1>0 DEF Abandon, disk, JobInv
  <1>2. p = "gui" => Kind = job["gui"].kind
    BY DEF Kind
  <1>3. p = "cli" => k = "none" /\ t = <<>>
    BY <1>0, KindInvWas
  <1>4. Stopped(p, t, k)
    BY <1>1, <1>2, <1>3 DEF Stopped, Kinds, Proc
  <1>5. WholeFree'
    <2>1. CASE p = "cli"
      BY <1>1, <2>1, CliWhole DEF StoreInv
    <2>2. CASE p = "gui"
      <3>1. /\ Kind # "rekey" => t = <<>> \/ Kind = "drop"
            /\ Kind = "rekey" => t = restoreBackup /\ k = "restore"
        BY <1>2, <2>2
      <3>. HIDE DEF t, k
      <3>. QED
        BY <1>1, <1>4, <2>2, <3>1, StoppedWhole
    <2>. QED
      BY <2>1, <2>2 DEF Proc
  <1>6. clock' \in Nat /\ app' \in [Proc -> Entry] /\ st' \in [Proc -> Entry]
    BY <1>0, <1>1 DEF CountT, StateT
  <1>. HIDE DEF t, k
  <1>. QED
    BY <1>1, <1>4, <1>5, <1>6, StopBegins

LEMMA OfRefused ==
    ASSUME StoreInv, NEW p \in Proc, Refused(p)
    PROVE  StoreInv'
  <1>1. failures' \in 0..MaxFailures
    BY DEF Refused, StoreInv, Core, StoreTypeOK
  <1>2. CASE \E s \in {"openKey", "writeKey", "openVault", "loadState", "loadSeen", "storeState",
                       "storeApp", "moveAside", "moveBack"} : At(p, s)
    BY <1>1, <1>2, OneStep, OfAbandon DEF Refused
  <1>3. CASE \E i \in Items : AtItem(p, "openItem", i) \/ AtItem(p, "removeItem", i)
    BY <1>1, <1>3, OneStep, OfAbandon DEF Refused
  <1>. QED
    BY <1>2, <1>3 DEF Refused, Blocked

LEMMA OfDie ==
    ASSUME StoreInv, NEW p \in Proc, Die(p)
    PROVE  StoreInv'
  <1>0. /\ Core /\ StoreTypeOK /\ DirT /\ AtT /\ StateT /\ CountT /\ MemT /\ HistT
        /\ Plans /\ KindInv /\ JobInv /\ "gui" \in Proc /\ "cli" \in Proc
    BY Types DEF StoreInv, Core, Proc
  <1>1. /\ job' = [job EXCEPT ![p].kind = "none"]
        /\ dir' = dir /\ state' = state /\ at' = at /\ pwOf' = pwOf /\ keys' = keys
        /\ work' = work /\ acked' = acked /\ clean' = clean /\ whole' = whole
        /\ gain' = [gain EXCEPT ![p] = {}]
        /\ mem' = IF p = "gui" THEN Nil ELSE mem
        /\ p = "cli" => ~Idle(p)
    BY DEF Die, disk
  <1>2. failures' \in 0..MaxFailures
    <2>1. failures \in 0..MaxFailures /\ failures < MaxFailures /\ failures' = failures + 1
      BY <1>0 DEF CountT, Die
    <2>. QED
      BY <2>1, BoundsAssumption
  <1>3. app' \in [Proc -> Entry]
    <2>1. state \in Entry /\ NoEntry \in Entry /\ app \in [Proc -> Entry]
      BY <1>0 DEF StateT, NoEntry, Entry
    <2>2. app' = IF p = "gui" THEN [app EXCEPT !["gui"] = IF state = Cut THEN NoEntry ELSE state]
                 ELSE app
      BY DEF Die
    <2>. QED
      BY <1>0, <2>1, <2>2
  <1>4. clock' \in Nat /\ st' \in [Proc -> Entry]
    <2>1. CASE p = "gui" /\ state = NoEntry /\ dir[0].there
      <3>1. clock \in Nat /\ st \in [Proc -> Entry] /\ clock + 1 \in Nat
        BY <1>0 DEF CountT, StateT
      <3>2. [version |-> 1, mod |-> clock + 1, seen |-> 0] \in Entry
        BY <3>1 DEF Entry
      <3>3. /\ clock' = clock + 1
            /\ st' = [st EXCEPT !["gui"] = [version |-> 1, mod |-> clock + 1, seen |-> 0]]
        BY <2>1 DEF Die
      <3>. QED
        BY <1>0, <3>1, <3>2, <3>3
    <2>2. CASE ~(p = "gui" /\ state = NoEntry /\ dir[0].there)
      <3>1. clock' = clock /\ st' = st
        BY <2>2 DEF Die
      <3>. QED
        BY <1>0, <3>1 DEF CountT, StateT
    <2>. QED
      BY <2>1, <2>2
  <1>5. \E t : Stopped(p, t, "none")
    <2>1. CASE p = "gui" /\ state = NoEntry /\ dir[0].there
      <3>1. plan' = [plan EXCEPT !["gui"] = << <<"storeState">>, <<"writeState">> >> \o Done]
        BY <2>1 DEF Die
      <3>2. Stopped(p, << <<"storeState">>, <<"writeState">> >> \o Done, "none")
        BY <1>1, <2>1, <3>1 DEF Stopped, Kinds
      <3>. QED
        BY <3>2
    <2>2. CASE ~(p = "gui" /\ state = NoEntry /\ dir[0].there)
      <3>1. plan' = [plan EXCEPT ![p] = <<>>]
        BY <2>2 DEF Die
      <3>2. Stopped(p, <<>>, "none")
        BY <1>1, <3>1 DEF Stopped, Kinds
      <3>. QED
        BY <3>2
    <2>. QED
      BY <2>1, <2>2
  <1>6. PICK t : Stopped(p, t, "none")
    BY <1>5
  <1>7. WholeFree'
    <2>1. CASE p = "cli"
      BY <1>1, <2>1, CliWhole DEF StoreInv
    <2>2. CASE p = "gui"
      BY <1>1, <1>6, <2>2, StoppedWhole
    <2>. QED
      BY <2>1, <2>2 DEF Proc
  <1>. QED
    BY <1>1, <1>2, <1>3, <1>4, <1>6, <1>7, StopBegins

\* Nothing moves but the vault the window shows.
LEMMA OfLock ==
    ASSUME StoreInv, Lock
    PROVE  StoreInv'
  <1>0. /\ Core /\ FilesInv /\ StoreTypeOK /\ DirT /\ AtT /\ StateT /\ CountT /\ MemT /\ HistT
        /\ Plans /\ KindInv /\ JobInv
    BY Types DEF StoreInv, Core
  <1>1. /\ Idle("gui") /\ mem' = Nil
        /\ dir' = dir /\ state' = state /\ at' = at /\ pwOf' = pwOf /\ keys' = keys
        /\ clock' = clock /\ failures' = failures /\ app' = app /\ work' = work
        /\ st' = st /\ job' = job /\ plan' = plan
        /\ acked' = acked /\ gain' = gain /\ clean' = clean /\ whole' = whole
    BY DEF Lock, disk, hist
  <1>2. Plans' /\ KindInv' /\ JobInv' /\ Kind' = Kind
    BY <1>0, <1>1 DEF Plans, KindInv, JobInv, Kind, Idle, Left, Ahead, At, Closes, WellFormed
  <1>3. FilesInv'
    <2>1. KeyInv' /\ MadeInv'
      BY <1>0, <1>1, <1>2 DEF FilesInv, KeyInv, MadeInv, At, AtItem, Idle, Left
    <2>2. TouchInv'
      BY <1>0, <1>1, <1>2 DEF FilesInv, TouchInv, Touching
    <2>3. GainInv'
      BY <1>0, <1>1 DEF FilesInv, GainInv, Rekeying, Idle, Left, Progress, AtItem
    <2>4. RebuildInv'
      BY <1>0, <1>1, <1>2 DEF FilesInv, RebuildInv, Rebuilding, Ahead, At, Idle, Left
    <2>5. AckedInv'
      BY <1>0, <1>1, <1>2 DEF FilesInv, AckedInv, Rebuilding, Ahead, At, Idle, Left, Progress, AtItem,
                              ReadableIn, Kept
    <2>. QED
      BY <2>1, <2>2, <2>3, <2>4, <2>5 DEF FilesInv
  <1>4. StoreTypeOK'
    <2>1. CountT'
      BY <1>0, <1>1 DEF CountT
    <2>2. MemT'
      BY <1>0, <1>1 DEF MemT
    <2>. QED
      BY <1>0, <1>1, <2>1, <2>2, SameDir, SameAt, SameState, SameHist, TypesNext
  <1>5. WholeFree'
    <2>1. SUFFICES ASSUME whole # {} PROVE WholeFree'
      BY <1>1, NoWhole
    <2>2. Idle("cli") /\ \E n \in DOMAIN dir : HasWhole(n)
      BY <2>1 DEF StoreInv, WholeFree, WholeInv
    <2>3. Idle("cli")' /\ (\E n \in DOMAIN dir' : HasWhole(n)') /\ Kind' = "idle"
      BY <1>1, <1>2, <2>2, SameWhole, IdleKind DEF Idle
    <2>4. WholeInv'
      BY <1>1, <2>3, WholeNow
    <2>. QED
      BY <2>3, <2>4 DEF WholeFree, BuildInv, Rebuilding
  <1>. QED
    BY <1>2, <1>3, <1>4, <1>5 DEF StoreInv, Core

\* Nothing happens.
LEMMA OfStutter ==
    ASSUME StoreInv, UNCHANGED storeVars
    PROVE  StoreInv'
  <1>0. /\ Core /\ FilesInv /\ StoreTypeOK /\ DirT /\ AtT /\ StateT /\ CountT /\ MemT /\ HistT
        /\ Plans /\ KindInv /\ JobInv
    BY Types DEF StoreInv, Core
  <1>1. /\ mem' = mem
        /\ dir' = dir /\ state' = state /\ at' = at /\ pwOf' = pwOf /\ keys' = keys
        /\ clock' = clock /\ failures' = failures /\ app' = app /\ work' = work
        /\ st' = st /\ job' = job /\ plan' = plan
        /\ acked' = acked /\ gain' = gain /\ clean' = clean /\ whole' = whole
    BY DEF storeVars
  <1>2. Plans' /\ KindInv' /\ JobInv' /\ Kind' = Kind
    BY <1>0, <1>1 DEF Plans, KindInv, JobInv, Kind, Idle, Left, Ahead, At, Closes, WellFormed
  <1>3. FilesInv'
    <2>1. KeyInv' /\ MadeInv'
      BY <1>0, <1>1, <1>2 DEF FilesInv, KeyInv, MadeInv, At, AtItem, Idle, Left
    <2>2. TouchInv'
      BY <1>0, <1>1, <1>2 DEF FilesInv, TouchInv, Touching
    <2>3. GainInv'
      BY <1>0, <1>1 DEF FilesInv, GainInv, Rekeying, Idle, Left, Progress, AtItem
    <2>4. RebuildInv'
      BY <1>0, <1>1, <1>2 DEF FilesInv, RebuildInv, Rebuilding, Ahead, At, Idle, Left
    <2>5. AckedInv'
      BY <1>0, <1>1, <1>2 DEF FilesInv, AckedInv, Rebuilding, Ahead, At, Idle, Left, Progress, AtItem,
                              ReadableIn, Kept
    <2>. QED
      BY <2>1, <2>2, <2>3, <2>4, <2>5 DEF FilesInv
  <1>4. StoreTypeOK'
    <2>1. CountT'
      BY <1>0, <1>1 DEF CountT
    <2>. QED
      BY <1>0, <1>1, <2>1, SameDir, SameAt, SameState, SameMem, SameHist, TypesNext
  <1>5. WholeFree'
    BY <1>1 DEF StoreInv, WholeFree, WholeInv, BuildInv, HasWhole, Aside, Named, Kind, Idle, Ahead,
                Left, At, AtItem, Rebuilding, Progress, Whole, catalogueVaultVersion
  <1>. QED
    BY <1>2, <1>3, <1>4, <1>5 DEF StoreInv, Core

\* The last step but four of a password change: the older backup goes.
LEMMA DropOlderKind ==
    ASSUME Core, At("gui", "dropOlder"), Advance("gui"),
           job' = [job EXCEPT !["gui"].kind = "rekeyed"]
    PROVE  /\ Plans' /\ KindInv' /\ JobInv' /\ Kind' = "rekeyed" /\ Kind = "rekey"
           /\ Ahead = 5 /\ Ahead' = 4 /\ plan'["cli"] = plan["cli"] /\ ~Idle("gui")
           /\ job'["gui"].back = job["gui"].back /\ ~Idle("gui")'
           /\ <<"openKey">> \notin Left("gui") /\ \A i : <<"openItem", i>> \notin Left("gui")
           /\ <<"writeKey">> \notin Left("gui")
  <1>0. Plans /\ KindInv /\ JobInv /\ "gui" \in Proc /\ "cli" \in Proc /\ ~Idle("gui")
    BY DEF Core, Proc, At
  <1>1. Kind = "rekey" /\ Ahead = 5
    <2>1. Kind \in Changing
      BY <1>0, OtherHeads
    <2>. QED
      BY <1>0, <2>1, ChangeHeads
  <1>2. /\ Plans' /\ plan'["cli"] = plan["cli"] /\ plan'["gui"] = Tail(plan["gui"])
        /\ Range(plan'["gui"]) \subseteq Range(plan["gui"])
        /\ Len(plan'["gui"]) = Len(plan["gui"]) - 1
    BY <1>0, Advanced
  <1>3. Ahead' = 4 /\ Len(plan'["gui"]) = 4
    <2>1. Len(plan["gui"]) = 5
      BY <1>1 DEF Ahead
    <2>2. Len(plan'["gui"]) = 4
      BY <1>2, <2>1
    <2>. QED
      BY <2>2 DEF Ahead
  <1>4. plan'["gui"] # <<>>
    <2>1. Len(<<>>) = 0
      OBVIOUS
    <2>. QED
      BY <1>3, <2>1
  <1>5. /\ job'["gui"].kind = "rekeyed" /\ job'["cli"] = job["cli"]
        /\ job'["gui"].back = job["gui"].back
    BY <1>0 DEF JobInv
  <1>6. JobInv'
    <2>1. [job["gui"] EXCEPT !.kind = "rekeyed"] \in JobSet
      BY <1>0 DEF JobInv, JobSet, Kinds
    <2>. QED
      BY <1>0, <2>1 DEF JobInv, JobSet
  <1>7. Closes(plan["gui"]) /\ plan["gui"] \in Seq(StepSet) /\ plan["gui"] # <<>>
    BY <1>0, <1>1, KindInvWas DEF Plans, Idle
  <1>8. Closes(plan'["gui"]) /\ Len(plan'["gui"]) < 5
    <2>1. Closes(plan'["gui"])
      BY <1>2, <1>7, TailCloses
    <2>2. Len(plan'["gui"]) < 5
      BY <1>3
    <2>. QED
      BY <2>1, <2>2
  <1>9. KindInv' /\ Kind' = "rekeyed"
    <2>. DEFINE k == "rekeyed"
    <2>1. k = IF plan'["gui"] = <<>> THEN "idle" ELSE job'["gui"].kind
      BY <1>4, <1>5
    <2>2. /\ job'["cli"].kind \in {"none", "create", "unlock", "save"}
          /\ <<"prompt">> \in Range(plan'["cli"]) => Range(plan'["cli"]) \subseteq
               {<<"loadSeen">>, <<"storeState">>, <<"writeState">>, <<"prompt">>}
          /\ job'["gui"].back \in Backup
      BY <1>0, <1>1, <1>2, <1>5, KindInvWas DEF Changing
    <2>3. k # "rekeyStart" /\ k # "rekey" /\ k # "restore" /\ k # "none" /\ k \in Changing
      BY DEF Changing
    <2>. HIDE DEF k
    <2>4. k = "rekeyed"
      BY DEF k
    <2>. QED
      BY <1>8, <2>1, <2>2, <2>3, <2>4, KindInvNow
  <1>10. /\ <<"openKey">> \notin Left("gui") /\ \A i : <<"openItem", i>> \notin Left("gui")
         /\ <<"writeKey">> \notin Left("gui")
    <2>1. Len(plan["gui"]) <= 10
      <3>1. Len(plan["gui"]) = 5
        BY <1>1 DEF Ahead
      <3>. QED
        BY <3>1
    <2>2. Range(plan["gui"]) \subseteq
              {<<"openVault">>, <<"writeVault">>, <<"loadState">>, <<"storeState">>,
               <<"writeState">>, <<"dropOlder">>, <<"adopt">>, <<"storeApp">>, <<"done">>}
      BY <1>7, <2>1, ClosesRange
    <2>. QED
      BY <2>2, Names DEF StepNames, Left
  <1>. QED
    BY <1>0, <1>1, <1>2, <1>3, <1>4, <1>5, <1>6, <1>9, <1>10 DEF Idle

\* The error of removing a directory is ignored: the operation goes on.
LEMMA OfIgnored ==
    ASSUME StoreInv, NEW p \in Proc, At(p, "clearActive") \/ At(p, "dropOlder"), Advance(p),
           job' = [job EXCEPT ![p].kind = IF @ = "rekey" THEN "rekeyed" ELSE @],
           dir' = dir, state' = state, at' = at, pwOf' = pwOf, keys' = keys, work' = work,
           clock' = clock, failures' \in 0..MaxFailures, app' = app, st' = st, mem' = mem,
           acked' = acked, clean' = clean, whole' = whole, gain' = gain
    PROVE  StoreInv'
  <1>0. /\ Core /\ FilesInv /\ StoreTypeOK /\ DirT /\ AtT /\ StateT /\ CountT /\ MemT /\ HistT
        /\ Plans /\ KindInv /\ JobInv /\ ~Idle(p) /\ "gui" \in Proc /\ "cli" \in Proc
    BY Types DEF StoreInv, Core, At, Proc
  <1>1. StoreTypeOK'
    <2>1. CountT'
      BY <1>0 DEF CountT
    <2>. QED
      BY <1>0, <2>1, SameDir, SameAt, SameState, SameMem, SameHist, TypesNext
  <1>2. CASE p = "cli"
    <2>1. job' = job
      <3>1. job["cli"].kind # "rekey"
        BY <1>0, KindInvWas
      <3>. QED
        BY <1>0, <1>2, <3>1 DEF JobInv
    <2>2. Plans' /\ KindInv' /\ JobInv' /\ Kind' = Kind /\ plan'["gui"] = plan["gui"]
      BY <1>0, <1>2, <2>1, StepKinds
    <2>3. Silent(p)
      <3>1. /\ \A s \in {"openKey", "writeKey", "openVault", "writeVault"} : ~At(p, s)
            /\ \A i \in Items : ~AtItem(p, "openItem", i) /\ ~AtItem(p, "writeItem", i)
        BY OneStep
      <3>. QED
        BY <1>0, <1>2, <2>2, <3>1 DEF Silent
    <2>4. Kind' = "idle" => Idle("gui")'
      <3>1. Kind = "idle" => plan["gui"] = <<>>
        BY <1>0 DEF JobInv, Kinds, Kind, Idle
      <3>. QED
        BY <2>2, <3>1 DEF Idle
    <2>5. FilesInv'
      BY <1>0, <2>2, <2>3, <2>4, SilentFiles
    <2>6. WholeFree'
      BY <1>0, <1>2, CliWhole DEF StoreInv
    <2>. QED
      BY <1>1, <2>2, <2>5, <2>6 DEF StoreInv, Core
  <1>3. CASE p = "gui" /\ At("gui", "clearActive")
    <2>1. Kind = "restore" /\ job["gui"].kind = "restore"
      <3>1. Kind \in Changing
        BY <1>0, <1>3, OtherHeads
      <3>. QED
        BY <1>0, <1>3, <3>1, ChangeHeads
    <2>2. job' = job
      BY <1>0, <1>3, <2>1 DEF JobInv
    <2>3. /\ Silent("gui") /\ Plans' /\ KindInv' /\ JobInv'
          /\ Kind' \in {Kind, "idle"} /\ (Kind' = "idle" <=> Idle("gui")')
      BY <1>0, <1>3, <2>2, SilentWhen
    <2>4. FilesInv'
      BY <1>0, <2>3, SilentFiles
    <2>5. WholeFree'
      <3>1. SUFFICES ASSUME whole # {} PROVE WholeFree'
        BY NoWhole
      <3>2. /\ Idle("cli") /\ \E n \in DOMAIN dir : HasWhole(n)
            /\ \E n \in Backup : Aside(n)
        BY <1>3, <2>1, <3>1 DEF StoreInv, WholeFree, WholeInv
      <3>3. /\ \E n \in DOMAIN dir' : HasWhole(n)'
            /\ \E n \in Backup : Aside(n)'
        BY <3>2, SameWhole
      <3>4. Idle("cli")'
        BY <1>0, <1>3, <3>2, OtherIdle
      <3>5. WholeInv'
        BY <2>1, <2>3, <3>3, <3>4, WholeNow
      <3>. QED
        BY <2>1, <2>3, <3>5 DEF WholeFree, BuildInv, Rebuilding
    <2>. QED
      BY <1>1, <2>3, <2>4, <2>5 DEF StoreInv, Core
  <1>4. CASE p = "gui" /\ At("gui", "dropOlder")
    <2>1. Kind = "rekey" /\ job["gui"].kind = "rekey"
      <3>1. Kind \in Changing
        BY <1>0, <1>4, OtherHeads
      <3>. QED
        BY <1>0, <1>4, <3>1, ChangeHeads
    <2>2. job' = [job EXCEPT !["gui"].kind = "rekeyed"]
      BY <1>4, <2>1
    <2>3. /\ Plans' /\ KindInv' /\ JobInv' /\ Kind' = "rekeyed" /\ Ahead = 5 /\ Ahead' = 4
          /\ plan'["cli"] = plan["cli"] /\ job'["gui"].back = job["gui"].back
      BY <1>0, <1>4, <2>2, DropOlderKind
    <2>4. Silent("gui")
      <3>1. /\ \A s \in {"openKey", "writeKey", "openVault", "writeVault", "moveAside"} :
                  ~At("gui", s)
            /\ \A i \in Items : ~AtItem("gui", "openItem", i) /\ ~AtItem("gui", "writeItem", i)
        BY <1>4, OneStep
      <3>. QED
        BY <1>0, <1>4, <2>1, <2>3, <3>1 DEF Silent
    <2>5. FilesInv'
      BY <1>0, <2>3, <2>4, SilentFiles
    <2>6. WholeFree'
      <3>1. SUFFICES ASSUME whole # {} PROVE WholeFree'
        BY NoWhole
      <3>2. /\ Idle("cli") /\ \E n \in DOMAIN dir : HasWhole(n)
        BY <3>1 DEF StoreInv, WholeFree, WholeInv
      <3>3. \E n \in DOMAIN dir' : HasWhole(n)'
        BY <3>2, SameWhole
      <3>4. Idle("cli")'
        BY <2>3, <3>2 DEF Idle
      <3>5. ~(Ahead' < 4) /\ Ahead' # 9 /\ Ahead' < 9 /\ Ahead < 9 /\ Ahead > 3
        BY <2>3
      <3>6. WholeInv'
        BY <2>3, <3>3, <3>4, <3>5, WholeNow
      <3>7. /\ \A i \in work["gui"].items : Progress("gui", i)
            /\ dir[0].vault.k = work["gui"].key /\ dir[0].vault.items = work["gui"].items
        BY <2>1, <3>1, <3>5 DEF StoreInv, WholeFree, BuildInv, Rebuilding
      <3>8. work["gui"].items \subseteq Items
        BY <1>0 DEF MemT, Vault
      <3>9. \A i \in work'["gui"].items : Progress("gui", i)'
        <4>1. SUFFICES ASSUME NEW i \in work["gui"].items PROVE Progress("gui", i)'
          OBVIOUS
        <4>2. i \in Items /\ Progress("gui", i)
          BY <3>7, <3>8, <4>1
        <4>3. ~AtItem("gui", "openItem", i) /\ ~AtItem("gui", "writeItem", i)
          BY <1>4, OneStep
        <4>. QED
          BY <1>0, <1>4, <4>2, <4>3, ProgressKept
      <3>. QED
        BY <3>5, <3>6, <3>7, <3>9 DEF WholeFree, BuildInv
    <2>. QED
      BY <1>1, <2>3, <2>5, <2>6 DEF StoreInv, Core
  <1>. QED
    BY <1>2, <1>3, <1>4 DEF Proc

LEMMA OfCallFails ==
    ASSUME StoreInv, NEW p \in Proc, CallFails(p)
    PROVE  StoreInv'
  <1>1. failures' \in 0..MaxFailures
    <2>1. failures \in 0..MaxFailures /\ failures < MaxFailures /\ failures' = failures + 1
      BY DEF CallFails, StoreInv, Core, StoreTypeOK
    <2>. QED
      BY <2>1, BoundsAssumption
  <1>2. CASE At(p, "clearActive") \/ At(p, "dropOlder")
    <2>1. /\ Advance(p) /\ dir' = dir /\ state' = state /\ at' = at /\ pwOf' = pwOf
          /\ keys' = keys /\ work' = work /\ clock' = clock /\ app' = app /\ st' = st
          /\ mem' = mem /\ acked' = acked /\ clean' = clean /\ whole' = whole /\ gain' = gain
          /\ job' = [job EXCEPT ![p].kind = IF @ = "rekey" THEN "rekeyed" ELSE @]
      BY <1>2 DEF CallFails, disk, hist
    <2>. QED
      BY <1>1, <1>2, <2>1, OfIgnored
  <1>3. CASE ~(At(p, "clearActive") \/ At(p, "dropOlder"))
    <2>1. Abandon(p) /\ ~Idle(p) /\ ~At(p, "dropOlder") /\ ~At(p, "adopt")
      BY <1>3 DEF CallFails
    <2>. QED
      BY <1>1, <2>1, OfAbandon
  <1>. QED
    BY <1>2, <1>3

\* An operation that returns has nothing more to do.
LEMMA AtDone ==
    ASSUME Core, NEW p \in Proc, At(p, "done"), Advance(p), job' = job
    PROVE  /\ Plans' /\ KindInv' /\ JobInv' /\ Idle(p)' /\ ~Idle(p)
           /\ \A q \in Proc : q # p => plan'[q] = plan[q]
           /\ p = "cli" => Kind' = Kind
           /\ p = "gui" => Kind' = "idle"
           /\ Range(plan[p]) = {<<"done">>} /\ Range(plan'[p]) = {}
           /\ Len(plan[p]) = 1 /\ Touching(p)' = {} /\ Touching(p) = {}
  <1>1. ~Idle(p) /\ ~At(p, "moveAside") /\ ~At(p, "dropOlder")
    BY OneStep
  <1>2. /\ Plans' /\ KindInv' /\ JobInv'
        /\ p = "cli" => Kind' = Kind
        /\ p = "gui" => Kind' \in {Kind, "idle"} /\ (Kind' = "idle" <=> Idle("gui")')
    BY <1>1, StepKinds
  <1>3. /\ Idle(p)' /\ \A q \in Proc : q # p => plan'[q] = plan[q]
        /\ plan'[p] = Tail(plan[p]) /\ plan[p] # <<>> /\ Len(plan'[p]) = Len(plan[p]) - 1
        /\ plan[p] \in Seq(StepSet) /\ Len(plan[p]) \in Nat
    BY <1>1, Advanced, NextStep DEF Core, Plans
  <1>4. plan'[p] = <<>>
    BY <1>3 DEF Idle
  <1>5. Range(plan'[p]) = {}
    BY <1>4, Pieces
  <1>6. Range(plan[p]) = {<<"done">>}
    <2>1. Range(plan[p]) = {Head(plan[p])} \cup Range(Tail(plan[p]))
      BY <1>3, TailLeft
    <2>2. Head(plan[p]) = <<"done">>
      BY OneStep
    <2>. QED
      BY <1>3, <1>5, <2>1, <2>2
  <1>7. Len(plan[p]) = 1
    <2>1. Len(plan'[p]) = 0
      BY <1>4
    <2>. QED
      BY <1>3, <2>1
  <1>8. Touching(p)' = {} /\ Touching(p) = {}
    BY <1>5, <1>6, Names DEF Touching, StepNames
  <1>. QED
    BY <1>1, <1>2, <1>3, <1>5, <1>6, <1>7, <1>8

LEMMA OfReturn ==
    ASSUME StoreInv, NEW p \in Proc, Return(p)
    PROVE  StoreInv'
  <1>0. /\ Core /\ FilesInv /\ StoreTypeOK /\ DirT /\ AtT /\ StateT /\ CountT /\ MemT /\ HistT
        /\ Plans /\ KindInv /\ JobInv /\ "gui" \in Proc /\ "cli" \in Proc
        /\ WholeFree /\ KeyInv /\ GainInv /\ TouchInv /\ AckedInv
    BY Types DEF StoreInv, Core, Proc, FilesInv
  <1>1. /\ At(p, "done") /\ Advance(p) /\ dir' = dir /\ state' = state /\ at' = at
        /\ pwOf' = pwOf /\ keys' = keys /\ clock' = clock /\ failures' = failures
        /\ app' = app /\ work' = work /\ st' = st /\ job' = job /\ clean' = clean
        /\ acked' = acked \cup gain[p] /\ gain' = [gain EXCEPT ![p] = {}]
        /\ mem' = IF p = "gui" /\ job["gui"].kind \in {"create", "unlock"} THEN work["gui"] ELSE mem
        /\ whole' = IF Whole(dir[0]) /\ Idle(Other(p)) THEN dir[0].vault.items ELSE whole
    BY DEF Return, disk
  <1>2. /\ Plans' /\ KindInv' /\ JobInv' /\ Idle(p)' /\ ~Idle(p)
        /\ \A q \in Proc : q # p => plan'[q] = plan[q]
        /\ p = "cli" => Kind' = Kind
        /\ p = "gui" => Kind' = "idle"
        /\ Range(plan[p]) = {<<"done">>} /\ Range(plan'[p]) = {}
        /\ Len(plan[p]) = 1 /\ Touching(p)' = {} /\ Touching(p) = {}
    BY <1>0, <1>1, AtDone
  <1>3. /\ gain'[p] = {} /\ \A q \in Proc : gain'[q] \subseteq gain[q]
        /\ \A q \in Proc : q # p => gain'[q] = gain[q]
        /\ gain' \in [Proc -> SUBSET Items] /\ gain[p] \subseteq Items
    BY <1>0, <1>1 DEF HistT
  <1>4. \A q \in Proc : q # p => Touching(q)' = Touching(q)
    BY <1>2 DEF Touching
  <1>5. dir[0] \in DirSet
    BY <1>0, CoreTypes
  <1>6. StoreTypeOK'
    <2>1. CountT'
      BY <1>0, <1>1 DEF CountT
    <2>2. p = "gui" /\ job["gui"].kind \in {"create", "unlock"} =>
              work["gui"] \in Vault /\ work["gui"].key \in Key
      <3>1. SUFFICES ASSUME p = "gui", job["gui"].kind \in {"create", "unlock"}
                     PROVE  work["gui"] \in Vault /\ work["gui"].key \in Key
        OBVIOUS
      <3>2. Kind \in {"create", "unlock"}
        BY <1>2, <3>1 DEF Kind
      <3>3. <<"writeKey">> \notin Left("gui")
        BY <1>2, <3>1, Names DEF Left, StepNames
      <3>. QED
        BY <1>0, <3>2, <3>3 DEF FilesInv, MadeInv, MemT
    <2>3. MemT'
      BY <1>0, <1>1, <2>2 DEF MemT
    <2>4. dir[0].vault.items \subseteq Items
      BY <1>5 DEF DirSet
    <2>5. HistT'
      BY <1>0, <1>1, <1>3, <2>4 DEF HistT
    <2>. QED
      BY <1>0, <1>1, <2>1, <2>3, <2>5, SameDir, SameAt, SameState, TypesNext
  <1>7. ASSUME NEW q \in Proc, q # p, NEW i \in Items, Progress(q, i) PROVE Progress(q, i)'
    BY <1>0, <1>1, <1>2, <1>7, ProgressKept
  <1>8. KeyInv'
    <2>1. \A q \in Proc : \/ plan'[q] = plan[q] /\ at'[q] = at[q]
                          \/ ~At(q, "writeKey")' /\ (Writing(q)' => at'[q] = 0)
      BY <1>1, <1>2 DEF Writing, At, AtItem, Idle
    <2>2. DirT' /\ AtT'
      BY <1>0, <1>1, SameDir, SameAt
    <2>. QED
      BY <1>0, <1>1, <2>1, <2>2, KeyFrame
  <1>9. MadeInv'
    <2>1. CASE p = "cli"
      BY <1>0, <1>1, <1>2, <2>1, MadeFrame DEF FilesInv
    <2>2. CASE p = "gui"
      BY <1>2, <2>2 DEF MadeInv
    <2>. QED
      BY <2>1, <2>2 DEF Proc
  <1>10. TouchInv'
    <2>1. \A q \in Proc : \A i \in Touching(q)' : i \notin gain'[Other(q)]
      BY <1>0, <1>2, <1>3, <1>4 DEF TouchInv, Other, Proc
    <2>2. \A i \in Touching("cli")' : i \notin acked'
      BY <1>0, <1>1, <1>2, <1>4 DEF TouchInv, Other, Proc
    <2>3. \A i \in Touching("gui")' : i \in acked' => Kind' \in {"rekeyStart", "rekey"}
      BY <1>0, <1>1, <1>2, <1>4 DEF TouchInv, Other, Proc
    <2>. QED
      BY <2>1, <2>2, <2>3 DEF TouchInv
  <1>11. GainInv'
    <2>1. \A q \in Proc : /\ Range(plan'[q]) \subseteq Range(plan[q])
                          /\ \A i \in gain'[q] : Progress(q, i)'
      <3>1. SUFFICES ASSUME NEW q \in Proc PROVE /\ Range(plan'[q]) \subseteq Range(plan[q])
                                                 /\ \A i \in gain'[q] : Progress(q, i)'
        OBVIOUS
      <3>2. \A i \in gain[q] : Progress(q, i) /\ i \in Items
        BY <1>0 DEF GainInv, HistT
      <3>. QED
        BY <1>2, <1>3, <1>7, <3>2
    <2>2. Kind' \in Changing => Kind \in Changing
      BY <1>2 DEF Changing, Proc
    <2>. QED
      BY <1>0, <1>1, <1>3, <2>1, <2>2, GainFrame
  <1>12. RebuildInv'
    <2>1. Rebuilding' => Rebuilding /\ p = "cli"
      BY <1>0, <1>2 DEF Rebuilding, Ahead, Proc
    <2>2. (~At("gui", "openKey") /\ ~At("gui", "writeKey")) \/ p = "cli"
      BY <1>1, OneStep DEF Proc
    <2>3. Kind' = "rekeyStart" => Kind = "rekeyStart"
      BY <1>2 DEF Proc
    <2>4. plan'["gui"] = plan["gui"] \/ p = "gui"
      BY <1>0, <1>2 DEF Proc
    <2>. QED
      BY <1>0, <1>1, <1>2, <2>1, <2>2, <2>3, <2>4, RebuildFrame DEF FilesInv
  <1>13. AckedInv'
    <2>1. SUFFICES ASSUME NEW i \in acked'
                   PROVE  /\ \E n \in DOMAIN dir : ReadableIn(n, i)
                          /\ Kind' = "rekeyStart" => (<<"openItem", i>> \in Left("gui"))'
                          /\ Rebuilding' => Progress("gui", i)'
                          /\ Kind' = "rekey" => Kept(i)
                          /\ Kind' = "restore" /\ At("gui", "clearActive")' => Kept(i)
      BY <1>1 DEF AckedInv, ReadableIn, Kept
    <2>2. CASE i \in acked
      <3>1. /\ \E n \in DOMAIN dir : ReadableIn(n, i)
            /\ Kind = "rekeyStart" => <<"openItem", i>> \in Left("gui")
            /\ Rebuilding => Progress("gui", i)
            /\ Kind = "rekey" => Kept(i)
            /\ Kind = "restore" /\ At("gui", "clearActive") => Kept(i)
        BY <1>0, <2>2 DEF AckedInv
      <3>2. CASE p = "gui"
        BY <1>2, <3>1, <3>2 DEF Rebuilding
      <3>3. CASE p = "cli"
        <4>1. /\ plan'["gui"] = plan["gui"] /\ Kind' = Kind /\ Left("gui")' = Left("gui")
              /\ At("gui", "clearActive")' = At("gui", "clearActive")
              /\ Rebuilding' = Rebuilding
          BY <1>0, <1>2, <3>3 DEF Left, At, Idle, Rebuilding, Ahead
        <4>2. Progress("gui", i) => Progress("gui", i)'
          BY <1>0, <1>7, <2>2, <3>3 DEF HistT
        <4>. QED
          BY <3>1, <4>1, <4>2
      <3>. QED
        BY <3>2, <3>3 DEF Proc
    <2>3. CASE i \in gain[p]
      <3>1. /\ dir[0].key \in Key /\ work[p].key = dir[0].key /\ Progress(p, i)
        BY <1>0, <2>3 DEF GainInv
      <3>2. ~AtItem(p, "writeItem", i) /\ <<"openItem", i>> \notin Left(p)
        BY <1>1, <1>2, OneStep, Names DEF Left, StepNames
      <3>3. ReadableIn(0, i)
        <4>1. dir[0].item[i] = dir[0].key
          BY <3>1, <3>2 DEF Progress
        <4>2. dir[0].there
          BY <1>0, <3>1 DEF KeyInv, DirT, None, Key
        <4>. QED
          BY <3>1, <4>1, <4>2 DEF ReadableIn
      <3>4. Kind' \notin Changing
        <4>1. CASE p = "gui"
          BY <1>2, <4>1 DEF Changing
        <4>2. CASE p = "cli"
          <5>1. ~Rekeying
            BY <1>0, <2>3, <4>2 DEF GainInv
          <5>. QED
            BY <1>2, <4>2, <5>1 DEF Rekeying, Kind, Changing
        <4>. QED
          BY <4>1, <4>2 DEF Proc
      <3>5. 0 \in DOMAIN dir
        BY <1>0 DEF DirT
      <3>. QED
        BY <3>3, <3>4, <3>5 DEF Changing, Rebuilding
    <2>. QED
      BY <1>1, <2>1, <2>2, <2>3
  <1>14. WholeFree'
    <2>1. CASE Whole(dir[0]) /\ Idle(Other(p))
      <3>1. HasWhole(0)' /\ 0 \in DOMAIN dir'
        BY <1>0, <1>1, <2>1 DEF HasWhole, DirT, Whole
      <3>2. Idle("cli")' /\ Idle("gui")'
        BY <1>0, <1>2, <2>1 DEF Other, Idle, Proc
      <3>3. Kind' = "idle"
        BY <3>2 DEF Kind
      <3>4. WholeInv'
        BY <3>1, <3>2, <3>3, WholeNow
      <3>. QED
        BY <3>3, <3>4 DEF WholeFree, BuildInv, Rebuilding
    <2>2. CASE ~(Whole(dir[0]) /\ Idle(Other(p)))
      <3>1. CASE p = "cli"
        BY <1>0, <1>1, <1>2, <2>2, <3>1, CliWhole
      <3>2. CASE p = "gui"
        <4>1. whole' = whole
          BY <1>1, <2>2
        <4>2. SUFFICES ASSUME whole # {} PROVE WholeFree'
          BY <4>1, NoWhole
        <4>3. /\ Idle("cli") /\ \E n \in DOMAIN dir : HasWhole(n)
              /\ Kind \in {"idle", "none", "rekeyStart", "rekey", "rekeyed", "restore"}
              /\ Kind = "none" => mem = Nil
              /\ Kind = "rekeyed" /\ Ahead < 4 => HasWhole(0)
              /\ Kind = "restore" => HasWhole(0) \/ \E n \in Backup : Aside(n)
          BY <1>0, <4>2 DEF WholeFree, WholeInv
        <4>4. /\ \A n : HasWhole(n)' = HasWhole(n) /\ Aside(n)' = Aside(n)
              /\ \E n \in DOMAIN dir' : HasWhole(n)'
          BY <1>1, <4>1, <4>3, SameWhole
        <4>5. Kind' = "idle" /\ Idle("cli")'
          BY <1>0, <1>2, <3>2, <4>3 DEF Idle
        <4>6. Kind # "idle" /\ Kind = job["gui"].kind
          BY <1>0, <1>2, <3>2 DEF Kind, JobInv, Kinds
        <4>7. Kind \in Changing => Kind \in {"rekeyed", "restore"}
          BY <1>0, <1>1, <3>2, ChangeHeads
        <4>8. mem' = Nil \/ HasWhole(0) \/ \E n \in Backup : Aside(n)
          <5>1. Ahead < 4
            <6>1. Ahead = 1
              BY <1>2, <3>2 DEF Ahead
            <6>. QED
              BY <6>1
          <5>. QED
            BY <1>1, <4>3, <4>6, <4>7, <5>1 DEF Changing
        <4>9. WholeInv'
          BY <4>4, <4>5, <4>8, WholeNow
        <4>. QED
          BY <4>5, <4>9 DEF WholeFree, BuildInv, Rebuilding
      <3>. QED
        BY <3>1, <3>2 DEF Proc
    <2>. QED
      BY <2>1, <2>2
  <1>. QED
    BY <1>2, <1>6, <1>8, <1>9, <1>10, <1>11, <1>12, <1>13, <1>14 DEF StoreInv, Core, FilesInv

\* A step on one file of the vault: nothing is reported by it.
Filing(p) ==
    /\ ~Idle(p) /\ Advance(p) /\ job' = job
    /\ ~At(p, "moveAside") /\ ~At(p, "dropOlder") /\ ~At(p, "clearActive")
    /\ state' = state /\ clock' = clock /\ failures' = failures /\ app' = app /\ st' = st
    /\ acked' = acked /\ gain' = gain /\ clean' = clean /\ whole' = whole

LEMMA FilingFacts ==
    ASSUME Core, NEW p \in Proc, Filing(p)
    PROVE  /\ Plans' /\ KindInv' /\ JobInv'
           /\ p = "cli" => Kind' = Kind
           /\ p = "gui" => Kind' \in {Kind, "idle"} /\ (Kind' = "idle" <=> Idle("gui")')
           /\ \A q \in Proc : /\ Range(plan'[q]) \subseteq Range(plan[q])
                              /\ q # p => plan'[q] = plan[q]
                              /\ Touching(q)' \subseteq Touching(q)
           /\ \A x \in Range(plan[p]) : x # Head(plan[p]) => x \in Range(plan'[p])
           /\ plan'[p] = Tail(plan[p])
           /\ Rebuilding' => Rebuilding
           /\ Kind' = "rekeyStart" => Kind = "rekeyStart" /\ p = "cli"
           /\ Kind' \in Changing => Kind \in Changing
           /\ Touching("gui")' = {} \/ Kind' = Kind
           /\ Kind' = "restore" /\ At("gui", "clearActive")' =>
                 Kind = "restore" /\ At("gui", "clearActive")
           /\ StateT' /\ HistT'
  <1>1. /\ Plans' /\ \A q \in Proc : q # p => plan'[q] = plan[q]
        /\ Range(plan'[p]) \subseteq Range(plan[p])
        /\ \A x \in Range(plan[p]) : x # Head(plan[p]) => x \in Range(plan'[p])
        /\ Len(plan[p]) \in Nat /\ Len(plan'[p]) = Len(plan[p]) - 1
        /\ plan'[p] = Tail(plan[p])
    BY Advanced DEF Core, Filing
  <1>2. /\ Plans' /\ KindInv' /\ JobInv'
        /\ p = "cli" => Kind' = Kind
        /\ p = "gui" => Kind' \in {Kind, "idle"} /\ (Kind' = "idle" <=> Idle("gui")')
    BY StepKinds DEF Filing
  <1>3. \A q \in Proc : Range(plan'[q]) \subseteq Range(plan[q])
    BY <1>1
  <1>4. \A q \in Proc : Touching(q)' \subseteq Touching(q)
    BY <1>3 DEF Touching
  <1>5. Kind' = "rekeyStart" => Kind = "rekeyStart" /\ p = "cli"
    <2>1. Kind = "rekeyStart" => At("gui", "moveAside")
      BY DEF Core, KindInv
    <2>. QED
      BY <1>2, <2>1 DEF Filing, Proc
  <1>6. Kind' \in Changing => Kind \in Changing
    BY <1>2 DEF Changing, Proc
  <1>7. Rebuilding' => Rebuilding
    <2>1. Kind' \in {"rekey", "rekeyed"} => Kind \in {"rekey", "rekeyed"}
      BY <1>2 DEF Proc
    <2>2. ASSUME NEW n \in Nat, NEW m, m = n - 1, m > 3 PROVE n > 3
      BY <2>2
    <2>3. Ahead' > 3 => Ahead > 3
      BY <1>1, <2>2 DEF Ahead, Proc
    <2>. QED
      BY <2>1, <2>3 DEF Rebuilding
  <1>8. Touching("gui")' = {} \/ Kind' = Kind
    <2>1. CASE Kind' = "idle" /\ p = "gui"
      BY <1>2, <2>1, Pieces DEF Touching, Idle
    <2>. QED
      BY <1>2, <2>1 DEF Proc
  <1>9. Kind' = "restore" /\ At("gui", "clearActive")' =>
            Kind = "restore" /\ At("gui", "clearActive")
    <2>1. CASE p = "cli"
      <3>1. plan'["gui"] = plan["gui"]
        BY <1>1, <2>1 DEF Proc
      <3>. QED
        BY <1>2, <2>1, <3>1 DEF At, Idle
    <2>2. CASE p = "gui"
      <3>1. Kind' = "restore" => Kind = "restore"
        BY <1>2, <2>2
      <3>. QED
        BY <1>1, <2>2, <3>1, RestoreStep DEF Core, Filing
    <2>. QED
      BY <2>1, <2>2 DEF Proc
  <1>10. StateT' /\ HistT'
    BY Types, SameState, SameHist DEF Core, Filing
  <1>. QED
    BY <1>1, <1>2, <1>3, <1>4, <1>5, <1>6, <1>7, <1>8, <1>9, <1>10

\* A step that leaves the keys alone: item files and the vault file.
LEMMA ItemFiles ==
    ASSUME Core, FilesInv, NEW p \in Proc, Filing(p), NEW X \in SUBSET Items,
           DirT', AtT', X \subseteq Touching(p),
           \A n \in {0} \cup Backup : dir'[n].key = dir[n].key /\ dir'[n].there = dir[n].there,
           \A q \in Proc : work'[q].key = work[q].key /\ (q # p => at'[q] = at[q]),
           \A n \in {0} \cup Backup, j \in Items :
               j \notin X \/ (p = "gui" /\ n # 0) => dir'[n].item[j] = dir[n].item[j],
           \A j \in Items : j \notin X => ~AtItem(p, "openItem", j) /\ ~AtItem(p, "writeItem", j),
           \A j \in X : Progress(p, j) /\ work[p].key \in Key
                        /\ (j \in gain[p] \/ (p = "gui" /\ Kind = "rekey")) => Progress(p, j)',
           ~At(p, "openKey"), ~At(p, "writeKey"), Writing(p)' => at'[p] = 0
    PROVE  FilesInv'
  <1>0. /\ Plans /\ KindInv /\ JobInv /\ StoreTypeOK /\ KeyInv /\ MadeInv /\ TouchInv /\ GainInv
        /\ RebuildInv /\ AckedInv /\ "gui" \in Proc /\ "cli" \in Proc
    BY DEF Core, FilesInv, Proc
  <1>1. /\ Plans' /\ KindInv' /\ JobInv'
        /\ p = "cli" => Kind' = Kind
        /\ p = "gui" => Kind' \in {Kind, "idle"} /\ (Kind' = "idle" <=> Idle("gui")')
        /\ \A q \in Proc : /\ Range(plan'[q]) \subseteq Range(plan[q])
                           /\ q # p => plan'[q] = plan[q]
                           /\ Touching(q)' \subseteq Touching(q)
        /\ \A x \in Range(plan[p]) : x # Head(plan[p]) => x \in Range(plan'[p])
        /\ Rebuilding' => Rebuilding
        /\ Kind' = "rekeyStart" => Kind = "rekeyStart" /\ p = "cli"
        /\ Kind' \in Changing => Kind \in Changing
        /\ Touching("gui")' = {} \/ Kind' = Kind
        /\ Kind' = "restore" /\ At("gui", "clearActive")' =>
              Kind = "restore" /\ At("gui", "clearActive")
    BY FilingFacts
  <1>2. /\ DirT /\ AtT /\ acked \subseteq Items /\ \A q \in Proc : gain[q] \subseteq Items
    BY <1>0, CoreTypes
  <1>3. /\ acked' = acked /\ gain' = gain /\ clean' = clean /\ ~Idle(p) /\ Advance(p)
    BY DEF Filing
  <1>4. 0 \in {0} \cup Backup
    OBVIOUS
  <1>5. ASSUME NEW q \in Proc, NEW j \in Items, Progress(q, j), j \notin X \/ q = p,
               j \in X => /\ work[p].key \in Key
                          /\ j \in gain[p] \/ (p = "gui" /\ Kind = "rekey")
        PROVE  Progress(q, j)'
    <2>1. CASE j \in X
      BY <1>5, <2>1
    <2>2. CASE j \notin X
      <3>1. \/ plan'[q] = plan[q] /\ at'[q] = at[q]
            \/ /\ ~Idle(q) /\ Advance(q)
               /\ ~AtItem(q, "openItem", j) /\ ~AtItem(q, "writeItem", j)
        BY <1>1, <1>3, <2>2
      <3>2. dir'[0].item[j] = dir[0].item[j] /\ work'[q].key = work[q].key
        BY <1>4, <2>2
      <3>. QED
        BY <1>0, <1>5, <3>1, <3>2, ProgressKept
    <2>. QED
      BY <2>1, <2>2
  <1>6. KeyInv'
    <2>1. ~At(p, "writeKey")'
      BY <1>0, <1>3, NextStep
    <2>2. \A q \in Proc : \/ plan'[q] = plan[q] /\ at'[q] = at[q]
                          \/ ~At(q, "writeKey")' /\ (Writing(q)' => at'[q] = 0)
      BY <1>1, <2>1
    <2>3. \A n \in {0} \cup Backup : dir'[n].key = dir[n].key /\ (dir[n].there => dir'[n].there)
      OBVIOUS
    <2>. QED
      BY <1>0, <1>2, <2>2, <2>3, KeyFrame
  <1>7. MadeInv'
    <2>1. <<"writeKey">> \in Range(plan["gui"]) => <<"writeKey">> \in Range(plan'["gui"])
      <3>1. p = "gui" => Head(plan["gui"]) # <<"writeKey">>
        BY <1>3 DEF At
      <3>. QED
        BY <1>0, <1>1, <3>1 DEF Proc
    <2>2. Kind' \in {"create", "unlock"} => Kind' = Kind
      BY <1>1 DEF Proc
    <2>. QED
      BY <1>0, <2>1, <2>2, MadeFrame
  <1>8. TouchInv'
    BY <1>0, <1>1, <1>3, TouchFrame
  <1>9. GainInv'
    <2>1. ASSUME NEW q \in Proc, NEW i \in gain[q] PROVE Progress(q, i)'
      <3>1. i \in Items /\ Progress(q, i) /\ dir[0].key \in Key /\ work[q].key = dir[0].key
        BY <1>0, <1>2, <2>1 DEF GainInv
      <3>2. i \notin X \/ q = p
        BY <1>0, <2>1 DEF TouchInv, Other, Proc
      <3>3. i \in X => work[p].key \in Key /\ i \in gain[p]
        BY <2>1, <3>1, <3>2
      <3>. QED
        BY <1>5, <3>1, <3>2, <3>3
    <2>2. dir'[0].key = dir[0].key
      BY <1>4
    <2>. QED
      BY <1>0, <1>1, <1>3, <2>1, <2>2, GainFrame
  <1>10. RebuildInv'
    <2>1. \/ plan'["gui"] = plan["gui"]
          \/ /\ ~Idle("gui") /\ Advance("gui")
             /\ ~At("gui", "openKey") /\ ~At("gui", "writeKey")
      BY <1>0, <1>1, <1>3 DEF Proc
    <2>2. dir'[0].key = dir[0].key /\ work'["gui"].key = work["gui"].key
      BY <1>0, <1>4
    <2>3. Kind' = "rekeyStart" => Kind = "rekeyStart"
      BY <1>1
    <2>. QED
      BY <1>0, <1>1, <2>1, <2>2, <2>3, RebuildFrame
  <1>11. AckedInv'
    <2>1. ASSUME NEW i \in acked
          PROVE  /\ \A n \in Backup : ReadableIn(n, i) => ReadableIn(n, i)'
                 /\ ReadableIn(0, i) => ReadableIn(0, i)' \/ Kind = "rekey"
                 /\ Kind' = "rekeyStart" =>
                        Kind = "rekeyStart" /\ plan'["gui"] = plan["gui"]
                 /\ Rebuilding' => Progress("gui", i)'
      <3>1. i \in Items
        BY <1>2, <2>1
      <3>2. i \in X => p = "gui" /\ Kind = "rekey"
        <4>1. SUFFICES ASSUME i \in X PROVE p = "gui" /\ Kind = "rekey"
          OBVIOUS
        <4>2. p # "cli"
          BY <1>0, <2>1, <4>1 DEF TouchInv
        <4>3. p = "gui" /\ Kind \in {"rekeyStart", "rekey"}
          BY <1>0, <2>1, <4>1, <4>2 DEF TouchInv, Proc
        <4>4. Kind # "rekeyStart"
          BY <1>0, <4>3, KindInvWas DEF Filing, At, Idle
        <4>. QED
          BY <4>3, <4>4
      <3>3. \A n \in {0} \cup Backup : i \notin X \/ n # 0 => dir'[n].item[i] = dir[n].item[i]
        BY <3>1, <3>2
      <3>4. \A n \in Backup : ReadableIn(n, i) => ReadableIn(n, i)'
        <4>1. 0 \notin Backup /\ \A n \in Backup : n \in {0} \cup Backup
          BY BoundsAssumption DEF Backup
        <4>. QED
          BY <3>3, <4>1 DEF ReadableIn
      <3>5. ReadableIn(0, i) => ReadableIn(0, i)' \/ Kind = "rekey"
        BY <1>4, <3>2, <3>3 DEF ReadableIn
      <3>6. Kind' = "rekeyStart" => Kind = "rekeyStart" /\ plan'["gui"] = plan["gui"]
        BY <1>0, <1>1
      <3>7. Rebuilding' => Progress("gui", i)'
        <4>1. SUFFICES ASSUME Rebuilding' PROVE Progress("gui", i)'
          OBVIOUS
        <4>2. Rebuilding /\ Progress("gui", i)
          BY <1>0, <1>1, <2>1, <4>1 DEF AckedInv
        <4>3. i \in X => work["gui"].key \in Key
          <5>1. SUFFICES ASSUME i \in X PROVE work["gui"].key \in Key
            OBVIOUS
          <5>2. <<"openKey">> \notin Left("gui")
            BY <1>0, <1>3, <3>2, <5>1, NextStep DEF Left, Filing
          <5>. QED
            BY <1>0, <3>2, <4>2, <5>1, <5>2 DEF RebuildInv
        <4>. QED
          BY <1>0, <1>5, <3>1, <3>2, <4>2, <4>3
      <3>. QED
        BY <3>4, <3>5, <3>6, <3>7
    <2>2. Kind' = "rekey" => Kind = "rekey"
      BY <1>1 DEF Proc
    <2>. QED
      BY <1>0, <1>1, <1>2, <1>3, <2>1, <2>2, AckedFrame
  <1>. QED
    BY <1>6, <1>7, <1>8, <1>9, <1>10, <1>11 DEF FilesInv

\* The vault is being built: the last complete one is in a backup.
LEMMA GuiBuilds ==
    ASSUME Core, WholeFree, Filing("gui"), Kind = "rekey", Ahead > 8,
           \A n \in Backup : dir'[n] = dir[n], DOMAIN dir' = DOMAIN dir,
           work'["gui"].items = work["gui"].items,
           \A i \in work["gui"].items : Progress("gui", i) => Progress("gui", i)',
           Ahead = 10 => dir'[0].vault.k = Torn,
           Ahead = 9 /\ dir[0].vault.k = Torn => /\ dir'[0].vault.k = work'["gui"].key
                                                 /\ dir'[0].vault.items = work'["gui"].items
    PROVE  WholeFree'
  <1>0. Plans /\ KindInv /\ JobInv /\ WholeInv /\ BuildInv /\ "gui" \in Proc /\ "cli" \in Proc
    BY DEF Core, WholeFree, Proc
  <1>1. SUFFICES ASSUME whole # {} PROVE WholeFree'
    BY NoWhole DEF Filing
  <1>2. /\ Kind' \in {Kind, "idle"} /\ (Kind' = "idle" <=> Idle("gui")')
        /\ plan'["cli"] = plan["cli"] /\ Plans'
    BY <1>0, FilingFacts
  <1>3. Ahead \in Nat /\ Ahead' = Ahead - 1 /\ Ahead' > 7 /\ (Ahead' > 5 => Ahead > 5)
    <2>1. Ahead \in Nat /\ Ahead' = Ahead - 1
      BY <1>0, Advanced DEF Ahead, Filing
    <2>. QED
      BY <2>1
  <1>4. Kind' = "rekey"
    <2>1. Ahead' # 0
      BY <1>3
    <2>2. ~Idle("gui")'
      BY <2>1, EmptySeq DEF Idle, Ahead
    <2>. QED
      BY <1>2, <2>2
  <1>5. /\ state' = state /\ job' = job /\ whole' = whole
    BY DEF Filing
  <1>6. \A n \in Backup : HasWhole(n)' = HasWhole(n)
    BY <1>5 DEF HasWhole, Whole
  <1>7. /\ Idle("cli") /\ Named(job.gui.back)
        /\ HasWhole(job.gui.back) \/ (state = Cut /\ \E n \in Backup : HasWhole(n))
        /\ job.gui.back \in Backup
    <2>1. Ahead > 5
      BY <1>3
    <2>. QED
      BY <1>0, <1>1, <2>1, KindInvWas DEF WholeInv, Changing
  <1>8. Backup \subseteq DOMAIN dir'
    BY CoreTypes DEF Core
  <1>9. WholeInv'
    <2>1. Idle("cli")' /\ Named(job.gui.back)'
      BY <1>2, <1>5, <1>7 DEF Idle, Named, catalogueVaultVersion
    <2>2. \/ HasWhole(job.gui.back)'
          \/ state' = Cut /\ Ahead' > 7 /\ \E n \in Backup : HasWhole(n)'
      BY <1>3, <1>5, <1>6, <1>7
    <2>3. \E n \in DOMAIN dir' : HasWhole(n)'
      BY <1>5, <1>6, <1>7, <1>8
    <2>. QED
      BY <1>4, <2>1, <2>2, <2>3, WholeNow
  <1>10. BuildInv'
    <2>1. Ahead > 3
      BY <1>3
    <2>2. Rebuilding
      BY <2>1 DEF Rebuilding
    <2>3. \A i \in work'["gui"].items : Progress("gui", i)'
      BY <1>0, <1>1, <2>2 DEF BuildInv
    <2>4. Ahead' = 9 => dir'[0].vault.k = Torn
      BY <1>3
    <2>5. Ahead' < 9 => /\ dir'[0].vault.k = work'["gui"].key
                        /\ dir'[0].vault.items = work'["gui"].items
      <3>1. Ahead' < 9 => Ahead = 9
        BY <1>3
      <3>. QED
        BY <1>0, <1>1, <2>2, <3>1 DEF BuildInv
    <2>. QED
      BY <2>3, <2>4, <2>5 DEF BuildInv
  <1>. QED
    BY <1>9, <1>10 DEF WholeFree

\* One directory changes.
LEMMA PutDir ==
    ASSUME DirT, NEW n \in {0} \cup Backup, NEW d \in DirSet, dir' = [dir EXCEPT ![n] = d]
    PROVE  /\ DirT' /\ dir'[n] = d /\ DOMAIN dir' = DOMAIN dir
           /\ \A m \in {0} \cup Backup : m # n => dir'[m] = dir[m]
  BY DEF DirT

LEMMA ItemPut ==
    ASSUME NEW d \in DirSet, NEW i \in Items, NEW k \in File
    PROVE  LET e == [d EXCEPT !.item = [d.item EXCEPT ![i] = k]]
           IN  /\ e \in DirSet /\ e.there = d.there /\ e.key = d.key /\ e.vault = d.vault
               /\ e.item[i] = k /\ \A j \in Items : j # i => e.item[j] = d.item[j]
  BY DEF DirSet

LEMMA VaultPut ==
    ASSUME NEW d \in DirSet, NEW v \in [k : File, items : SUBSET Items, mod : Nat]
    PROVE  LET e == [d EXCEPT !.vault = v]
           IN  /\ e \in DirSet /\ e.there = d.there /\ e.key = d.key /\ e.vault = v
               /\ e.item = d.item
  BY DEF DirSet

LEMMA KeyPut ==
    ASSUME NEW d \in DirSet, NEW k \in File, NEW b \in BOOLEAN
    PROVE  LET e == [d EXCEPT !.there = b, !.key = k]
           IN  /\ e \in DirSet /\ e.there = b /\ e.key = k /\ e.vault = d.vault
               /\ e.item = d.item
  BY DEF DirSet

LEMMA FileKinds ==
    /\ Torn \in File /\ None \in File /\ Torn \notin Key /\ None \notin Key /\ Torn # None
    /\ \A k \in {None} \cup Key : k \in File
    /\ 0 \in {0} \cup Backup /\ 0 \notin Backup
    /\ \A n \in Backup : n \in {0} \cup Backup /\ n # 0
  BY BoundsAssumption DEF File, Torn, None, Key, Backup

LEMMA AtPut ==
    ASSUME AtT, NEW p \in Proc, at' = [at EXCEPT ![p] = 0]
    PROVE  AtT' /\ at'[p] = 0 /\ \A q \in Proc : q # p => at'[q] = at[q]
  BY DEF AtT

\* The steps of the window on the files of a vault, while one is vouched for.
LEMMA BuildHeads ==
    ASSUME StoreInv, whole # {}, ~Idle("gui"),
           \/ \E s \in {"openKey", "writeKey", "openVault", "writeVault"} : At("gui", s)
           \/ \E s, i : AtItem("gui", s, i)
    PROVE  /\ Kind = "rekey" /\ Ahead \in Nat /\ Ahead > 8
           /\ \A s \in {"openKey", "writeKey"} : At("gui", s) => Ahead > 10
           /\ \A s, i : AtItem("gui", s, i) => Ahead > 10 /\ s \in {"openItem", "writeItem"}
           /\ At("gui", "openVault") => Ahead = 10
           /\ At("gui", "writeVault") => Ahead = 9
  <1>0. Plans /\ KindInv /\ JobInv /\ WholeInv
    BY DEF StoreInv, Core, WholeFree
  <1>1. Kind \in {"idle", "none", "rekeyStart", "rekey", "rekeyed", "restore"}
    BY <1>0 DEF WholeInv
  <1>2. Kind # "idle"
    BY <1>0 DEF Kind, JobInv, Kinds, Proc
  <1>3. Kind # "none"
    <2>1. SUFFICES ASSUME Kind = "none" PROVE FALSE
      OBVIOUS
    <2>2. \A s, i : /\ ~AtItem("gui", s, i)
                    /\ At("gui", s) => s \in {"storeApp", "storeState", "writeState", "done"}
      BY <1>0, <2>1, OtherHeads DEF Changing
    <2>3. CASE \E s, i : AtItem("gui", s, i)
      BY <2>2, <2>3
    <2>4. CASE \E s \in {"openKey", "writeKey", "openVault", "writeVault"} : At("gui", s)
      <3>1. PICK s \in {"openKey", "writeKey", "openVault", "writeVault"} : At("gui", s)
        BY <2>4
      <3>2. s \in {"storeApp", "storeState", "writeState", "done"}
        BY <2>2, <3>1
      <3>. QED
        BY <3>1, <3>2
    <2>. QED
      BY <2>3, <2>4
  <1>4. Kind \in Changing
    BY <1>1, <1>2, <1>3 DEF Changing
  <1>5. /\ \A s \in {"openKey", "writeKey"} : At("gui", s) => Kind = "rekey" /\ Ahead > 10
        /\ \A s, i : AtItem("gui", s, i) =>
              Kind = "rekey" /\ Ahead > 10 /\ s \in {"openItem", "writeItem"}
        /\ At("gui", "openVault") => Kind = "rekey" /\ Ahead = 10
        /\ At("gui", "writeVault") => Kind = "rekey" /\ Ahead = 9
        /\ Ahead \in Nat
    BY <1>0, <1>4, ChangeHeads
  <1>6. \A n \in Nat : n > 10 \/ n = 10 \/ n = 9 => n > 8
    OBVIOUS
  <1>. QED
    BY <1>5, <1>6

\* The new vault's key, once it is made.
LEMMA BuiltKey ==
    ASSUME Plans, RebuildInv, Kind = "rekey", Ahead \in Nat, Ahead > 8, ~Idle("gui"), Advance("gui"),
           ~At("gui", "openKey"), ~At("gui", "moveAside"), ~At("gui", "writeKey")
    PROVE  dir[0].key \in Key /\ work["gui"].key = dir[0].key
  <1>1. <<"openKey">> \notin Left("gui")
    BY NextStep DEF Left, Proc
  <1>2. Rebuilding
    BY DEF Rebuilding
  <1>. QED
    BY <1>1, <1>2 DEF RebuildInv

LEMMA OfOpenItem ==
    ASSUME StoreInv, NEW p \in Proc, NEW i \in Items, OpenItem(p, i)
    PROVE  StoreInv'
  <1>0. /\ Core /\ FilesInv /\ StoreTypeOK /\ DirT /\ AtT /\ CountT /\ MemT
        /\ Plans /\ RebuildInv /\ "gui" \in Proc /\ "cli" \in Proc /\ dir[0] \in DirSet
    BY Types, CoreTypes DEF StoreInv, Core, FilesInv, Proc
  <1>. DEFINE d == [dir[0] EXCEPT !.item = [dir[0].item EXCEPT ![i] = Torn]]
              X == {i}
  <1>1. /\ AtItem(p, "openItem", i) /\ Advance(p) /\ dir' = [dir EXCEPT ![0] = d]
        /\ at' = [at EXCEPT ![p] = 0]
        /\ state' = state /\ pwOf' = pwOf /\ keys' = keys /\ clock' = clock
        /\ failures' = failures /\ mem' = mem /\ app' = app /\ work' = work /\ st' = st
        /\ job' = job /\ acked' = acked /\ gain' = gain /\ clean' = clean /\ whole' = whole
    BY DEF OpenItem, Truncated, hist
  <1>2. /\ d \in DirSet /\ d.there = dir[0].there /\ d.key = dir[0].key /\ d.vault = dir[0].vault
        /\ d.item[i] = Torn /\ \A j \in Items : j # i => d.item[j] = dir[0].item[j]
    BY <1>0, ItemPut, FileKinds
  <1>. HIDE DEF d
  <1>3. /\ DirT' /\ dir'[0] = d /\ DOMAIN dir' = DOMAIN dir
        /\ \A m \in {0} \cup Backup : m # 0 => dir'[m] = dir[m]
    BY <1>0, <1>1, <1>2, PutDir
  <1>4. AtT' /\ at'[p] = 0 /\ \A q \in Proc : q # p => at'[q] = at[q]
    BY <1>0, <1>1, AtPut
  <1>5. /\ ~Idle(p) /\ ~At(p, "moveAside") /\ ~At(p, "dropOlder") /\ ~At(p, "clearActive")
        /\ ~At(p, "openKey") /\ ~At(p, "writeKey")
        /\ \A j \in Items : j # i => ~AtItem(p, "openItem", j) /\ ~AtItem(p, "writeItem", j)
    BY <1>1, OneStep
  <1>6. Filing(p)
    BY <1>1, <1>5 DEF Filing
  <1>7. Plans' /\ KindInv' /\ JobInv' /\ StateT' /\ HistT'
    BY <1>0, <1>6, FilingFacts
  <1>8. StoreTypeOK'
    <2>1. CountT'
      BY <1>0, <1>1 DEF CountT
    <2>. QED
      BY <1>0, <1>1, <1>3, <1>4, <1>7, <2>1, SameMem, TypesNext
  <1>9. Progress(p, i)'
    BY <1>0, <1>1, <1>2, <1>3, <1>4, ProgressOpened
  <1>10. i \in Touching(p)
    <2>1. <<"openItem", i>> \in Range(plan[p])
      BY <1>0, <1>1, TailLeft DEF AtItem, Idle, Plans
    <2>. QED
      BY <2>1 DEF Touching, ItemStep
  <1>11. FilesInv'
    <2>1. \A n \in {0} \cup Backup : dir'[n].key = dir[n].key /\ dir'[n].there = dir[n].there
      BY <1>2, <1>3
    <2>2. \A n \in {0} \cup Backup, j \in Items :
               j \notin X \/ (p = "gui" /\ n # 0) => dir'[n].item[j] = dir[n].item[j]
      BY <1>2, <1>3
    <2>3. X \in SUBSET Items /\ X \subseteq Touching(p) /\ \A j : j \in X <=> j = i
      BY <1>10
    <2>. HIDE DEF X
    <2>4. /\ \A j \in Items : j \notin X => ~AtItem(p, "openItem", j) /\ ~AtItem(p, "writeItem", j)
          /\ \A j \in X : Progress(p, j)'
      BY <1>5, <1>9, <2>3
    <2>5. \A j \in X : Progress(p, j) /\ work[p].key \in Key
                        /\ (j \in gain[p] \/ (p = "gui" /\ Kind = "rekey")) => Progress(p, j)'
      BY <2>4
    <2>6. \A q \in Proc : work'[q].key = work[q].key /\ (q # p => at'[q] = at[q])
      BY <1>1, <1>4
    <2>7. /\ Core /\ FilesInv /\ DirT' /\ AtT' /\ ~At(p, "openKey") /\ ~At(p, "writeKey")
          /\ Writing(p)' => at'[p] = 0
      BY <1>0, <1>3, <1>4, <1>5
    <2>. QED
      BY <1>6, <2>1, <2>2, <2>3, <2>4, <2>5, <2>6, <2>7, ItemFiles
  <1>12. WholeFree'
    <2>1. SUFFICES ASSUME whole # {} PROVE WholeFree'
      BY <1>1, NoWhole
    <2>2. CASE p = "cli"
      BY <1>1, <1>5, <2>2, CliWhole DEF StoreInv
    <2>3. CASE p = "gui"
      <3>1. Kind = "rekey" /\ Ahead > 8 /\ Ahead \in Nat /\ Ahead > 10
        BY <1>1, <1>5, <2>1, <2>3, BuildHeads
      <3>2. \A n \in Backup : dir'[n] = dir[n]
        BY <1>3, FileKinds
      <3>3. \A j \in work["gui"].items : Progress("gui", j) => Progress("gui", j)'
        <4>1. SUFFICES ASSUME NEW j \in work["gui"].items, Progress("gui", j)
                       PROVE  Progress("gui", j)'
          OBVIOUS
        <4>2. j \in Items
          BY <1>0, <4>1 DEF MemT, Vault
        <4>3. CASE j = i
          BY <1>9, <2>3, <4>3
        <4>4. CASE j # i
          BY <1>0, <1>1, <1>2, <1>3, <1>5, <2>3, <4>1, <4>2, <4>4, ProgressKept
        <4>. QED
          BY <4>3, <4>4
      <3>4. Ahead # 10 /\ Ahead # 9
        BY <3>1
      <3>. QED
        BY <1>0, <1>1, <1>3, <1>6, <2>3, <3>1, <3>2, <3>3, <3>4, GuiBuilds DEF StoreInv
    <2>. QED
      BY <2>2, <2>3 DEF Proc
  <1>. QED
    BY <1>7, <1>8, <1>11, <1>12 DEF StoreInv, Core

LEMMA OfWriteItem ==
    ASSUME StoreInv, NEW p \in Proc, NEW i \in Items, WriteItem(p, i)
    PROVE  StoreInv'
  <1>0. /\ Core /\ FilesInv /\ StoreTypeOK /\ DirT /\ AtT /\ CountT /\ MemT
        /\ Plans /\ RebuildInv /\ KeyInv /\ "gui" \in Proc /\ "cli" \in Proc
    BY Types, CoreTypes DEF StoreInv, Core, FilesInv, Proc
  <1>. DEFINE X == {i}
              n0 == at[p]
  <1>1. /\ AtItem(p, "writeItem", i) /\ Advance(p) /\ at' = at
        /\ state' = state /\ pwOf' = pwOf /\ keys' = keys /\ clock' = clock
        /\ failures' = failures /\ mem' = mem /\ app' = app /\ work' = work /\ st' = st
        /\ job' = job /\ acked' = acked /\ gain' = gain /\ clean' = clean /\ whole' = whole
    BY DEF WriteItem, hist
  <1>2. n0 \in {-1, 0} \cup Backup /\ work[p] \in Vault /\ work[p].key \in {None} \cup Key
    BY <1>0 DEF AtT, MemT, Vault
  <1>3. p = "gui" => n0 = 0
    BY <1>0, <1>1 DEF KeyInv
  <1>4. \/ dir' = dir /\ n0 < 0
        \/ n0 \in {0} \cup Backup /\ \E k \in Filled(dir[n0].item[i], work[p].key) :
               dir' = [dir EXCEPT ![n0] = [dir[n0] EXCEPT !.item = [dir[n0].item EXCEPT ![i] = k]]]
    <2>1. CASE at[p] < 0
      BY <2>1 DEF WriteItem
    <2>2. CASE ~(at[p] < 0)
      <3>1. n0 \in {0} \cup Backup
        BY <1>2, <2>2
      <3>2. PICK k \in Filled(dir[n0].item[i], work[p].key) : dir' = [dir EXCEPT ![n0].item[i] = k]
        BY <2>2 DEF WriteItem
      <3>. QED
        BY <3>1, <3>2
    <2>. QED
      BY <2>1, <2>2
  <1>5. /\ DirT' /\ DOMAIN dir' = DOMAIN dir
        /\ \A m \in {0} \cup Backup : /\ m # n0 => dir'[m] = dir[m]
                                      /\ dir'[m].key = dir[m].key /\ dir'[m].there = dir[m].there
                                      /\ dir'[m].vault = dir[m].vault
                                      /\ \A j \in Items : j # i => dir'[m].item[j] = dir[m].item[j]
        /\ n0 = 0 => dir'[0].item[i] \in Filled(dir[0].item[i], work[p].key)
    <2>1. CASE dir' = dir /\ n0 < 0
      BY <1>0, <2>1, SameDir
    <2>2. CASE n0 \in {0} \cup Backup /\ \E k \in Filled(dir[n0].item[i], work[p].key) :
               dir' = [dir EXCEPT ![n0] = [dir[n0] EXCEPT !.item = [dir[n0].item EXCEPT ![i] = k]]]
      <3>1. PICK k \in Filled(dir[n0].item[i], work[p].key) :
               dir' = [dir EXCEPT ![n0] = [dir[n0] EXCEPT !.item = [dir[n0].item EXCEPT ![i] = k]]]
        BY <2>2
      <3>2. k \in File /\ dir[n0] \in DirSet
        BY <1>0, <1>2, <2>2, <3>1, FileKinds, CoreTypes DEF Filled
      <3>. DEFINE d == [dir[n0] EXCEPT !.item = [dir[n0].item EXCEPT ![i] = k]]
      <3>3. /\ d \in DirSet /\ d.there = dir[n0].there /\ d.key = dir[n0].key
            /\ d.vault = dir[n0].vault
            /\ d.item[i] = k /\ \A j \in Items : j # i => d.item[j] = dir[n0].item[j]
        BY <3>2, ItemPut
      <3>4. dir' = [dir EXCEPT ![n0] = d]
        BY <3>1
      <3>. HIDE DEF d, n0
      <3>5. /\ DirT' /\ dir'[n0] = d /\ DOMAIN dir' = DOMAIN dir
            /\ \A m \in {0} \cup Backup : m # n0 => dir'[m] = dir[m]
        BY <1>0, <2>2, <3>3, <3>4, PutDir
      <3>6. /\ dir'[n0].key = dir[n0].key /\ dir'[n0].there = dir[n0].there
            /\ dir'[n0].vault = dir[n0].vault
            /\ \A j \in Items : j # i => dir'[n0].item[j] = dir[n0].item[j]
        BY <3>3, <3>5
      <3>7. n0 = 0 => dir'[0].item[i] \in Filled(dir[0].item[i], work[p].key)
        BY <3>1, <3>3, <3>5
      <3>. QED
        BY <3>5, <3>6, <3>7
    <2>. QED
      BY <1>4, <2>1, <2>2
  <1>. HIDE DEF n0
  <1>6. AtT'
    BY <1>0, <1>1, SameAt
  <1>7. /\ ~Idle(p) /\ ~At(p, "moveAside") /\ ~At(p, "dropOlder") /\ ~At(p, "clearActive")
        /\ ~At(p, "openKey") /\ ~At(p, "writeKey")
        /\ \A j \in Items : j # i => ~AtItem(p, "openItem", j) /\ ~AtItem(p, "writeItem", j)
        /\ ~At(p, "openVault") /\ \A j \in Items : ~AtItem(p, "openItem", j)
    BY <1>1, OneStep
  <1>8. Filing(p)
    BY <1>1, <1>7 DEF Filing
  <1>9. Plans' /\ KindInv' /\ JobInv' /\ StateT' /\ HistT'
    BY <1>0, <1>8, FilingFacts
  <1>10. StoreTypeOK'
    <2>1. CountT'
      BY <1>0, <1>1 DEF CountT
    <2>. QED
      BY <1>0, <1>1, <1>5, <1>6, <1>9, <2>1, SameMem, TypesNext
  <1>11. Progress(p, i) /\ work[p].key \in Key => Progress(p, i)'
    <2>1. SUFFICES ASSUME Progress(p, i), work[p].key \in Key PROVE Progress(p, i)'
      OBVIOUS
    <2>2. n0 = 0 /\ dir[0].item[i] = Torn
      BY <1>1, <2>1 DEF Progress, n0
    <2>3. dir'[0].item[i] = work'[p].key
      BY <1>1, <1>5, <2>2 DEF Filled
    <2>. QED
      BY <1>0, <1>1, <2>1, <2>3, ProgressWritten
  <1>12. i \in Touching(p)
    <2>1. <<"writeItem", i>> \in Range(plan[p])
      BY <1>0, <1>1, TailLeft DEF AtItem, Idle, Plans
    <2>. QED
      BY <2>1 DEF Touching, ItemStep
  <1>13. ~Writing(p)'
    BY <1>0, <1>1, <1>7, NextStep DEF Writing
  <1>14. FilesInv'
    <2>1. \A n \in {0} \cup Backup : dir'[n].key = dir[n].key /\ dir'[n].there = dir[n].there
      BY <1>5
    <2>2. \A n \in {0} \cup Backup, j \in Items :
               j \notin X \/ (p = "gui" /\ n # 0) => dir'[n].item[j] = dir[n].item[j]
      BY <1>3, <1>5
    <2>3. X \in SUBSET Items /\ X \subseteq Touching(p) /\ \A j : j \in X <=> j = i
      BY <1>12
    <2>. HIDE DEF X
    <2>4. /\ \A j \in Items : j \notin X => ~AtItem(p, "openItem", j) /\ ~AtItem(p, "writeItem", j)
          /\ \A j \in X : Progress(p, j) /\ work[p].key \in Key => Progress(p, j)'
      BY <1>7, <1>11, <2>3
    <2>5. \A j \in X : Progress(p, j) /\ work[p].key \in Key
                        /\ (j \in gain[p] \/ (p = "gui" /\ Kind = "rekey")) => Progress(p, j)'
      BY <2>4
    <2>6. \A q \in Proc : work'[q].key = work[q].key /\ (q # p => at'[q] = at[q])
      BY <1>1
    <2>7. /\ Core /\ FilesInv /\ DirT' /\ AtT' /\ ~At(p, "openKey") /\ ~At(p, "writeKey")
          /\ Writing(p)' => at'[p] = 0
      BY <1>0, <1>5, <1>6, <1>7, <1>13
    <2>. QED
      BY <1>8, <2>1, <2>2, <2>3, <2>4, <2>5, <2>6, <2>7, ItemFiles
  <1>15. WholeFree'
    <2>1. SUFFICES ASSUME whole # {} PROVE WholeFree'
      BY <1>1, NoWhole
    <2>2. CASE p = "cli"
      BY <1>1, <1>7, <2>2, CliWhole DEF StoreInv
    <2>3. CASE p = "gui"
      <3>1. Kind = "rekey" /\ Ahead > 8 /\ Ahead \in Nat /\ Ahead > 10
        BY <1>1, <1>7, <2>1, <2>3, BuildHeads
      <3>2. \A n \in Backup : dir'[n] = dir[n]
        BY <1>3, <1>5, <2>3, FileKinds
      <3>3. work["gui"].key \in Key
        BY <1>0, <1>1, <1>7, <2>3, <3>1, BuiltKey
      <3>4. \A j \in work["gui"].items : Progress("gui", j) => Progress("gui", j)'
        <4>1. SUFFICES ASSUME NEW j \in work["gui"].items, Progress("gui", j)
                       PROVE  Progress("gui", j)'
          OBVIOUS
        <4>2. j \in Items
          BY <1>0, <4>1 DEF MemT, Vault
        <4>3. CASE j = i
          BY <1>11, <2>3, <3>3, <4>1, <4>3
        <4>4. CASE j # i
          BY <1>0, <1>1, <1>5, <1>7, <2>3, <4>1, <4>2, <4>4, FileKinds, ProgressKept
        <4>. QED
          BY <4>3, <4>4
      <3>5. Ahead # 10 /\ Ahead # 9
        BY <3>1
      <3>. QED
        BY <1>0, <1>1, <1>5, <1>8, <2>3, <3>1, <3>2, <3>4, <3>5, GuiBuilds DEF StoreInv
    <2>. QED
      BY <2>2, <2>3 DEF Proc
  <1>. QED
    BY <1>9, <1>10, <1>14, <1>15 DEF StoreInv, Core

LEMMA OfOpenVault ==
    ASSUME StoreInv, NEW p \in Proc, OpenVault(p)
    PROVE  StoreInv'
  <1>0. /\ Core /\ FilesInv /\ StoreTypeOK /\ DirT /\ AtT /\ CountT /\ MemT
        /\ Plans /\ RebuildInv /\ "gui" \in Proc /\ "cli" \in Proc /\ dir[0] \in DirSet
    BY Types, CoreTypes DEF StoreInv, Core, FilesInv, Proc
  <1>. DEFINE v == [NoVault EXCEPT !.k = Torn]
              d == [dir[0] EXCEPT !.vault = v]
              X == {}
  <1>1. /\ At(p, "openVault") /\ Advance(p) /\ dir' = [dir EXCEPT ![0] = d]
        /\ at' = [at EXCEPT ![p] = 0]
        /\ state' = state /\ pwOf' = pwOf /\ keys' = keys /\ clock' = clock
        /\ failures' = failures /\ mem' = mem /\ app' = app /\ work' = work /\ st' = st
        /\ job' = job /\ acked' = acked /\ gain' = gain /\ clean' = clean /\ whole' = whole
    BY DEF OpenVault, Truncated, hist
  <1>2. /\ d \in DirSet /\ d.there = dir[0].there /\ d.key = dir[0].key
        /\ d.vault.k = Torn /\ d.item = dir[0].item
    <2>1. v \in [k : File, items : SUBSET Items, mod : Nat] /\ v.k = Torn
      BY FileKinds DEF NoVault, VaultListing
    <2>. HIDE DEF v
    <2>. QED
      BY <1>0, <2>1, VaultPut
  <1>. HIDE DEF d
  <1>3. /\ DirT' /\ dir'[0] = d /\ DOMAIN dir' = DOMAIN dir
        /\ \A m \in {0} \cup Backup : m # 0 => dir'[m] = dir[m]
    BY <1>0, <1>1, <1>2, PutDir
  <1>4. AtT' /\ at'[p] = 0 /\ \A q \in Proc : q # p => at'[q] = at[q]
    BY <1>0, <1>1, AtPut
  <1>5. /\ ~Idle(p) /\ ~At(p, "moveAside") /\ ~At(p, "dropOlder") /\ ~At(p, "clearActive")
        /\ ~At(p, "openKey") /\ ~At(p, "writeKey")
        /\ \A j \in Items : ~AtItem(p, "openItem", j) /\ ~AtItem(p, "writeItem", j)
    BY <1>1, OneStep
  <1>6. Filing(p)
    BY <1>1, <1>5 DEF Filing
  <1>7. Plans' /\ KindInv' /\ JobInv' /\ StateT' /\ HistT'
    BY <1>0, <1>6, FilingFacts
  <1>8. StoreTypeOK'
    <2>1. CountT'
      BY <1>0, <1>1 DEF CountT
    <2>. QED
      BY <1>0, <1>1, <1>3, <1>4, <1>7, <2>1, SameMem, TypesNext
  <1>9. FilesInv'
    <2>1. \A n \in {0} \cup Backup : dir'[n].key = dir[n].key /\ dir'[n].there = dir[n].there
      BY <1>2, <1>3
    <2>2. \A n \in {0} \cup Backup, j \in Items :
               j \notin X \/ (p = "gui" /\ n # 0) => dir'[n].item[j] = dir[n].item[j]
      BY <1>2, <1>3
    <2>3. X \in SUBSET Items /\ X \subseteq Touching(p) /\ \A j : j \notin X
      OBVIOUS
    <2>. HIDE DEF X
    <2>4. \A j \in Items : j \notin X => ~AtItem(p, "openItem", j) /\ ~AtItem(p, "writeItem", j)
      BY <1>5
    <2>5. \A j \in X : Progress(p, j) /\ work[p].key \in Key
                        /\ (j \in gain[p] \/ (p = "gui" /\ Kind = "rekey")) => Progress(p, j)'
      BY <2>3
    <2>6. \A q \in Proc : work'[q].key = work[q].key /\ (q # p => at'[q] = at[q])
      BY <1>1, <1>4
    <2>7. /\ Core /\ FilesInv /\ DirT' /\ AtT' /\ ~At(p, "openKey") /\ ~At(p, "writeKey")
          /\ Writing(p)' => at'[p] = 0
      BY <1>0, <1>3, <1>4, <1>5
    <2>. QED
      BY <1>6, <2>1, <2>2, <2>3, <2>4, <2>5, <2>6, <2>7, ItemFiles
  <1>10. WholeFree'
    <2>1. SUFFICES ASSUME whole # {} PROVE WholeFree'
      BY <1>1, NoWhole
    <2>2. CASE p = "cli"
      BY <1>1, <1>5, <2>2, CliWhole DEF StoreInv
    <2>3. CASE p = "gui"
      <3>1. Kind = "rekey" /\ Ahead > 8 /\ Ahead \in Nat /\ Ahead = 10
        BY <1>1, <1>5, <2>1, <2>3, BuildHeads
      <3>2. \A n \in Backup : dir'[n] = dir[n]
        BY <1>3, FileKinds
      <3>3. \A j \in work["gui"].items : Progress("gui", j) => Progress("gui", j)'
        <4>1. SUFFICES ASSUME NEW j \in work["gui"].items, Progress("gui", j)
                       PROVE  Progress("gui", j)'
          OBVIOUS
        <4>2. j \in Items
          BY <1>0, <4>1 DEF MemT, Vault
        <4>. QED
          BY <1>0, <1>1, <1>2, <1>3, <1>5, <2>3, <4>1, <4>2, ProgressKept
      <3>4. Ahead # 9 /\ dir'[0].vault.k = Torn
        BY <1>2, <1>3, <3>1
      <3>. QED
        BY <1>0, <1>1, <1>3, <1>6, <2>3, <3>1, <3>2, <3>3, <3>4, GuiBuilds DEF StoreInv
    <2>. QED
      BY <2>2, <2>3 DEF Proc
  <1>. QED
    BY <1>7, <1>8, <1>9, <1>10 DEF StoreInv, Core

LEMMA OfWriteVault ==
    ASSUME StoreInv, NEW p \in Proc, WriteVault(p)
    PROVE  StoreInv'
  <1>0. /\ Core /\ FilesInv /\ StoreTypeOK /\ DirT /\ AtT /\ CountT /\ MemT
        /\ Plans /\ RebuildInv /\ KeyInv /\ "gui" \in Proc /\ "cli" \in Proc
    BY Types, CoreTypes DEF StoreInv, Core, FilesInv, Proc
  <1>. DEFINE X == {}
              n0 == at[p]
              file(k) == IF k = Torn THEN [NoVault EXCEPT !.k = Torn]
                         ELSE VaultListing(k, work[p].items, work[p].mod)
  <1>1. /\ At(p, "writeVault") /\ Advance(p) /\ at' = at
        /\ state' = state /\ pwOf' = pwOf /\ keys' = keys /\ clock' = clock
        /\ failures' = failures /\ mem' = mem /\ app' = app /\ work' = work /\ st' = st
        /\ job' = job /\ acked' = acked /\ gain' = gain /\ clean' = clean /\ whole' = whole
    BY DEF WriteVault, hist
  <1>2. n0 \in {-1, 0} \cup Backup /\ work[p] \in Vault /\ work[p].key \in {None} \cup Key
    BY <1>0 DEF AtT, MemT, Vault
  <1>3. p = "gui" => n0 = 0
    BY <1>0, <1>1 DEF KeyInv
  <1>4. \/ dir' = dir /\ n0 < 0
        \/ n0 \in {0} \cup Backup /\ \E k \in Filled(dir[n0].vault.k, work[p].key) :
               dir' = [dir EXCEPT ![n0] = [dir[n0] EXCEPT !.vault = file(k)]]
    <2>1. CASE at[p] < 0
      BY <2>1 DEF WriteVault
    <2>2. CASE ~(at[p] < 0)
      <3>1. n0 \in {0} \cup Backup
        BY <1>2, <2>2
      <3>2. PICK k \in Filled(dir[n0].vault.k, work[p].key) : dir' = [dir EXCEPT ![n0].vault = file(k)]
        BY <2>2 DEF WriteVault
      <3>. QED
        BY <3>1, <3>2
    <2>. QED
      BY <2>1, <2>2
  <1>5. /\ DirT' /\ DOMAIN dir' = DOMAIN dir
        /\ \A m \in {0} \cup Backup : /\ m # n0 => dir'[m] = dir[m]
                                      /\ dir'[m].key = dir[m].key /\ dir'[m].there = dir[m].there
                                      /\ dir'[m].item = dir[m].item
        /\ n0 = 0 => \E k \in Filled(dir[0].vault.k, work[p].key) : dir'[0].vault = file(k)
    <2>1. CASE dir' = dir /\ n0 < 0
      BY <1>0, <2>1, SameDir
    <2>2. CASE n0 \in {0} \cup Backup /\ \E k \in Filled(dir[n0].vault.k, work[p].key) :
               dir' = [dir EXCEPT ![n0] = [dir[n0] EXCEPT !.vault = file(k)]]
      <3>1. PICK k \in Filled(dir[n0].vault.k, work[p].key) :
               dir' = [dir EXCEPT ![n0] = [dir[n0] EXCEPT !.vault = file(k)]]
        BY <2>2
      <3>2. k \in File /\ dir[n0] \in DirSet
        BY <1>0, <1>2, <2>2, <3>1, FileKinds, CoreTypes DEF Filled
      <3>3. file(k) \in [k : File, items : SUBSET Items, mod : Nat]
        <4>1. work[p].items \in SUBSET Items /\ work[p].mod \in Nat
          BY <1>2 DEF Vault
        <4>2. VaultListing(k, work[p].items, work[p].mod) \in [k : File, items : SUBSET Items, mod : Nat]
          BY <3>2, <4>1 DEF VaultListing
        <4>3. [NoVault EXCEPT !.k = Torn] \in [k : File, items : SUBSET Items, mod : Nat]
          BY FileKinds DEF NoVault, VaultListing
        <4>. QED
          BY <4>2, <4>3
      <3>. DEFINE v == file(k)
                  d == [dir[n0] EXCEPT !.vault = v]
      <3>. HIDE DEF v
      <3>4. /\ d \in DirSet /\ d.there = dir[n0].there /\ d.key = dir[n0].key
            /\ d.vault = v /\ d.item = dir[n0].item
        BY <3>2, <3>3, VaultPut DEF v
      <3>5. dir' = [dir EXCEPT ![n0] = d]
        BY <3>1 DEF v
      <3>. HIDE DEF d, n0
      <3>6. /\ DirT' /\ dir'[n0] = d /\ DOMAIN dir' = DOMAIN dir
            /\ \A m \in {0} \cup Backup : m # n0 => dir'[m] = dir[m]
        BY <1>0, <2>2, <3>4, <3>5, PutDir
      <3>7. \A m \in {0} \cup Backup : /\ dir'[m].key = dir[m].key /\ dir'[m].there = dir[m].there
                                       /\ dir'[m].item = dir[m].item
        BY <3>4, <3>6
      <3>8. n0 = 0 => dir'[0].vault = file(k)
        BY <3>4, <3>6 DEF v
      <3>. QED
        BY <3>1, <3>6, <3>7, <3>8
    <2>. QED
      BY <1>4, <2>1, <2>2
  <1>. HIDE DEF n0
  <1>6. AtT'
    BY <1>0, <1>1, SameAt
  <1>7. /\ ~Idle(p) /\ ~At(p, "moveAside") /\ ~At(p, "dropOlder") /\ ~At(p, "clearActive")
        /\ ~At(p, "openKey") /\ ~At(p, "writeKey") /\ ~At(p, "openVault")
        /\ \A j \in Items : ~AtItem(p, "openItem", j) /\ ~AtItem(p, "writeItem", j)
    BY <1>1, OneStep
  <1>8. Filing(p)
    BY <1>1, <1>7 DEF Filing
  <1>9. Plans' /\ KindInv' /\ JobInv' /\ StateT' /\ HistT'
    BY <1>0, <1>8, FilingFacts
  <1>10. StoreTypeOK'
    <2>1. CountT'
      BY <1>0, <1>1 DEF CountT
    <2>. QED
      BY <1>0, <1>1, <1>5, <1>6, <1>9, <2>1, SameMem, TypesNext
  <1>11. ~Writing(p)'
    BY <1>0, <1>1, <1>7, NextStep DEF Writing
  <1>12. FilesInv'
    <2>1. \A n \in {0} \cup Backup : dir'[n].key = dir[n].key /\ dir'[n].there = dir[n].there
      BY <1>5
    <2>2. \A n \in {0} \cup Backup, j \in Items :
               j \notin X \/ (p = "gui" /\ n # 0) => dir'[n].item[j] = dir[n].item[j]
      BY <1>5
    <2>3. X \in SUBSET Items /\ X \subseteq Touching(p) /\ \A j : j \notin X
      OBVIOUS
    <2>. HIDE DEF X
    <2>4. \A j \in Items : j \notin X => ~AtItem(p, "openItem", j) /\ ~AtItem(p, "writeItem", j)
      BY <1>7
    <2>5. \A j \in X : Progress(p, j) /\ work[p].key \in Key
                        /\ (j \in gain[p] \/ (p = "gui" /\ Kind = "rekey")) => Progress(p, j)'
      BY <2>3
    <2>6. \A q \in Proc : work'[q].key = work[q].key /\ (q # p => at'[q] = at[q])
      BY <1>1
    <2>7. /\ Core /\ FilesInv /\ DirT' /\ AtT' /\ ~At(p, "openKey") /\ ~At(p, "writeKey")
          /\ Writing(p)' => at'[p] = 0
      BY <1>0, <1>5, <1>6, <1>7, <1>11
    <2>. QED
      BY <1>8, <2>1, <2>2, <2>3, <2>4, <2>5, <2>6, <2>7, ItemFiles
  <1>13. WholeFree'
    <2>1. SUFFICES ASSUME whole # {} PROVE WholeFree'
      BY <1>1, NoWhole
    <2>2. CASE p = "cli"
      BY <1>1, <1>7, <2>2, CliWhole DEF StoreInv
    <2>3. CASE p = "gui"
      <3>1. Kind = "rekey" /\ Ahead > 8 /\ Ahead \in Nat /\ Ahead = 9
        BY <1>1, <1>7, <2>1, <2>3, BuildHeads
      <3>2. \A n \in Backup : dir'[n] = dir[n]
        BY <1>3, <1>5, <2>3, FileKinds
      <3>3. work["gui"].key \in Key
        BY <1>0, <1>1, <1>7, <2>3, <3>1, BuiltKey
      <3>4. \A j \in work["gui"].items : Progress("gui", j) => Progress("gui", j)'
        <4>1. SUFFICES ASSUME NEW j \in work["gui"].items, Progress("gui", j)
                       PROVE  Progress("gui", j)'
          OBVIOUS
        <4>2. j \in Items
          BY <1>0, <4>1 DEF MemT, Vault
        <4>. QED
          BY <1>0, <1>1, <1>5, <1>7, <2>3, <4>1, <4>2, FileKinds, ProgressKept
      <3>5. dir[0].vault.k = Torn => /\ dir'[0].vault.k = work'["gui"].key
                                     /\ dir'[0].vault.items = work'["gui"].items
        <4>1. SUFFICES ASSUME dir[0].vault.k = Torn
                       PROVE  /\ dir'[0].vault.k = work'["gui"].key
                              /\ dir'[0].vault.items = work'["gui"].items
          OBVIOUS
        <4>2. Filled(dir[0].vault.k, work["gui"].key) = {work["gui"].key}
          BY <4>1 DEF Filled
        <4>3. dir'[0].vault = file(work["gui"].key)
          BY <1>3, <1>5, <2>3, <4>2
        <4>4. work["gui"].key # Torn
          BY <3>3, FileKinds
        <4>. QED
          BY <1>1, <2>3, <4>3, <4>4 DEF VaultListing
      <3>6. Ahead # 10
        BY <3>1
      <3>. QED
        BY <1>0, <1>1, <1>5, <1>8, <2>3, <3>1, <3>2, <3>4, <3>5, <3>6, GuiBuilds DEF StoreInv
    <2>. QED
      BY <2>2, <2>3 DEF Proc
  <1>. QED
    BY <1>9, <1>10, <1>12, <1>13 DEF StoreInv, Core

LEMMA OfRemoveItem ==
    ASSUME StoreInv, NEW p \in Proc, NEW i \in Items, RemoveItem(p, i)
    PROVE  StoreInv'
  <1>0. /\ Core /\ FilesInv /\ StoreTypeOK /\ DirT /\ AtT /\ CountT /\ MemT /\ KindInv
        /\ Plans /\ GainInv /\ "gui" \in Proc /\ "cli" \in Proc /\ dir[0] \in DirSet
    BY Types, CoreTypes DEF StoreInv, Core, FilesInv, Proc
  <1>. DEFINE d == [dir[0] EXCEPT !.item = [dir[0].item EXCEPT ![i] = None]]
              X == {i}
  <1>1. PICK s \in {"removeItem", "forget"} : AtItem(p, s, i)
    BY DEF RemoveItem
  <1>2. /\ Advance(p) /\ dir' = [dir EXCEPT ![0] = d] /\ at' = at
        /\ state' = state /\ pwOf' = pwOf /\ keys' = keys /\ clock' = clock
        /\ failures' = failures /\ app' = app /\ st' = st
        /\ job' = job /\ acked' = acked /\ gain' = gain /\ clean' = clean /\ whole' = whole
    BY DEF RemoveItem, hist
  <1>3. /\ work' \in [Proc -> Vault] /\ \A q \in Proc : work'[q].key = work[q].key
        /\ mem' = Nil \/ (mem' \in Vault /\ mem'.key \in Key)
    <2>. DEFINE a == [work[p] EXCEPT !.items = IF AtItem(p, "forget", i) THEN @ \ {i} ELSE @]
                m == [mem EXCEPT !.items = @ \ {i}]
    <2>1. work' = [work EXCEPT ![p] = a] /\ mem' = IF AtItem(p, "forget", i) THEN m ELSE mem
      BY <1>0 DEF RemoveItem, MemT
    <2>2. a \in Vault /\ a.key = work[p].key
      BY <1>0 DEF MemT, Vault
    <2>3. m = Nil \/ (m \in Vault /\ m.key \in Key)
      <3>1. CASE mem = Nil
        BY <3>1 DEF Nil
      <3>2. CASE mem \in Vault /\ mem.key \in Key
        BY <3>2 DEF Vault
      <3>. QED
        BY <1>0, <3>1, <3>2 DEF MemT
    <2>. HIDE DEF a, m
    <2>. QED
      BY <1>0, <2>1, <2>2, <2>3 DEF MemT
  <1>4. /\ d \in DirSet /\ d.there = dir[0].there /\ d.key = dir[0].key /\ d.vault = dir[0].vault
        /\ \A j \in Items : j # i => d.item[j] = dir[0].item[j]
    BY <1>0, ItemPut, FileKinds
  <1>. HIDE DEF d
  <1>5. /\ DirT' /\ dir'[0] = d /\ DOMAIN dir' = DOMAIN dir
        /\ \A m \in {0} \cup Backup : m # 0 => dir'[m] = dir[m]
    BY <1>0, <1>2, <1>4, PutDir
  <1>6. AtT'
    BY <1>0, <1>2, SameAt
  <1>7. /\ ~Idle(p) /\ ~At(p, "moveAside") /\ ~At(p, "dropOlder") /\ ~At(p, "clearActive")
        /\ ~At(p, "openKey") /\ ~At(p, "writeKey") /\ ~At(p, "openVault")
        /\ \A j \in Items : ~AtItem(p, "openItem", j) /\ ~AtItem(p, "writeItem", j)
    BY <1>1, OneStep
  <1>8. Filing(p)
    BY <1>2, <1>7 DEF Filing
  <1>9. Plans' /\ KindInv' /\ JobInv' /\ StateT' /\ HistT'
    BY <1>0, <1>8, FilingFacts
  <1>10. StoreTypeOK'
    <2>1. CountT'
      BY <1>0, <1>2 DEF CountT
    <2>2. MemT'
      BY <1>3 DEF MemT
    <2>. QED
      BY <1>5, <1>6, <1>9, <2>1, <2>2, TypesNext
  <1>11. <<s, i>> \in Range(plan[p])
    BY <1>0, <1>1, TailLeft DEF AtItem, Idle, Plans
  <1>12. i \in Touching(p) /\ i \notin gain[p]
    BY <1>0, <1>11 DEF Touching, ItemStep, GainInv, Left
  <1>13. p = "gui" => Kind \notin Changing
    BY <1>0, <1>1, ChangeHeads
  <1>14. ~Writing(p)'
    BY <1>0, <1>2, <1>7, NextStep DEF Writing
  <1>15. FilesInv'
    <2>1. \A n \in {0} \cup Backup : dir'[n].key = dir[n].key /\ dir'[n].there = dir[n].there
      BY <1>4, <1>5
    <2>2. \A n \in {0} \cup Backup, j \in Items :
               j \notin X \/ (p = "gui" /\ n # 0) => dir'[n].item[j] = dir[n].item[j]
      BY <1>4, <1>5
    <2>3. X \in SUBSET Items /\ X \subseteq Touching(p) /\ \A j : j \in X <=> j = i
      BY <1>12
    <2>. HIDE DEF X
    <2>4. \A j \in Items : j \notin X => ~AtItem(p, "openItem", j) /\ ~AtItem(p, "writeItem", j)
      BY <1>7
    <2>5. \A j \in X : Progress(p, j) /\ work[p].key \in Key
                        /\ (j \in gain[p] \/ (p = "gui" /\ Kind = "rekey")) => Progress(p, j)'
      BY <1>12, <1>13, <2>3 DEF Changing
    <2>6. \A q \in Proc : work'[q].key = work[q].key /\ (q # p => at'[q] = at[q])
      BY <1>2, <1>3
    <2>7. /\ Core /\ FilesInv /\ DirT' /\ AtT' /\ ~At(p, "openKey") /\ ~At(p, "writeKey")
          /\ Writing(p)' => at'[p] = 0
      BY <1>0, <1>5, <1>6, <1>7, <1>14
    <2>. QED
      BY <1>8, <2>1, <2>2, <2>3, <2>4, <2>5, <2>6, <2>7, ItemFiles
  <1>16. WholeFree'
    <2>1. SUFFICES ASSUME whole # {} PROVE WholeFree'
      BY <1>2, NoWhole
    <2>2. CASE p = "cli"
      BY <1>2, <1>7, <2>2, CliWhole DEF StoreInv
    <2>3. CASE p = "gui"
      <3>1. s \in {"openItem", "writeItem"}
        BY <1>1, <1>7, <2>1, <2>3, BuildHeads
      <3>. QED
        BY <3>1
    <2>. QED
      BY <2>2, <2>3 DEF Proc
  <1>. QED
    BY <1>9, <1>10, <1>15, <1>16 DEF StoreInv, Core

\* Once the key is opened it is opened no more.
LEMMA KeyOpened ==
    ASSUME Plans', NEW p \in Proc, At(p, "writeKey")' \/ <<"openKey">> \notin Range(plan'[p])
    PROVE  <<"openKey">> \notin Range(plan'[p])
  <1>1. CASE At(p, "writeKey")'
    <2>1. /\ plan'[p] \in Seq(StepSet) /\ WellFormed(plan'[p]) /\ plan'[p] # <<>>
          /\ Head(plan'[p]) = <<"writeKey">>
      BY <1>1 DEF Plans, At, Idle, WellFormed
    <2>. DEFINE t == plan'[p]
                u == Tail(t)
    <2>. HIDE DEF t, u
    <2>2. <<"openKey">> \in Range(t) => Head(t) \in {<<"openKey">>, <<"moveAside">>}
      BY <2>1, TailHead DEF t, u
    <2>3. Head(t) = <<"writeKey">>
      BY <2>1 DEF t
    <2>4. <<"writeKey">> # <<"openKey">> /\ <<"writeKey">> # <<"moveAside">>
      BY Names DEF StepNames
    <2>. QED
      BY <2>2, <2>3, <2>4 DEF t
  <1>. QED
    BY <1>1

LEMMA OfOpenKey ==
    ASSUME StoreInv, NEW p \in Proc, OpenKey(p)
    PROVE  StoreInv'
  <1>0. /\ Core /\ FilesInv /\ StoreTypeOK /\ DirT /\ AtT /\ CountT /\ MemT /\ KindInv
        /\ Plans /\ RebuildInv /\ KeyInv /\ MadeInv /\ TouchInv /\ GainInv /\ AckedInv
        /\ "gui" \in Proc /\ "cli" \in Proc /\ dir[0] \in DirSet
    BY Types, CoreTypes DEF StoreInv, Core, FilesInv, Proc
  <1>. DEFINE d == [dir[0] EXCEPT !.there = TRUE, !.key = Torn]
  <1>1. /\ At(p, "openKey") /\ dir[0].key = None /\ Advance(p) /\ dir' = [dir EXCEPT ![0] = d]
        /\ at' = [at EXCEPT ![p] = 0]
        /\ state' = state /\ pwOf' = pwOf /\ keys' = keys /\ clock' = clock
        /\ failures' = failures /\ mem' = mem /\ app' = app /\ work' = work /\ st' = st
        /\ job' = job /\ acked' = acked /\ gain' = gain /\ clean' = clean /\ whole' = whole
    BY DEF OpenKey, Truncated, hist
  <1>2. d \in DirSet /\ d.there = TRUE /\ d.key = Torn /\ d.vault = dir[0].vault /\ d.item = dir[0].item
    BY <1>0, FileKinds, KeyPut
  <1>. HIDE DEF d
  <1>3. /\ DirT' /\ dir'[0] = d /\ DOMAIN dir' = DOMAIN dir
        /\ \A m \in {0} \cup Backup : m # 0 => dir'[m] = dir[m]
    BY <1>0, <1>1, <1>2, PutDir
  <1>4. AtT' /\ at'[p] = 0 /\ \A q \in Proc : q # p => at'[q] = at[q]
    BY <1>0, <1>1, AtPut
  <1>5. /\ ~Idle(p) /\ ~At(p, "moveAside") /\ ~At(p, "dropOlder") /\ ~At(p, "clearActive")
        /\ ~At(p, "writeKey") /\ ~At(p, "openVault")
        /\ \A j \in Items : ~AtItem(p, "openItem", j) /\ ~AtItem(p, "writeItem", j)
    BY <1>1, OneStep
  <1>6. Filing(p)
    BY <1>1, <1>5 DEF Filing
  <1>7. /\ Plans' /\ KindInv' /\ JobInv' /\ StateT' /\ HistT'
        /\ p = "cli" => Kind' = Kind
        /\ p = "gui" => Kind' \in {Kind, "idle"} /\ (Kind' = "idle" <=> Idle("gui")')
        /\ \A q \in Proc : /\ Range(plan'[q]) \subseteq Range(plan[q])
                           /\ q # p => plan'[q] = plan[q]
                           /\ Touching(q)' \subseteq Touching(q)
        /\ \A x \in Range(plan[p]) : x # Head(plan[p]) => x \in Range(plan'[p])
        /\ Rebuilding' => Rebuilding
        /\ Kind' = "rekeyStart" => Kind = "rekeyStart" /\ p = "cli"
        /\ Kind' \in Changing => Kind \in Changing
        /\ Touching("gui")' = {} \/ Kind' = Kind
        /\ Kind' = "restore" /\ At("gui", "clearActive")' =>
              Kind = "restore" /\ At("gui", "clearActive")
    BY <1>0, <1>6, FilingFacts
  <1>8. StoreTypeOK'
    <2>1. CountT'
      BY <1>0, <1>1 DEF CountT
    <2>. QED
      BY <1>0, <1>1, <1>3, <1>4, <1>7, <2>1, SameMem, TypesNext
  <1>9. /\ acked \subseteq Items /\ \A q \in Proc : gain[q] \subseteq Items
        /\ dir[0].key \notin Key
    BY <1>0, <1>1, CoreTypes, FileKinds
  <1>10. At(p, "writeKey")' /\ <<"openKey">> \notin Range(plan'[p])
    <2>1. At(p, "writeKey")'
      BY <1>0, <1>1, <1>5, NextStep
    <2>. QED
      BY <1>7, <2>1, KeyOpened
  <1>11. KeyInv'
    <2>1. \A n \in DOMAIN dir' : dir'[n].key # None => dir'[n].there
      BY <1>0, <1>2, <1>3 DEF KeyInv, DirT
    <2>2. \A q \in Proc : q # p /\ At(q, "writeKey")' /\ at'[q] >= 0 =>
              at[q] # 0 /\ dir'[at'[q]].key = Torn
      <3>1. SUFFICES ASSUME NEW q \in Proc, q # p, At(q, "writeKey")', at'[q] >= 0
                     PROVE  at[q] # 0 /\ dir'[at'[q]].key = Torn
        OBVIOUS
      <3>2. At(q, "writeKey") /\ at[q] = at'[q]
        BY <1>4, <1>7, <3>1 DEF At, Idle
      <3>3. dir[at[q]].key = Torn
        BY <1>0, <3>1, <3>2 DEF KeyInv
      <3>4. at[q] # 0
        BY <1>1, <3>3, FileKinds
      <3>5. at[q] \in {0} \cup Backup
        BY <1>0, <3>1, <3>2 DEF AtT
      <3>. QED
        BY <1>3, <3>2, <3>3, <3>4, <3>5
    <2>3. \A q \in Proc : At(q, "writeKey")' /\ at'[q] >= 0 => dir'[at'[q]].key = Torn
      BY <1>2, <1>3, <1>4, <2>2
    <2>4. At("gui", "writeKey")' /\ At("cli", "writeKey")' => at'["cli"] # 0
      <3>1. CASE p = "gui"
        BY <1>0, <1>4, <2>2, <3>1
      <3>2. CASE p = "cli"
        <4>1. SUFFICES ASSUME At("gui", "writeKey")' PROVE FALSE
          OBVIOUS
        <4>2. At("gui", "writeKey")
          BY <1>0, <1>7, <3>2, <4>1 DEF At, Idle
        <4>3. at["gui"] = 0
          BY <1>0, <4>2 DEF KeyInv
        <4>4. at'["gui"] >= 0
          BY <1>0, <1>4, <3>2, <4>3
        <4>. QED
          BY <1>0, <2>2, <3>2, <4>1, <4>3, <4>4
      <3>. QED
        BY <3>1, <3>2 DEF Proc
    <2>5. Writing("gui")' => at'["gui"] = 0
      <3>1. CASE p = "gui"
        BY <1>4, <3>1
      <3>2. CASE p = "cli"
        <4>1. plan'["gui"] = plan["gui"] /\ at'["gui"] = at["gui"]
          BY <1>0, <1>4, <1>7, <3>2
        <4>. QED
          BY <1>0, <4>1 DEF KeyInv, Writing, At, AtItem, Idle
      <3>. QED
        BY <3>1, <3>2 DEF Proc
    <2>. QED
      BY <2>1, <2>3, <2>4, <2>5 DEF KeyInv, Writing
  <1>12. MadeInv'
    <2>1. <<"writeKey">> \in Range(plan["gui"]) => <<"writeKey">> \in Range(plan'["gui"])
      <3>1. p = "gui" => Head(plan["gui"]) # <<"writeKey">>
        BY <1>5 DEF At
      <3>. QED
        BY <1>0, <1>7, <3>1 DEF Proc
    <2>2. Kind' \in {"create", "unlock"} => Kind' = Kind
      BY <1>7 DEF Proc
    <2>. QED
      BY <1>0, <1>1, <2>1, <2>2, MadeFrame
  <1>13. TouchInv'
    BY <1>0, <1>1, <1>7, TouchFrame
  <1>14. GainInv'
    <2>1. \A q \in Proc : gain[q] = {}
      BY <1>0, <1>9 DEF GainInv
    <2>. QED
      BY <1>0, <1>1, <1>7, <1>9, <2>1, GainFrame
  <1>15. RebuildInv'
    <2>1. CASE p = "cli"
      <3>1. plan'["gui"] = plan["gui"] /\ work'["gui"].key = work["gui"].key
        BY <1>0, <1>1, <1>7, <2>1
      <3>2. Kind' = "rekeyStart" => Kind = "rekeyStart"
        BY <1>7
      <3>. QED
        BY <1>0, <1>1, <1>7, <3>1, <3>2, RebuildFrame
    <2>2. CASE p = "gui"
      <3>1. Kind' # "rekeyStart"
        BY <1>7, <2>2
      <3>2. Rebuilding' => work["gui"].key = None
        <4>1. <<"openKey">> \in Left("gui")
          BY <1>0, <1>1, <2>2, TailLeft DEF At, Idle, Plans, Left
        <4>. QED
          BY <1>0, <1>7, <4>1 DEF RebuildInv
      <3>3. dir'[0].key = Torn
        BY <1>2, <1>3
      <3>. QED
        BY <1>1, <1>10, <2>2, <3>1, <3>2, <3>3 DEF RebuildInv, Left
    <2>. QED
      BY <2>1, <2>2 DEF Proc
  <1>16. AckedInv'
    <2>1. ASSUME NEW i \in acked
          PROVE  /\ \A n \in Backup : ReadableIn(n, i) => ReadableIn(n, i)'
                 /\ ReadableIn(0, i) => ReadableIn(0, i)' \/ Kind = "rekey"
                 /\ Kind' = "rekeyStart" =>
                        Kind = "rekeyStart" /\ plan'["gui"] = plan["gui"]
                 /\ Rebuilding' => Progress("gui", i)'
      <3>1. \A n \in Backup : ReadableIn(n, i) => ReadableIn(n, i)'
        BY <1>3, FileKinds DEF ReadableIn
      <3>2. ~ReadableIn(0, i)
        BY <1>9 DEF ReadableIn
      <3>3. Kind' = "rekeyStart" => Kind = "rekeyStart" /\ plan'["gui"] = plan["gui"]
        BY <1>0, <1>7
      <3>4. Rebuilding' => Progress("gui", i)'
        <4>1. SUFFICES ASSUME Rebuilding' PROVE Progress("gui", i)'
          OBVIOUS
        <4>2. i \in Items /\ Progress("gui", i)
          BY <1>0, <1>7, <1>9, <2>1, <4>1 DEF AckedInv
        <4>3. \/ plan'["gui"] = plan["gui"] /\ at'["gui"] = at["gui"]
              \/ /\ ~Idle("gui") /\ Advance("gui")
                 /\ ~AtItem("gui", "openItem", i) /\ ~AtItem("gui", "writeItem", i)
          BY <1>0, <1>1, <1>4, <1>5, <1>7, <4>2
        <4>4. dir'[0].item[i] = dir[0].item[i] /\ work'["gui"].key = work["gui"].key
          BY <1>1, <1>2, <1>3
        <4>. QED
          BY <1>0, <4>2, <4>3, <4>4, ProgressKept
      <3>. QED
        BY <3>1, <3>2, <3>3, <3>4
    <2>2. Kind' = "rekey" => Kind = "rekey"
      BY <1>7 DEF Proc
    <2>. QED
      BY <1>0, <1>1, <1>3, <1>7, <2>1, <2>2, AckedFrame
  <1>17. FilesInv'
    BY <1>11, <1>12, <1>13, <1>14, <1>15, <1>16 DEF FilesInv
  <1>18. WholeFree'
    <2>1. SUFFICES ASSUME whole # {} PROVE WholeFree'
      BY <1>1, NoWhole
    <2>2. CASE p = "cli"
      BY <1>1, <1>5, <2>2, CliWhole DEF StoreInv
    <2>3. CASE p = "gui"
      <3>1. Kind = "rekey" /\ Ahead > 8 /\ Ahead \in Nat /\ Ahead > 10
        BY <1>1, <1>5, <2>1, <2>3, BuildHeads
      <3>2. \A n \in Backup : dir'[n] = dir[n]
        BY <1>3, FileKinds
      <3>3. \A j \in work["gui"].items : Progress("gui", j) => Progress("gui", j)'
        <4>1. SUFFICES ASSUME NEW j \in work["gui"].items, Progress("gui", j)
                       PROVE  Progress("gui", j)'
          OBVIOUS
        <4>2. j \in Items
          BY <1>0, <4>1 DEF MemT, Vault
        <4>. QED
          BY <1>0, <1>1, <1>2, <1>3, <1>5, <2>3, <4>1, <4>2, ProgressKept
      <3>4. Ahead # 9 /\ Ahead # 10
        BY <3>1
      <3>. QED
        BY <1>0, <1>1, <1>3, <1>6, <2>3, <3>1, <3>2, <3>3, <3>4, GuiBuilds DEF StoreInv
    <2>. QED
      BY <2>2, <2>3 DEF Proc
  <1>. QED
    BY <1>7, <1>8, <1>17, <1>18 DEF StoreInv, Core

LEMMA OfWriteKey ==
    ASSUME StoreInv, NEW p \in Proc, WriteKey(p)
    PROVE  StoreInv'
  <1>0. /\ Core /\ FilesInv /\ StoreTypeOK /\ DirT /\ AtT /\ CountT /\ MemT /\ KindInv
        /\ Plans /\ RebuildInv /\ KeyInv /\ MadeInv /\ TouchInv /\ GainInv /\ AckedInv /\ JobInv
        /\ "gui" \in Proc /\ "cli" \in Proc
    BY Types, CoreTypes DEF StoreInv, Core, FilesInv, Proc
  <1>. DEFINE new == keys + 1
              n0 == at[p]
  <1>1. /\ At(p, "writeKey") /\ keys < MaxKeys /\ Advance(p) /\ at' = at /\ keys' = new
        /\ pwOf' = [pwOf EXCEPT ![new] = job[p].pw]
        /\ work' = [work EXCEPT ![p] = [work[p] EXCEPT !.key = new]]
        /\ state' = state /\ clock' = clock
        /\ failures' = failures /\ mem' = mem /\ app' = app /\ st' = st
        /\ job' = job /\ acked' = acked /\ gain' = gain /\ clean' = clean /\ whole' = whole
    BY <1>0 DEF WriteKey, hist, MemT
  <1>2. new \in Key /\ new \in File /\ new \in 0..MaxKeys
    <2>1. keys \in 0..MaxKeys /\ MaxKeys \in Nat
      BY <1>0, BoundsAssumption DEF CountT
    <2>. QED
      BY <1>1, <2>1 DEF Key, File
  <1>3. CountT'
    <2>1. job[p].pw \in Passwords
      BY <1>0 DEF JobInv
    <2>. QED
      BY <1>0, <1>1, <1>2, <2>1 DEF CountT
  <1>4. /\ work' \in [Proc -> Vault] /\ work'[p].key = new /\ work'[p].items = work[p].items
        /\ \A q \in Proc : q # p => work'[q] = work[q]
    <2>1. [work[p] EXCEPT !.key = new] \in Vault
      BY <1>0, <1>2 DEF MemT, Vault
    <2>2. [work[p] EXCEPT !.key = new].key = new /\ [work[p] EXCEPT !.key = new].items = work[p].items
      BY <1>0 DEF MemT, Vault
    <2>. QED
      BY <1>0, <1>1, <2>1, <2>2 DEF MemT
  <1>. HIDE DEF new
  <1>5. n0 \in {-1, 0} \cup Backup /\ (p = "gui" => n0 = 0)
    BY <1>0, <1>1 DEF AtT, KeyInv
  <1>6. \/ dir' = dir /\ n0 < 0
        \/ /\ n0 \in {0} \cup Backup /\ dir[n0].key = Torn
           /\ dir' = [dir EXCEPT ![n0] = [dir[n0] EXCEPT !.there = dir[n0].there, !.key = new]]
    <2>1. CASE at[p] < 0
      BY <2>1 DEF WriteKey
    <2>2. CASE ~(at[p] < 0)
      <3>1. n0 \in {0} \cup Backup /\ n0 >= 0
        BY <1>5, <2>2 DEF Backup
      <3>2. dir' = [dir EXCEPT ![n0].key = new]
        BY <2>2 DEF WriteKey, new
      <3>3. dir[n0].key = Torn /\ dir[n0] \in DirSet
        BY <1>0, <1>1, <3>1, CoreTypes DEF KeyInv
      <3>4. [dir[n0] EXCEPT !.key = new] = [dir[n0] EXCEPT !.there = dir[n0].there, !.key = new]
        BY <3>3 DEF DirSet
      <3>. QED
        BY <3>1, <3>2, <3>3, <3>4
    <2>. QED
      BY <2>1, <2>2
  <1>7. /\ DirT' /\ DOMAIN dir' = DOMAIN dir
        /\ \A m \in {0} \cup Backup : /\ m # n0 => dir'[m] = dir[m]
                                      /\ dir'[m].there = dir[m].there
                                      /\ dir'[m].vault = dir[m].vault
                                      /\ dir'[m].item = dir[m].item
        /\ n0 \in {0} \cup Backup => dir'[n0].key = new /\ dir[n0].key = Torn
    <2>1. CASE dir' = dir /\ n0 < 0
      <3>1. n0 \notin {0} \cup Backup
        BY <2>1 DEF Backup
      <3>. QED
        BY <1>0, <2>1, <3>1, SameDir
    <2>2. CASE /\ n0 \in {0} \cup Backup /\ dir[n0].key = Torn
               /\ dir' = [dir EXCEPT ![n0] = [dir[n0] EXCEPT !.there = dir[n0].there, !.key = new]]
      <3>. DEFINE d == [dir[n0] EXCEPT !.there = dir[n0].there, !.key = new]
      <3>1. dir[n0] \in DirSet /\ dir[n0].there \in BOOLEAN
        BY <1>0, <2>2, CoreTypes DEF DirSet
      <3>2. /\ d \in DirSet /\ d.there = dir[n0].there /\ d.key = new
            /\ d.vault = dir[n0].vault /\ d.item = dir[n0].item
        BY <1>2, <3>1 DEF DirSet
      <3>3. dir' = [dir EXCEPT ![n0] = d]
        BY <2>2
      <3>. HIDE DEF d, n0
      <3>4. /\ DirT' /\ dir'[n0] = d /\ DOMAIN dir' = DOMAIN dir
            /\ \A m \in {0} \cup Backup : m # n0 => dir'[m] = dir[m]
        BY <1>0, <2>2, <3>2, <3>3, PutDir
      <3>. QED
        BY <2>2, <3>2, <3>4
    <2>. QED
      BY <1>6, <2>1, <2>2
  <1>. HIDE DEF n0
  <1>8. AtT'
    BY <1>0, <1>1, SameAt
  <1>9. /\ ~Idle(p) /\ ~At(p, "moveAside") /\ ~At(p, "dropOlder") /\ ~At(p, "clearActive")
        /\ ~At(p, "openKey") /\ ~At(p, "openVault")
        /\ \A j \in Items : ~AtItem(p, "openItem", j) /\ ~AtItem(p, "writeItem", j)
    BY <1>1, OneStep
  <1>10. Filing(p)
    BY <1>1, <1>9 DEF Filing
  <1>11. /\ Plans' /\ KindInv' /\ JobInv' /\ StateT' /\ HistT'
         /\ p = "cli" => Kind' = Kind
         /\ p = "gui" => Kind' \in {Kind, "idle"} /\ (Kind' = "idle" <=> Idle("gui")')
         /\ \A q \in Proc : /\ Range(plan'[q]) \subseteq Range(plan[q])
                            /\ q # p => plan'[q] = plan[q]
                            /\ Touching(q)' \subseteq Touching(q)
         /\ \A x \in Range(plan[p]) : x # Head(plan[p]) => x \in Range(plan'[p])
         /\ Rebuilding' => Rebuilding
         /\ Kind' = "rekeyStart" => Kind = "rekeyStart" /\ p = "cli"
         /\ Kind' \in Changing => Kind \in Changing
         /\ Touching("gui")' = {} \/ Kind' = Kind
         /\ Kind' = "restore" /\ At("gui", "clearActive")' =>
               Kind = "restore" /\ At("gui", "clearActive")
    BY <1>0, <1>10, FilingFacts
  <1>12. StoreTypeOK'
    <2>1. MemT'
      BY <1>0, <1>1, <1>4 DEF MemT
    <2>. QED
      BY <1>3, <1>7, <1>8, <1>11, <2>1, TypesNext
  <1>13. /\ acked \subseteq Items /\ \A q \in Proc : gain[q] \subseteq Items
         /\ dir[0].key \in Key => dir'[0] = dir[0] /\ n0 # 0
    BY <1>0, <1>7, CoreTypes, FileKinds
  <1>14. ~Writing(p)' /\ ~At(p, "writeKey")'
    BY <1>0, <1>1, <1>9, NextStep DEF Writing
  <1>15. <<"openKey">> \notin Range(plan[p]) /\ <<"openKey">> \notin Range(plan'[p])
         /\ <<"writeKey">> \in Range(plan[p])
    <2>1. <<"openKey">> \notin Range(plan[p])
      BY <1>0, <1>1, <1>9, NextStep
    <2>2. <<"writeKey">> \in Range(plan[p])
      BY <1>0, <1>1, TailLeft DEF At, Idle, Plans
    <2>. QED
      BY <1>11, <2>1, <2>2
  <1>16. KeyInv'
    <2>1. \A n \in DOMAIN dir' : dir'[n].key # None => dir'[n].there
      <3>1. SUFFICES ASSUME NEW n \in {0} \cup Backup, dir'[n].key # None PROVE dir'[n].there
        BY <1>7 DEF DirT
      <3>2. dir[n].key # None
        BY <1>7, <3>1, FileKinds
      <3>3. dir[n].there
        BY <1>0, <3>2 DEF KeyInv, DirT
      <3>. QED
        BY <1>7, <3>3
    <2>2. ASSUME NEW q \in Proc, At(q, "writeKey")', at'[q] >= 0 PROVE dir'[at'[q]].key = Torn
      <3>1. q # p /\ plan'[q] = plan[q]
        BY <1>11, <1>14, <2>2
      <3>2. At(q, "writeKey") /\ at'[q] = at[q]
        BY <1>1, <2>2, <3>1 DEF At, Idle
      <3>3. dir[at[q]].key = Torn
        BY <1>0, <2>2, <3>2 DEF KeyInv
      <3>4. at[q] # n0
        <4>1. at["gui"] = 0 /\ at["cli"] # 0
          BY <1>0, <1>1, <3>1, <3>2 DEF KeyInv, Proc
        <4>. QED
          BY <3>1, <4>1 DEF Proc, n0
      <3>5. at[q] \in {0} \cup Backup
        BY <1>0, <2>2, <3>2 DEF AtT
      <3>. QED
        BY <1>7, <3>2, <3>3, <3>4, <3>5
    <2>3. ~(At("gui", "writeKey")' /\ At("cli", "writeKey")')
      BY <1>14 DEF Proc
    <2>4. Writing("gui")' => at'["gui"] = 0
      <3>1. CASE p = "gui"
        BY <1>14, <3>1
      <3>2. CASE p = "cli"
        <4>1. plan'["gui"] = plan["gui"] /\ at'["gui"] = at["gui"]
          BY <1>0, <1>1, <1>11, <3>2
        <4>. QED
          BY <1>0, <4>1 DEF KeyInv, Writing, At, AtItem, Idle
      <3>. QED
        BY <3>1, <3>2 DEF Proc
    <2>. QED
      BY <2>1, <2>2, <2>3, <2>4 DEF KeyInv, Writing
  <1>17. MadeInv'
    <2>1. CASE p = "gui"
      BY <1>2, <1>4, <2>1 DEF MadeInv
    <2>2. CASE p = "cli"
      <3>1. plan'["gui"] = plan["gui"] /\ work'["gui"] = work["gui"] /\ Kind' = Kind
        BY <1>0, <1>4, <1>11, <2>2
      <3>. QED
        BY <1>0, <3>1, MadeFrame
    <2>. QED
      BY <2>1, <2>2 DEF Proc
  <1>18. TouchInv'
    BY <1>0, <1>1, <1>11, TouchFrame
  <1>19. ASSUME NEW q \in Proc, q # p, NEW i \in Items, Progress(q, i) PROVE Progress(q, i)'
    <2>1. plan'[q] = plan[q] /\ at'[q] = at[q] /\ work'[q].key = work[q].key
      BY <1>1, <1>4, <1>11, <1>19
    <2>2. dir'[0].item[i] = dir[0].item[i]
      BY <1>7
    <2>. QED
      BY <1>0, <1>19, <2>1, <2>2, ProgressKept
  <1>20. GainInv'
    <2>1. gain[p] = {}
      BY <1>0, <1>15 DEF GainInv, Left
    <2>2. <<"prompt">> \in Range(plan'["cli"]) => work'["cli"].key = work["cli"].key
      <3>1. SUFFICES ASSUME <<"prompt">> \in Range(plan'["cli"]), p = "cli" PROVE FALSE
        BY <1>0, <1>4
      <3>2. <<"prompt">> \in Range(plan["cli"])
        BY <1>0, <1>11, <3>1
      <3>3. Range(plan["cli"]) \subseteq
               {<<"loadSeen">>, <<"storeState">>, <<"writeState">>, <<"prompt">>}
        BY <1>0, <3>2, KindInvWas
      <3>. QED
        BY <1>15, <3>1, <3>3, Names DEF StepNames
    <2>3. ASSUME NEW q \in Proc PROVE /\ gain'[q] # {} => work'[q].key = work[q].key
                                      /\ \A i \in gain'[q] : Progress(q, i)'
      <3>1. CASE q = p
        BY <1>1, <2>1, <3>1
      <3>2. CASE q # p
        BY <1>0, <1>1, <1>4, <1>13, <1>19, <3>2 DEF GainInv
      <3>. QED
        BY <3>1, <3>2
    <2>. QED
      BY <1>0, <1>1, <1>11, <1>13, <2>2, <2>3, GainFrame
  <1>21. RebuildInv'
    <2>1. CASE p = "cli"
      <3>1. plan'["gui"] = plan["gui"] /\ work'["gui"].key = work["gui"].key
        BY <1>0, <1>4, <1>11, <2>1
      <3>2. Kind' = "rekeyStart" => Kind = "rekeyStart"
        BY <1>11
      <3>3. \/ dir'[0].key = dir[0].key
            \/ dir[0].key = Torn /\ ~At("gui", "writeKey")
        <4>1. CASE n0 = 0
          <5>1. ~At("gui", "writeKey")
            BY <1>0, <1>1, <2>1, <4>1 DEF KeyInv, n0
          <5>. QED
            BY <1>7, <4>1, <5>1
        <4>2. CASE n0 # 0
          BY <1>7, <4>2
        <4>. QED
          BY <4>1, <4>2
      <3>. QED
        BY <1>0, <1>11, <3>1, <3>2, <3>3, RebuildFrame
    <2>2. CASE p = "gui"
      <3>1. Kind' # "rekeyStart"
        BY <1>11, <2>2
      <3>2. dir'[0].key = new
        BY <1>5, <1>7, <2>2
      <3>. QED
        BY <1>2, <1>4, <1>14, <1>15, <2>2, <3>1, <3>2 DEF RebuildInv, Left
    <2>. QED
      BY <2>1, <2>2 DEF Proc
  <1>22. ASSUME p = "gui", Rebuilding, NEW i \in Items, Progress("gui", i)
         PROVE  Progress("gui", i)'
    <2>1. work["gui"].key = None
      BY <1>0, <1>1, <1>15, <1>22 DEF RebuildInv, Left
    <2>2. <<"openItem", i>> \in Left("gui")
      BY <1>9, <1>22, <2>1, FileKinds DEF Progress
    <2>3. Head(plan["gui"]) = <<"writeKey">> /\ <<"openItem", i>> # <<"writeKey">>
      BY <1>1, <1>22, Names DEF At, StepNames
    <2>4. (<<"openItem", i>> \in Left("gui"))'
      BY <1>11, <1>22, <2>2, <2>3 DEF Left
    <2>5. ~AtItem("gui", "writeItem", i)'
      BY <1>14, <1>22 DEF Writing
    <2>. QED
      BY <2>4, <2>5 DEF Progress
  <1>23. AckedInv'
    <2>1. ASSUME NEW i \in acked
          PROVE  /\ \A n \in Backup : ReadableIn(n, i) => ReadableIn(n, i)'
                 /\ ReadableIn(0, i) => ReadableIn(0, i)' \/ Kind = "rekey"
                 /\ Kind' = "rekeyStart" =>
                        Kind = "rekeyStart" /\ plan'["gui"] = plan["gui"]
                 /\ Rebuilding' => Progress("gui", i)'
      <3>1. \A n \in {0} \cup Backup : ReadableIn(n, i) => ReadableIn(n, i)'
        <4>1. SUFFICES ASSUME NEW n \in {0} \cup Backup, ReadableIn(n, i) PROVE ReadableIn(n, i)'
          OBVIOUS
        <4>2. n # n0
          BY <1>7, <4>1, FileKinds DEF ReadableIn
        <4>. QED
          BY <1>7, <4>1, <4>2 DEF ReadableIn
      <3>2. Kind' = "rekeyStart" => Kind = "rekeyStart" /\ plan'["gui"] = plan["gui"]
        BY <1>0, <1>11
      <3>3. Rebuilding' => Progress("gui", i)'
        <4>1. SUFFICES ASSUME Rebuilding' PROVE Progress("gui", i)'
          OBVIOUS
        <4>2. i \in Items /\ Progress("gui", i) /\ Rebuilding
          BY <1>0, <1>11, <1>13, <2>1, <4>1 DEF AckedInv
        <4>3. p = "gui" => Progress("gui", i)'
          BY <1>22, <4>2
        <4>4. p # "gui" => Progress("gui", i)'
          BY <1>0, <1>19, <4>2
        <4>. QED
          BY <4>3, <4>4
      <3>. QED
        BY <3>1, <3>2, <3>3
    <2>2. Kind' = "rekey" => Kind = "rekey"
      BY <1>11 DEF Proc
    <2>. QED
      BY <1>0, <1>1, <1>7, <1>11, <2>1, <2>2, AckedFrame
  <1>24. FilesInv'
    BY <1>16, <1>17, <1>18, <1>20, <1>21, <1>23 DEF FilesInv
  <1>25. WholeFree'
    <2>1. SUFFICES ASSUME whole # {} PROVE WholeFree'
      BY <1>1, NoWhole
    <2>2. CASE p = "cli"
      BY <1>1, <1>9, <2>2, CliWhole DEF StoreInv
    <2>3. CASE p = "gui"
      <3>1. Kind = "rekey" /\ Ahead > 8 /\ Ahead \in Nat /\ Ahead > 10
        BY <1>1, <1>9, <2>1, <2>3, BuildHeads
      <3>2. \A n \in Backup : dir'[n] = dir[n]
        BY <1>5, <1>7, <2>3, FileKinds
      <3>3. Rebuilding
        <4>1. Ahead > 3
          BY <3>1
        <4>. QED
          BY <3>1, <4>1 DEF Rebuilding
      <3>4. \A j \in work["gui"].items : Progress("gui", j) => Progress("gui", j)'
        <4>1. work["gui"].items \subseteq Items
          BY <1>0 DEF MemT, Vault
        <4>. QED
          BY <1>22, <2>3, <3>3, <4>1
      <3>5. Ahead # 9 /\ Ahead # 10
        BY <3>1
      <3>6. work'["gui"].items = work["gui"].items
        BY <1>4, <2>3
      <3>. QED
        BY <1>0, <1>7, <1>10, <2>3, <3>1, <3>2, <3>4, <3>5, <3>6, GuiBuilds DEF StoreInv
    <2>. QED
      BY <2>2, <2>3 DEF Proc
  <1>. QED
    BY <1>11, <1>12, <1>24, <1>25 DEF StoreInv, Core

LEMMA MovedAt ==
    ASSUME AtT, NEW from, NEW to \in {-1, 0} \cup Backup, Moved(from, to)
    PROVE  AtT' /\ \A q \in Proc : at'[q] = IF at[q] = from THEN to ELSE at[q]
  BY DEF AtT, Moved

\* A directory is moved or removed, and the files open in it with it.
LEMMA MovedKeys ==
    ASSUME KeyInv, DirT, AtT, DirT', NEW from \in {0} \cup Backup, NEW to \in {-1, 0} \cup Backup,
           Moved(from, to), plan'["cli"] = plan["cli"], ~Writing("gui")',
           \A n \in {0} \cup Backup : dir'[n].key # None => dir'[n].there,
           \A n \in {0} \cup Backup : n # from /\ n # to => dir'[n] = dir[n],
           to # -1 => dir'[to] = dir[from] /\ ~dir[to].there
    PROVE  KeyInv'
  <1>1. "gui" \in Proc /\ "cli" \in Proc /\ DOMAIN dir' = {0} \cup Backup
    BY DEF Proc, DirT
  <1>2. ~At("gui", "writeKey")'
    BY DEF Writing
  <1>3. ASSUME At("cli", "writeKey")', at'["cli"] >= 0 PROVE dir'[at'["cli"]].key = Torn
    <2>1. At("cli", "writeKey")
      BY <1>3 DEF At, Idle
    <2>2. at'["cli"] = IF at["cli"] = from THEN to ELSE at["cli"]
      BY <1>1, MovedAt
    <2>3. CASE at["cli"] = from
      <3>1. to # -1 /\ from >= 0
        BY <1>3, <2>2, <2>3 DEF Backup
      <3>2. dir[from].key = Torn
        BY <1>1, <2>1, <2>3, <3>1 DEF KeyInv
      <3>. QED
        BY <2>2, <2>3, <3>1, <3>2
    <2>4. CASE at["cli"] # from
      <3>1. at'["cli"] = at["cli"] /\ at["cli"] \in {0} \cup Backup
        BY <1>1, <1>3, <2>2, <2>4 DEF AtT
      <3>2. dir[at["cli"]].key = Torn
        BY <1>1, <1>3, <2>1, <3>1 DEF KeyInv
      <3>3. dir[at["cli"]].there
        BY <3>1, <3>2, FileKinds DEF KeyInv, DirT
      <3>4. at["cli"] # to
        <4>1. at["cli"] # -1
          BY <3>1 DEF Backup
        <4>. QED
          BY <3>3, <4>1
      <3>. QED
        BY <2>4, <3>1, <3>2, <3>4
    <2>. QED
      BY <2>3, <2>4
  <1>4. \A q \in Proc : At(q, "writeKey")' /\ at'[q] >= 0 => dir'[at'[q]].key = Torn
    BY <1>2, <1>3 DEF Proc
  <1>. QED
    BY <1>1, <1>2, <1>4 DEF KeyInv, Writing

LEMMA NoDirKind == NoDir \in DirSet /\ NoDir.key = None /\ NoDir.there = FALSE
  <1>1. NoVault \in [k : File, items : SUBSET Items, mod : Nat]
    BY FileKinds DEF NoVault, VaultListing
  <1>2. [i \in Items |-> None] \in [Items -> File]
    BY FileKinds
  <1>. QED
    BY <1>1, <1>2, FileKinds DEF NoDir, DirSet

\* A step of a password change, or of its undoing, on whole directories.
LEMMA MoveQuiet ==
    ASSUME Core, FilesInv, Kind \in Changing, gain' = gain, clean' = clean
    PROVE  GainInv'
  <1>1. gain["gui"] = {} /\ gain["cli"] = {} /\ clean = FALSE
    BY Quiet DEF Core, FilesInv
  <1>. QED
    BY <1>1, QuietFrame

\* The parts of the restoring of a backup that its two steps share.
LEMMA RestoreMoves ==
    ASSUME StoreInv, NEW s \in {"clearActive", "moveBack"}, At("gui", s), Advance("gui"), job' = job,
           state' = state, pwOf' = pwOf, keys' = keys, clock' = clock, failures' = failures,
           mem' = mem, app' = app, work' = work, st' = st,
           acked' = acked, gain' = gain, clean' = clean, whole' = whole
    PROVE  /\ Kind = "restore" /\ Kind' \in {"restore", "idle"} /\ ~Idle("gui")
           /\ Plans' /\ KindInv' /\ JobInv' /\ plan'["cli"] = plan["cli"]
           /\ StateT' /\ CountT' /\ MemT' /\ HistT'
           /\ ~Writing("gui")' /\ ~At("gui", "clearActive")' /\ job["gui"].back \in Backup
           /\ MadeInv' /\ TouchInv' /\ GainInv' /\ RebuildInv' /\ ~Rebuilding'
  <1>0. /\ Core /\ FilesInv /\ StoreTypeOK /\ CountT /\ MemT /\ KindInv /\ StateT /\ HistT
        /\ Plans /\ TouchInv /\ JobInv /\ "gui" \in Proc /\ "cli" \in Proc
    BY Types DEF StoreInv, Core, FilesInv, Proc
  <1>1. Kind = "restore"
    <2>1. Kind \in Changing
      BY <1>0, OtherHeads
    <2>. QED
      BY <1>0, <2>1, ChangeHeads
  <1>2. /\ ~Idle("gui") /\ ~At("gui", "moveAside") /\ ~At("gui", "dropOlder")
        /\ ~At("gui", "openKey") /\ ~At("gui", "openVault")
        /\ \A i \in Items : ~AtItem("gui", "openItem", i)
    <2>1. CASE s = "clearActive"
      <3>1. At("gui", "clearActive")
        BY <2>1
      <3>. QED
        BY <3>1, <1>0, OneStep
    <2>2. CASE s = "moveBack"
      <3>1. At("gui", "moveBack")
        BY <2>2
      <3>. QED
        BY <3>1, <1>0, OneStep
    <2>. QED
      BY <2>1, <2>2
  <1>3. /\ Plans' /\ KindInv' /\ JobInv' /\ plan'["cli"] = plan["cli"]
        /\ Kind' \in {Kind, "idle"}
    BY <1>0, <1>2, StepKinds
  <1>4. /\ plan'["gui"] = Tail(plan["gui"]) /\ Range(plan'["gui"]) \subseteq Range(plan["gui"])
        /\ ~Writing("gui")'
    BY <1>0, <1>2, Advanced, NextStep DEF Writing
  <1>5. ~At("gui", "clearActive")'
    BY <1>0, <1>1, <1>2, <1>4, RestoreStep
  <1>6. StateT' /\ MemT' /\ HistT' /\ CountT'
    <2>1. CountT'
      BY <1>0 DEF CountT
    <2>. QED
      BY <1>0, <2>1, SameState, SameMem, SameHist
  <1>7. Kind' \notin {"create", "unlock", "rekeyStart", "rekey", "rekeyed"}
    BY <1>1, <1>3
  <1>8. TouchInv'
    <2>1. \A q \in Proc : Touching(q)' \subseteq Touching(q)
      BY <1>3, <1>4 DEF Touching, Proc
    <2>2. Touching("gui")' = {}
      <3>1. Left("gui") \subseteq {<<"clearActive">>, <<"moveBack">>, <<"done">>}
        <4>1. plan["gui"] \in {restoreBackup, Tail(restoreBackup), Done}
          BY <1>0, <1>1, KindInvWas
        <4>2. Range(restoreBackup) = {<<"clearActive">>, <<"moveBack">>, <<"done">>}
              /\ Range(Done) = {<<"done">>} /\ restoreBackup \in Seq(StepSet) /\ restoreBackup # <<>>
          BY Pieces DEF Block, restoreBackup
        <4>3. Range(Tail(restoreBackup)) \subseteq Range(restoreBackup)
          BY <4>2, TailLeft
        <4>. QED
          BY <4>1, <4>2, <4>3 DEF Left
      <3>2. \A a, i : <<a, i>> \notin Range(plan'["gui"])
        BY <1>4, <3>1, Names DEF StepNames, Left
      <3>. QED
        BY <3>2 DEF Touching
    <2>. QED
      BY <1>0, <2>1, <2>2, TouchFrame
  <1>9. GainInv'
    BY <1>0, <1>1, MoveQuiet DEF Changing
  <1>10. MadeInv' /\ RebuildInv' /\ ~Rebuilding'
    BY <1>7 DEF MadeInv, RebuildInv, Rebuilding
  <1>11. job["gui"].back \in Backup
    BY <1>0, <1>1, KindInvWas DEF Changing
  <1>. QED
    BY <1>1, <1>2, <1>3, <1>4, <1>5, <1>6, <1>8, <1>9, <1>10, <1>11

LEMMA OfClearActive ==
    ASSUME StoreInv, ClearActive
    PROVE  StoreInv'
  <1>0. /\ Core /\ FilesInv /\ DirT /\ AtT /\ KeyInv /\ AckedInv /\ WholeInv
        /\ "gui" \in Proc /\ "cli" \in Proc
    BY Types, CoreTypes DEF StoreInv, Core, FilesInv, Proc, WholeFree
  <1>1. /\ At("gui", "clearActive") /\ Advance("gui") /\ dir' = [dir EXCEPT ![0] = NoDir]
        /\ Moved(0, -1)
        /\ state' = state /\ pwOf' = pwOf /\ keys' = keys /\ clock' = clock
        /\ failures' = failures /\ mem' = mem /\ app' = app /\ work' = work /\ st' = st
        /\ job' = job /\ acked' = acked /\ gain' = gain /\ clean' = clean /\ whole' = whole
    BY DEF ClearActive, hist
  <1>2. /\ Kind = "restore" /\ Kind' \in {"restore", "idle"} /\ ~Idle("gui")
        /\ Plans' /\ KindInv' /\ JobInv' /\ plan'["cli"] = plan["cli"]
        /\ StateT' /\ CountT' /\ MemT' /\ HistT'
        /\ ~Writing("gui")' /\ ~At("gui", "clearActive")'
        /\ MadeInv' /\ TouchInv' /\ GainInv' /\ RebuildInv' /\ ~Rebuilding'
    BY <1>1, RestoreMoves
  <1>3. /\ DirT' /\ dir'[0] = NoDir /\ DOMAIN dir' = DOMAIN dir
        /\ \A m \in {0} \cup Backup : m # 0 => dir'[m] = dir[m]
    BY <1>0, <1>1, NoDirKind, FileKinds, PutDir
  <1>4. AtT'
    BY <1>0, <1>1, MovedAt
  <1>5. KeyInv'
    <2>1. \A n \in {0} \cup Backup : dir'[n].key # None => dir'[n].there
      BY <1>0, <1>3, NoDirKind DEF KeyInv, DirT
    <2>. QED
      BY <1>0, <1>1, <1>2, <1>3, <2>1, MovedKeys
  <1>6. AckedInv'
    <2>1. SUFFICES ASSUME NEW i \in acked PROVE \E n \in DOMAIN dir' : ReadableIn(n, i)'
      BY <1>1, <1>2 DEF AckedInv, Rebuilding
    <2>2. PICK n \in Backup : ReadableIn(n, i)
      BY <1>0, <1>1, <1>2, <2>1 DEF AckedInv, Kept
    <2>3. n \in DOMAIN dir' /\ ReadableIn(n, i)'
      BY <1>0, <1>3, <2>2, FileKinds DEF ReadableIn, DirT
    <2>. QED
      BY <2>3
  <1>7. WholeFree'
    <2>1. SUFFICES ASSUME whole # {} PROVE WholeFree'
      BY <1>1, NoWhole
    <2>2. Idle("cli") /\ \E n \in Backup : Aside(n)
      BY <1>0, <1>1, <1>2, <2>1 DEF WholeInv
    <2>3. PICK n \in Backup : Aside(n)
      BY <2>2
    <2>4. Aside(n)' /\ n \in DOMAIN dir' /\ HasWhole(n)'
      BY <1>0, <1>1, <1>3, <2>3, FileKinds
         DEF Aside, HasWhole, Whole, Named, catalogueVaultVersion, DirT
    <2>5. Idle("cli")'
      BY <1>2, <2>2 DEF Idle
    <2>6. WholeInv'
      BY <1>2, <2>4, <2>5, WholeNow
    <2>. QED
      BY <1>2, <2>6 DEF WholeFree, BuildInv
  <1>. QED
    BY <1>2, <1>3, <1>4, <1>5, <1>6, <1>7, TypesNext DEF StoreInv, Core, FilesInv

LEMMA OfMoveBack ==
    ASSUME StoreInv, MoveBack
    PROVE  StoreInv'
  <1>0. /\ Core /\ FilesInv /\ DirT /\ AtT /\ KeyInv /\ AckedInv /\ WholeInv
        /\ "gui" \in Proc /\ "cli" \in Proc
    BY Types, CoreTypes DEF StoreInv, Core, FilesInv, Proc, WholeFree
  <1>. DEFINE b == job["gui"].back
  <1>1. /\ At("gui", "moveBack") /\ Advance("gui") /\ ~dir[0].there
        /\ dir' = [dir EXCEPT ![0] = dir[b], ![b] = NoDir]
        /\ Moved(b, 0)
        /\ state' = state /\ pwOf' = pwOf /\ keys' = keys /\ clock' = clock
        /\ failures' = failures /\ mem' = mem /\ app' = app /\ work' = work /\ st' = st
        /\ job' = job /\ acked' = acked /\ gain' = gain /\ clean' = clean /\ whole' = whole
    BY DEF MoveBack, hist
  <1>2. /\ Kind = "restore" /\ Kind' \in {"restore", "idle"} /\ ~Idle("gui")
        /\ Plans' /\ KindInv' /\ JobInv' /\ plan'["cli"] = plan["cli"]
        /\ StateT' /\ CountT' /\ MemT' /\ HistT' /\ b \in Backup
        /\ ~Writing("gui")' /\ ~At("gui", "clearActive")'
        /\ MadeInv' /\ TouchInv' /\ GainInv' /\ RebuildInv' /\ ~Rebuilding'
    BY <1>1, RestoreMoves
  <1>. HIDE DEF b
  <1>3. /\ DirT' /\ dir'[0] = dir[b] /\ dir'[b] = NoDir /\ DOMAIN dir' = DOMAIN dir
        /\ \A m \in {0} \cup Backup : m # 0 /\ m # b => dir'[m] = dir[m]
    BY <1>0, <1>1, <1>2, NoDirKind, FileKinds DEF DirT
  <1>4. AtT'
    BY <1>0, <1>1, MovedAt
  <1>5. KeyInv'
    <2>1. \A n \in {0} \cup Backup : dir'[n].key # None => dir'[n].there
      BY <1>0, <1>2, <1>3, NoDirKind DEF KeyInv, DirT
    <2>. QED
      BY <1>0, <1>1, <1>2, <1>3, <2>1, MovedKeys
  <1>6. AckedInv'
    <2>1. SUFFICES ASSUME NEW i \in acked PROVE \E n \in DOMAIN dir' : ReadableIn(n, i)'
      BY <1>1, <1>2 DEF AckedInv, Rebuilding
    <2>2. PICK n \in DOMAIN dir : ReadableIn(n, i)
      BY <1>0, <2>1 DEF AckedInv
    <2>3. n \in {0} \cup Backup /\ n # 0
      BY <1>0, <1>1, <2>2 DEF ReadableIn, DirT
    <2>4. IF n = b THEN ReadableIn(0, i)' ELSE ReadableIn(n, i)'
      BY <1>3, <2>2, <2>3 DEF ReadableIn
    <2>. QED
      BY <1>0, <1>3, <2>3, <2>4 DEF DirT
  <1>7. WholeFree'
    <2>1. SUFFICES ASSUME whole # {} PROVE WholeFree'
      BY <1>1, NoWhole
    <2>2. Idle("cli") /\ (HasWhole(0) \/ \E n \in Backup : Aside(n))
      BY <1>0, <1>2, <2>1 DEF WholeInv
    <2>3. ~HasWhole(0)
      BY <1>1 DEF HasWhole, Whole
    <2>4. PICK n \in Backup : Aside(n)
      BY <2>2, <2>3
    <2>5. CASE n = b
      <3>1. HasWhole(0)' /\ 0 \in DOMAIN dir'
        BY <1>0, <1>1, <1>3, <2>4, <2>5 DEF Aside, HasWhole, Whole, DirT
      <3>2. Idle("cli")'
        BY <1>2, <2>2 DEF Idle
      <3>3. WholeInv'
        BY <1>2, <3>1, <3>2, WholeNow
      <3>. QED
        BY <1>2, <3>3 DEF WholeFree, BuildInv
    <2>6. CASE n # b
      <3>1. Aside(n)' /\ n \in DOMAIN dir' /\ HasWhole(n)'
        BY <1>0, <1>1, <1>3, <2>4, <2>6, FileKinds
           DEF Aside, HasWhole, Whole, Named, catalogueVaultVersion, DirT
      <3>2. Idle("cli")'
        BY <1>2, <2>2 DEF Idle
      <3>3. WholeInv'
        BY <1>2, <3>1, <3>2, WholeNow
      <3>. QED
        BY <1>2, <3>3 DEF WholeFree, BuildInv
    <2>. QED
      BY <2>5, <2>6
  <1>. QED
    BY <1>2, <1>3, <1>4, <1>5, <1>6, <1>7, TypesNext DEF StoreInv, Core, FilesInv

LEMMA OfDropOlder ==
    ASSUME StoreInv, DropOlder
    PROVE  StoreInv'
  <1>0. /\ Core /\ FilesInv /\ StoreTypeOK /\ DirT /\ AtT /\ StateT /\ CountT /\ MemT /\ HistT
        /\ Plans /\ KeyInv /\ TouchInv /\ GainInv /\ RebuildInv /\ AckedInv /\ WholeInv /\ BuildInv
        /\ JobInv /\ KindInv /\ "gui" \in Proc /\ "cli" \in Proc
    BY Types DEF StoreInv, Core, FilesInv, Proc, WholeFree
  <1>. DEFINE b == job["gui"].back
              o == b - 1
  <1>1. /\ At("gui", "dropOlder") /\ Advance("gui")
        /\ job' = [job EXCEPT !["gui"].kind = "rekeyed"]
        /\ dir' = IF b > 1 THEN [dir EXCEPT ![o] = NoDir] ELSE dir
        /\ IF b > 1 THEN Moved(o, -1) ELSE at' = at
        /\ state' = state /\ pwOf' = pwOf /\ keys' = keys /\ clock' = clock
        /\ failures' = failures /\ mem' = mem /\ app' = app /\ work' = work /\ st' = st
        /\ acked' = acked /\ gain' = gain /\ clean' = clean /\ whole' = whole
    BY DEF DropOlder, hist
  <1>2. /\ Plans' /\ KindInv' /\ JobInv' /\ Kind' = "rekeyed" /\ Kind = "rekey"
        /\ Ahead = 5 /\ Ahead' = 4 /\ plan'["cli"] = plan["cli"] /\ ~Idle("gui")
        /\ job'["gui"].back = b /\ ~Idle("gui")'
        /\ <<"openKey">> \notin Left("gui") /\ \A i : <<"openItem", i>> \notin Left("gui")
        /\ <<"writeKey">> \notin Left("gui")
    BY <1>0, <1>1, DropOlderKind
  <1>3. b \in Backup
    BY <1>0, <1>2, KindInvWas DEF Changing
  <1>4. CASE ~(b > 1)
    <2>1. job' = [job EXCEPT !["gui"].kind = IF @ = "rekey" THEN "rekeyed" ELSE @]
      BY <1>1, <1>2 DEF Kind
    <2>2. failures' \in 0..MaxFailures
      BY <1>0, <1>1 DEF CountT
    <2>3. dir' = dir /\ at' = at
      BY <1>1, <1>4
    <2>. QED
      BY <1>0, <1>1, <2>1, <2>2, <2>3, OfIgnored
  <1>5. CASE b > 1
    <2>1. o \in Backup /\ o # b /\ o # 0 /\ o \in {0} \cup Backup
      <3>. DEFINE top == MaxClock + MaxFailures + 2
      <3>1. top \in Nat /\ Backup = 1..top
        BY BoundsAssumption DEF Backup
      <3>2. b \in 1..top /\ b > 1
        BY <1>3, <1>5, <3>1
      <3>. HIDE DEF top, b
      <3>3. o \in 1..top /\ o # b /\ o # 0
        BY <3>1, <3>2
      <3>. QED
        BY <3>1, <3>3
    <2>2. dir' = [dir EXCEPT ![o] = NoDir] /\ Moved(o, -1)
      BY <1>1, <1>5
    <2>. HIDE DEF o, b
    <2>3. /\ DirT' /\ dir'[o] = NoDir /\ DOMAIN dir' = DOMAIN dir
          /\ \A m \in {0} \cup Backup : m # o => dir'[m] = dir[m]
      BY <1>0, <2>1, <2>2, NoDirKind, PutDir
    <2>4. dir'[0] = dir[0]
      BY <2>1, <2>3, FileKinds
    <2>5. AtT' /\ \A q \in Proc : at'[q] = IF at[q] = o THEN -1 ELSE at[q]
      BY <1>0, <2>1, <2>2, MovedAt
    <2>6. StoreTypeOK'
      <3>1. CountT'
        BY <1>0, <1>1 DEF CountT
      <3>. QED
        BY <1>0, <1>1, <2>3, <2>5, <3>1, SameState, SameMem, SameHist, TypesNext
    <2>7. ~At("gui", "openKey") /\ ~At("gui", "openVault")
          /\ \A i \in Items : ~AtItem("gui", "openItem", i) /\ ~AtItem("gui", "writeItem", i)
      BY <1>0, <1>1, OneStep
    <2>8. ~Writing("gui")' /\ Range(plan'["gui"]) \subseteq Range(plan["gui"])
      BY <1>0, <1>1, <1>2, <2>7, Advanced, NextStep DEF Writing
    <2>9. KeyInv'
      <3>1. \A n \in {0} \cup Backup : dir'[n].key # None => dir'[n].there
        BY <1>0, <2>3, NoDirKind DEF KeyInv, DirT
      <3>2. \A n \in {0} \cup Backup : n # o /\ n # -1 => dir'[n] = dir[n]
        BY <2>3
      <3>. QED
        BY <1>0, <1>2, <2>1, <2>2, <2>3, <2>5, <2>8, <3>1, <3>2, MovedKeys
    <2>10. MadeInv'
      BY <1>2 DEF MadeInv
    <2>11. TouchInv'
      <3>1. Touching("gui")' = {}
        BY <1>2, RekeyedTouches
      <3>2. Touching("cli")' = Touching("cli")
        BY <1>2 DEF Touching
      <3>. QED
        BY <1>0, <1>1, <3>1, <3>2, TouchFrame DEF Proc
    <2>12. GainInv'
      <3>1. Kind \in Changing
        BY <1>2 DEF Changing
      <3>. QED
        BY <1>0, <1>1, <3>1, MoveQuiet
    <2>13. ~At("gui", "writeKey")' /\ (<<"openKey">> \notin Left("gui"))' /\ ~At("gui", "writeKey")
      BY <1>0, <1>1, <1>2, <2>8, OneStep DEF Left, Writing
    <2>14. Rebuilding /\ Rebuilding'
      <3>1. Ahead > 3 /\ Ahead' > 3
        BY <1>2
      <3>. QED
        BY <1>2, <3>1 DEF Rebuilding
    <2>15. RebuildInv'
      <3>1. dir[0].key \in Key /\ work["gui"].key = dir[0].key
        BY <1>0, <1>2, <2>13, <2>14 DEF RebuildInv
      <3>. QED
        BY <1>1, <1>2, <2>4, <2>13, <3>1 DEF RebuildInv
    <2>16. ASSUME NEW i \in Items, Progress("gui", i)
           PROVE  Progress("gui", i)' /\ ReadableIn(0, i)'
      <3>1. work["gui"].key \in Key /\ dir[0].item[i] = work["gui"].key
        BY <1>2, <2>7, <2>16 DEF Progress
      <3>2. dir[0].key = work["gui"].key
        BY <1>0, <1>2, <2>13, <2>14 DEF RebuildInv
      <3>3. dir[0].there
        BY <1>0, <3>1, <3>2, FileKinds DEF KeyInv, DirT
      <3>4. ReadableIn(0, i)'
        BY <2>4, <3>1, <3>2, <3>3 DEF ReadableIn
      <3>5. Progress("gui", i)'
        BY <1>0, <1>1, <1>2, <2>4, <2>7, <2>16, ProgressKept
      <3>. QED
        BY <3>4, <3>5
    <2>17. AckedInv'
      <3>1. SUFFICES ASSUME NEW i \in acked
                     PROVE  (\E n \in DOMAIN dir' : ReadableIn(n, i)') /\ Progress("gui", i)'
        BY <1>1, <1>2 DEF AckedInv
      <3>2. i \in Items /\ Progress("gui", i)
        BY <1>0, <2>14, <3>1 DEF AckedInv, HistT
      <3>3. 0 \in DOMAIN dir'
        BY <1>0, <2>3 DEF DirT
      <3>. QED
        BY <2>16, <3>2, <3>3
    <2>18. FilesInv'
      BY <2>9, <2>10, <2>11, <2>12, <2>15, <2>17 DEF FilesInv
    <2>19. WholeFree'
      <3>1. SUFFICES ASSUME whole # {} PROVE WholeFree'
        BY <1>1, NoWhole
      <3>2. ~(Ahead > 7)
        BY <1>2
      <3>0. PICK c \in Backup : c = job["gui"].back
        BY <1>3 DEF b
      <3>3. Idle("cli") /\ HasWhole(c)
        BY <1>0, <1>2, <3>0, <3>1, <3>2 DEF WholeInv
      <3>4. HasWhole(c)' /\ c \in DOMAIN dir'
        <4>1. c # o /\ c \in {0} \cup Backup
          BY <2>1, <3>0 DEF b
        <4>2. dir'[c] = dir[c] /\ c \in DOMAIN dir'
          BY <2>3, <4>1 DEF DirT
        <4>. QED
          BY <1>1, <3>3, <4>2 DEF HasWhole, Whole
      <3>5. Idle("cli")'
        BY <1>2, <3>3 DEF Idle
      <3>6. ~(Ahead' < 4) /\ Ahead' # 9 /\ Ahead' < 9 /\ Ahead < 9 /\ Ahead > 3
        BY <1>2
      <3>7. WholeInv'
        BY <1>2, <3>4, <3>5, <3>6, WholeNow
      <3>8. /\ \A i \in work["gui"].items : Progress("gui", i)
            /\ dir[0].vault.k = work["gui"].key /\ dir[0].vault.items = work["gui"].items
        BY <1>0, <2>14, <3>1, <3>6 DEF BuildInv
      <3>9. work["gui"].items \subseteq Items
        BY <1>0 DEF MemT, Vault
      <3>10. \A i \in work'["gui"].items : Progress("gui", i)'
        BY <1>1, <2>16, <3>8, <3>9
      <3>. QED
        BY <1>1, <2>4, <3>6, <3>7, <3>8, <3>10 DEF WholeFree, BuildInv
    <2>. QED
      BY <1>2, <2>6, <2>18, <2>19 DEF StoreInv, Core
  <1>. QED
    BY <1>4, <1>5

\* The first step of a password change: the directory is moved aside.
LEMMA MoveAsideKind ==
    ASSUME Core, At("gui", "moveAside"), Advance("gui"),
           job' = [job EXCEPT !["gui"].kind = "rekey"]
    PROVE  /\ Plans' /\ KindInv' /\ JobInv' /\ Kind' = "rekey" /\ Kind = "rekeyStart"
           /\ Ahead' \in Nat /\ Ahead' > 9 /\ plan'["cli"] = plan["cli"]
           /\ ~Idle("gui") /\ ~Idle("gui")' /\ job'["gui"].back = job["gui"].back
           /\ (<<"openKey">> \in Left("gui"))' /\ ~Writing("gui")'
           /\ \A i : <<"openItem", i>> \in Left("gui") => (<<"openItem", i>> \in Left("gui"))'
           /\ Range(plan'["gui"]) \subseteq Range(plan["gui"])
  <1>0. Plans /\ KindInv /\ JobInv /\ "gui" \in Proc /\ "cli" \in Proc /\ ~Idle("gui")
    BY DEF Core, Proc, At
  <1>1. Kind = "rekeyStart"
    <2>1. Kind \in Changing
      BY <1>0, OtherHeads
    <2>. QED
      BY <1>0, <2>1, ChangeHeads
  <1>2. /\ Plans' /\ plan'["cli"] = plan["cli"] /\ plan'["gui"] = Tail(plan["gui"])
        /\ Range(plan'["gui"]) \subseteq Range(plan["gui"])
        /\ Len(plan'["gui"]) = Len(plan["gui"]) - 1 /\ Len(plan["gui"]) \in Nat
        /\ \A x \in Range(plan["gui"]) : x # Head(plan["gui"]) => x \in Range(plan'["gui"])
    BY <1>0, Advanced
  <1>3. /\ Closes(plan["gui"]) /\ Len(plan["gui"]) > 10
        /\ <<"openKey">> \in Range(plan["gui"])
        /\ <<"moveAside">> \notin Range(Tail(plan["gui"]))
        /\ plan["gui"] \in Seq(StepSet) /\ plan["gui"] # <<>>
    BY <1>0, <1>1, KindInvWas DEF Plans, Idle
  <1>4. Len(plan'["gui"]) \in Nat /\ Len(plan'["gui"]) > 9 /\ Len(plan'["gui"]) > 4
    BY <1>2, <1>3
  <1>5. plan'["gui"] # <<>>
    <2>1. Len(<<>>) = 0
      OBVIOUS
    <2>. QED
      BY <1>4, <2>1
  <1>6. /\ job'["gui"].kind = "rekey" /\ job'["cli"] = job["cli"]
        /\ job'["gui"].back = job["gui"].back
    BY <1>0 DEF JobInv
  <1>7. JobInv'
    <2>1. [job["gui"] EXCEPT !.kind = "rekey"] \in JobSet
      BY <1>0 DEF JobInv, JobSet, Kinds
    <2>. QED
      BY <1>0, <2>1 DEF JobInv, JobSet
  <1>8. Closes(plan'["gui"])
    BY <1>2, <1>3, TailCloses
  <1>9. KindInv' /\ Kind' = "rekey"
    <2>. DEFINE k == "rekey"
    <2>1. k = IF plan'["gui"] = <<>> THEN "idle" ELSE job'["gui"].kind
      BY <1>5, <1>6
    <2>2. /\ job'["cli"].kind \in {"none", "create", "unlock", "save"}
          /\ <<"prompt">> \in Range(plan'["cli"]) => Range(plan'["cli"]) \subseteq
               {<<"loadSeen">>, <<"storeState">>, <<"writeState">>, <<"prompt">>}
          /\ job'["gui"].back \in Backup
      BY <1>0, <1>1, <1>2, <1>6, KindInvWas DEF Changing
    <2>3. k # "rekeyStart" /\ k # "rekeyed" /\ k # "restore" /\ k # "none" /\ k \in Changing
      BY DEF Changing
    <2>4. <<"moveAside">> \notin Range(plan'["gui"])
      BY <1>2, <1>3
    <2>. HIDE DEF k
    <2>5. k = "rekey"
      BY DEF k
    <2>. QED
      BY <1>4, <1>8, <2>1, <2>2, <2>3, <2>4, <2>5, KindInvNow
  <1>10. Head(plan["gui"]) = <<"moveAside">>
    BY <1>0, OneStep
  <1>11. /\ (<<"openKey">> \in Left("gui"))'
         /\ \A i : <<"openItem", i>> \in Left("gui") => (<<"openItem", i>> \in Left("gui"))'
    BY <1>2, <1>3, <1>10, Names DEF StepNames, Left
  <1>12. ~Writing("gui")'
    <2>1. ~At("gui", "openKey") /\ ~At("gui", "openVault")
          /\ \A i \in Items : ~AtItem("gui", "openItem", i)
      BY <1>0, OneStep
    <2>. QED
      BY <1>0, <2>1, NextStep DEF Writing
  <1>13. Ahead' \in Nat /\ Ahead' > 9
    BY <1>4 DEF Ahead
  <1>. QED
    BY <1>0, <1>1, <1>2, <1>5, <1>6, <1>7, <1>9, <1>11, <1>12, <1>13 DEF Idle

LEMMA OfMoveAside ==
    ASSUME StoreInv, MoveAside
    PROVE  StoreInv'
  <1>0. /\ Core /\ FilesInv /\ StoreTypeOK /\ DirT /\ AtT /\ StateT /\ CountT /\ MemT /\ HistT
        /\ Plans /\ KeyInv /\ TouchInv /\ GainInv /\ RebuildInv /\ AckedInv /\ WholeInv /\ BuildInv
        /\ JobInv /\ KindInv /\ "gui" \in Proc /\ "cli" \in Proc
    BY Types DEF StoreInv, Core, FilesInv, Proc, WholeFree
  <1>1. /\ At("gui", "moveAside") /\ Advance("gui")
        /\ job' = [job EXCEPT !["gui"].kind = "rekey"]
        /\ dir[0].there /\ ~dir[job["gui"].back].there
        /\ dir' = [dir EXCEPT ![0] = NoDir, ![job["gui"].back] = dir[0]]
        /\ Moved(0, job["gui"].back)
        /\ state' = state /\ pwOf' = pwOf /\ keys' = keys /\ clock' = clock
        /\ failures' = failures /\ mem' = mem /\ app' = app /\ work' = work /\ st' = st
        /\ acked' = acked /\ gain' = gain /\ clean' = clean /\ whole' = whole
    BY DEF MoveAside, hist
  <1>2. /\ Plans' /\ KindInv' /\ JobInv' /\ Kind' = "rekey" /\ Kind = "rekeyStart"
        /\ Ahead' \in Nat /\ Ahead' > 9 /\ plan'["cli"] = plan["cli"]
        /\ ~Idle("gui") /\ ~Idle("gui")' /\ job'["gui"].back = job["gui"].back
        /\ (<<"openKey">> \in Left("gui"))' /\ ~Writing("gui")'
        /\ \A i : <<"openItem", i>> \in Left("gui") => (<<"openItem", i>> \in Left("gui"))'
        /\ Range(plan'["gui"]) \subseteq Range(plan["gui"])
    BY <1>0, <1>1, MoveAsideKind
  <1>3. PICK c \in Backup : c = job["gui"].back
    BY <1>0, <1>2, KindInvWas DEF Changing
  <1>4. c \in {0} \cup Backup /\ c # 0 /\ c # -1
    BY <1>3, FileKinds DEF Backup
  <1>5. /\ DirT' /\ dir'[0] = NoDir /\ dir'[c] = dir[0] /\ DOMAIN dir' = {0} \cup Backup
        /\ \A m \in {0} \cup Backup : m # 0 /\ m # c => dir'[m] = dir[m]
    BY <1>0, <1>1, <1>3, <1>4, NoDirKind DEF DirT
  <1>6. Moved(0, c) /\ ~dir[c].there /\ dir[0].there
    BY <1>1, <1>3
  <1>7. AtT'
    BY <1>0, <1>4, <1>6, MovedAt
  <1>8. StoreTypeOK'
    <2>1. CountT'
      BY <1>0, <1>1 DEF CountT
    <2>. QED
      BY <1>0, <1>1, <1>5, <1>7, <2>1, SameState, SameMem, SameHist, TypesNext
  <1>9. KeyInv'
    <2>1. \A n \in {0} \cup Backup : dir'[n].key # None => dir'[n].there
      BY <1>0, <1>5, <1>6, NoDirKind DEF KeyInv, DirT
    <2>2. dir'[c] = dir[0] /\ ~dir[c].there
      BY <1>5, <1>6
    <2>. QED
      BY <1>0, <1>2, <1>4, <1>5, <1>6, <1>7, <2>1, <2>2, MovedKeys, FileKinds
  <1>10. MadeInv'
    BY <1>2 DEF MadeInv
  <1>11. TouchInv'
    <2>1. \A q \in Proc : Touching(q)' \subseteq Touching(q)
      BY <1>2 DEF Touching, Proc
    <2>. QED
      BY <1>0, <1>1, <1>2, <2>1, TouchFrame
  <1>12. GainInv'
    <2>1. Kind \in Changing
      BY <1>2 DEF Changing
    <2>. QED
      BY <1>0, <1>1, <2>1, MoveQuiet
  <1>13. RebuildInv'
    BY <1>0, <1>1, <1>2 DEF RebuildInv
  <1>14. ASSUME NEW i \in Items, <<"openItem", i>> \in Left("gui") PROVE Progress("gui", i)'
    BY <1>2, <1>14 DEF Progress, Writing
  <1>15. AckedInv'
    <2>1. SUFFICES ASSUME NEW i \in acked
                   PROVE  Kept(i)' /\ Progress("gui", i)'
      <3>1. ASSUME NEW i \in acked, Kept(i)' PROVE \E n \in DOMAIN dir' : ReadableIn(n, i)'
        BY <1>5, <3>1 DEF Kept
      <3>. QED
        BY <1>1, <1>2, <3>1 DEF AckedInv
    <2>2. i \in Items /\ <<"openItem", i>> \in Left("gui")
      BY <1>0, <1>2, <2>1 DEF AckedInv, HistT
    <2>3. PICK n \in {0} \cup Backup : ReadableIn(n, i)
      BY <1>0, <2>1 DEF AckedInv, DirT
    <2>4. IF n = 0 THEN ReadableIn(c, i)' ELSE n \in Backup /\ ReadableIn(n, i)'
      BY <1>5, <1>6, <2>3 DEF ReadableIn
    <2>. QED
      BY <1>3, <1>14, <2>2, <2>4 DEF Kept
  <1>16. FilesInv'
    BY <1>9, <1>10, <1>11, <1>12, <1>13, <1>15 DEF FilesInv
  <1>17. WholeFree'
    <2>1. SUFFICES ASSUME whole # {} PROVE WholeFree'
      BY <1>1, NoWhole
    <2>2. HasWhole(0) \/ \E n \in Backup : Aside(n)
      BY <1>0, <1>2, <1>3, <2>1 DEF WholeInv
    <2>3. /\ Idle("cli") /\ Named(c)
          /\ \A i \in work["gui"].items : <<"openItem", i>> \in Left("gui")
      BY <1>0, <1>2, <1>3, <2>1 DEF WholeInv
    <2>4. Idle("cli")' /\ Named(c)'
      BY <1>1, <1>2, <2>3 DEF Idle, Named, catalogueVaultVersion
    <2>5. Ahead' > 7 /\ Ahead' # 9 /\ ~(Ahead' < 9) /\ ~(Ahead' < 4)
      BY <1>2
    <2>6. \E n \in Backup : HasWhole(n)' /\ (n = c \/ state' = Cut)
      <3>1. CASE HasWhole(0)
        BY <1>1, <1>3, <1>5, <3>1 DEF HasWhole, Whole
      <3>2. CASE \E n \in Backup : Aside(n)
        <4>1. PICK n \in Backup : Aside(n)
          BY <3>2
        <4>2. n # c /\ n # 0
          BY <1>6, <4>1, FileKinds DEF Aside, HasWhole, Whole
        <4>3. HasWhole(n)'
          BY <1>1, <1>5, <4>1, <4>2 DEF Aside, HasWhole, Whole
        <4>4. state' = Cut
          BY <1>1, <2>3, <4>1, <4>2 DEF Aside, Named
        <4>. QED
          BY <4>3, <4>4
      <3>. QED
        BY <2>2, <3>1, <3>2
    <2>7. PICK n \in Backup : HasWhole(n)' /\ (n = c \/ state' = Cut)
      BY <2>6
    <2>8. \E m \in DOMAIN dir' : HasWhole(m)'
      BY <1>5, <2>7
    <2>9. Named(job["gui"].back)' /\ (HasWhole(job["gui"].back)' \/ (state' = Cut /\ \E m \in Backup : HasWhole(m)'))
      <3>1. job'["gui"].back = c
        BY <1>2, <1>3
      <3>2. Named(job["gui"].back)'
        BY <2>4, <3>1 DEF Named, catalogueVaultVersion
      <3>3. n = c => HasWhole(job["gui"].back)'
        BY <2>7, <3>1 DEF HasWhole
      <3>. QED
        BY <2>7, <3>2, <3>3
    <2>10. WholeInv'
      BY <1>2, <2>4, <2>5, <2>8, <2>9, WholeNow
    <2>11. \A i \in work'["gui"].items : Progress("gui", i)'
      <3>1. work["gui"].items \subseteq Items
        BY <1>0 DEF MemT, Vault
      <3>. QED
        BY <1>1, <1>14, <2>3, <3>1
    <2>. QED
      BY <2>5, <2>10, <2>11 DEF WholeFree, BuildInv
  <1>. QED
    BY <1>2, <1>8, <1>16, <1>17 DEF StoreInv, Core

LEMMA OfChangePassword ==
    ASSUME StoreInv, NEW old \in Passwords, NEW new \in Passwords, ChangePassword(old, new)
    PROVE  StoreInv'
  <1>0. /\ Core /\ FilesInv /\ StoreTypeOK /\ DirT /\ AtT /\ StateT /\ CountT /\ MemT /\ HistT
        /\ Plans /\ KeyInv /\ TouchInv /\ GainInv /\ RebuildInv /\ AckedInv /\ WholeInv
        /\ JobInv /\ KindInv /\ "gui" \in Proc /\ "cli" \in Proc
    BY Types DEF StoreInv, Core, FilesInv, Proc, WholeFree
  <1>. DEFINE b == catalogueVaultVersion
              v == [mem EXCEPT !.key = None, !.mod = clock + 1, !.from = 0]
              j == [kind |-> "rekeyStart", pw |-> new, back |-> b]
  <1>1. /\ Idle("gui") /\ mem # Nil /\ Tick /\ b \in Backup
        /\ work' = [work EXCEPT !["gui"] = v] /\ job' = [job EXCEPT !["gui"] = j]
        /\ gain' = [q \in Proc |-> {}] /\ clean' = FALSE /\ acked' = acked \cap mem.items
        /\ whole' = whole /\ dir' = dir /\ state' = state /\ pwOf' = pwOf /\ keys' = keys
        /\ failures' = failures /\ mem' = mem /\ app' = app /\ st' = st /\ at' = at
    BY DEF ChangePassword, disk
  <1>2. PICK order \in Bijection(1..Cardinality(mem.items), mem.items) :
            plan' = [plan EXCEPT !["gui"] = ChangeVaultPassword(order)]
    BY DEF ChangePassword
  <1>3. mem \in Vault /\ mem.items \in SUBSET Items
    BY <1>0, <1>1, SomeVault
  <1>4. Cardinality(mem.items) \in Nat
    BY <1>3, SetsAssumption, FS_Subset, FS_CardinalityType
  <1>. DEFINE t == ChangeVaultPassword(order)
  <1>5. /\ Block(t) /\ t # <<>> /\ Closes(t) /\ Len(t) > 10
        /\ Head(t) = <<"moveAside">> /\ <<"openKey">> \in Range(t)
        /\ <<"moveAside">> \notin Range(Tail(t))
        /\ \A i \in mem.items : <<"openItem", i>> \in Range(t)
    BY <1>2, <1>3, <1>4, PlanOfChange
  <1>. HIDE DEF t
  <1>6. /\ Plans' /\ plan'["gui"] = t /\ plan'["cli"] = plan["cli"] /\ ~Writing("gui")'
    <2>1. plan' = [plan EXCEPT !["gui"] = t]
      BY <1>2 DEF t
    <2>. QED
      BY <1>0, <1>5, <2>1, NewPlan
  <1>7. clock' \in Nat /\ clock + 1 \in Nat
    BY <1>0, <1>1, TickTypes
  <1>8. v \in Vault /\ v.key = None /\ v.items = mem.items
    BY <1>3, <1>7 DEF Vault
  <1>9. /\ JobInv' /\ job'["gui"] = j /\ job'["cli"] = job["cli"]
    <2>1. j \in [kind : Kinds, pw : Passwords, back : {0} \cup Backup]
      BY <1>1 DEF Kinds
    <2>. HIDE DEF j
    <2>. QED
      BY <1>0, <1>1, <2>1, JobTypes
  <1>10. job'["gui"].kind = "rekeyStart" /\ job'["gui"].back = b
    BY <1>9
  <1>. HIDE DEF v, j, b
  <1>11. work' \in [Proc -> Vault] /\ work'["gui"] = v
    BY <1>0, <1>1, <1>8 DEF MemT
  <1>12. KindInv' /\ Kind' = "rekeyStart"
    <2>. DEFINE k == "rekeyStart"
    <2>1. k = IF plan'["gui"] = <<>> THEN "idle" ELSE job'["gui"].kind
      BY <1>5, <1>6, <1>10
    <2>2. /\ job'["cli"].kind \in {"none", "create", "unlock", "save"}
          /\ <<"prompt">> \in Range(plan'["cli"]) => Range(plan'["cli"]) \subseteq
               {<<"loadSeen">>, <<"storeState">>, <<"writeState">>, <<"prompt">>}
          /\ job'["gui"].back \in Backup
      BY <1>0, <1>1, <1>6, <1>9, <1>10, KindInvWas
    <2>3. k # "rekey" /\ k # "rekeyed" /\ k # "restore" /\ k # "none" /\ k \in Changing
      BY DEF Changing
    <2>. HIDE DEF k
    <2>4. k = "rekeyStart"
      BY DEF k
    <2>. QED
      BY <1>5, <1>6, <2>1, <2>2, <2>3, <2>4, KindInvNow
  <1>13. StoreTypeOK' /\ DirT' /\ AtT'
    <2>1. CountT'
      BY <1>0, <1>1, <1>7, SameCount
    <2>2. MemT'
      BY <1>0, <1>1, <1>11 DEF MemT
    <2>3. HistT'
      BY <1>0, <1>1 DEF HistT
    <2>. QED
      BY <1>0, <1>1, <2>1, <2>2, <2>3, SameDir, SameAt, SameState, TypesNext
  <1>14. KeyInv'
    <2>1. \A q \in Proc : \/ plan'[q] = plan[q] /\ at'[q] = at[q]
                          \/ ~At(q, "writeKey")' /\ (Writing(q)' => at'[q] = 0)
      BY <1>1, <1>6 DEF Proc, Writing
    <2>. QED
      BY <1>0, <1>1, <1>13, <2>1, KeyFrame
  <1>15. MadeInv' /\ ~Rebuilding'
    BY <1>12 DEF MadeInv, Rebuilding
  <1>16. TouchInv'
    <2>1. Touching("cli")' = Touching("cli")
      BY <1>6 DEF Touching
    <2>2. \A q \in Proc : gain'[Other(q)] = {}
      BY <1>1 DEF Other, Proc
    <2>. QED
      BY <1>0, <1>1, <1>12, <2>1, <2>2 DEF TouchInv
  <1>17. GainInv'
    BY <1>0, <1>1, QuietFrame
  <1>18. RebuildInv'
    BY <1>8, <1>11, <1>15 DEF RebuildInv
  <1>19. \A i \in mem.items : (<<"openItem", i>> \in Left("gui"))'
    BY <1>5, <1>6 DEF Left
  <1>20. AckedInv'
    <2>1. SUFFICES ASSUME NEW i \in acked, i \in mem.items
                   PROVE  (\E n \in DOMAIN dir' : ReadableIn(n, i)')
      BY <1>1, <1>12, <1>15, <1>19 DEF AckedInv
    <2>2. PICK n \in DOMAIN dir : ReadableIn(n, i)
      BY <1>0, <2>1 DEF AckedInv
    <2>. QED
      BY <1>1, <2>2 DEF ReadableIn
  <1>21. FilesInv'
    BY <1>14, <1>15, <1>16, <1>17, <1>18, <1>20 DEF FilesInv
  <1>22. WholeFree'
    <2>1. SUFFICES ASSUME whole # {} PROVE WholeFree'
      BY <1>1, NoWhole
    <2>2. Kind = "idle"
      BY <1>1, IdleKind
    <2>3. /\ Idle("cli") /\ \E n \in DOMAIN dir : HasWhole(n)
      BY <1>0, <2>1 DEF WholeInv
    <2>4. HasWhole(0) \/ \E n \in Backup : Aside(n)
      BY <1>0, <1>1, <2>1, <2>2 DEF WholeInv
    <2>5. /\ \E n \in DOMAIN dir' : HasWhole(n)'
          /\ HasWhole(0)' \/ \E n \in Backup : Aside(n)'
      BY <1>1, <2>3, <2>4, SameWhole
    <2>6. Idle("cli")'
      BY <1>6, <2>3 DEF Idle
    <2>7. Named(job["gui"].back)'
      <3>1. catalogueVaultVersion' = b
        BY <1>1 DEF catalogueVaultVersion, b
      <3>. QED
        BY <1>10, <3>1 DEF Named
    <2>8. \A i \in work'["gui"].items : (<<"openItem", i>> \in Left("gui"))'
      BY <1>8, <1>11, <1>19
    <2>9. WholeInv'
      BY <1>12, <2>5, <2>6, <2>7, <2>8, WholeNow
    <2>. QED
      BY <1>15, <2>9 DEF WholeFree, BuildInv
  <1>. QED
    BY <1>6, <1>9, <1>12, <1>13, <1>21, <1>22 DEF StoreInv, Core

\* A store with no vault yet, or with one that was filled before.
LEMMA StartInv ==
    ASSUME StoreInit
    PROVE  StoreInv
  <1>1. PICK pw0 \in Passwords, i0 \in Items :
            pw0 = (CHOOSE pw \in Passwords : TRUE) /\ i0 = (CHOOSE i \in Items : TRUE)
    BY SetsAssumption
  <1>2. /\ \/ dir = [n \in {0} \cup Backup |-> NoDir] /\ state = NoEntry /\ keys = 0
           \/ /\ \E is \in {{}, {i0}} :
                     dir = [n \in {0} \cup Backup |-> IF n = 0 THEN Created(is) ELSE NoDir]
              /\ state = [NoEntry EXCEPT !.version = 2] /\ keys = 1
        /\ pwOf \in [Key -> {pw0}] /\ clock = 0 /\ failures = 0 /\ mem = Nil
        /\ app = [p \in Proc |-> state] /\ st = [p \in Proc |-> NoEntry]
        /\ work = [p \in Proc |-> Nil]
        /\ job = [p \in Proc |-> [kind |-> "none", pw |-> pw0, back |-> 0]]
        /\ plan = [p \in Proc |-> <<>>] /\ at = [p \in Proc |-> -1]
        /\ acked = {} /\ gain = [p \in Proc |-> {}] /\ clean = FALSE /\ whole = {}
    BY <1>1 DEF StoreInit
  <1>3. "gui" \in Proc /\ "cli" \in Proc /\ \A p \in Proc : p = "gui" \/ p = "cli"
    BY DEF Proc
  <1>4. 1 \in Key /\ 1 \in File
    BY BoundsAssumption DEF Key, File
  <1>5. DirT /\ \A n \in {0} \cup Backup : dir[n].key # None => dir[n].there
    <2>1. CASE dir = [n \in {0} \cup Backup |-> NoDir]
      BY <2>1, NoDirKind DEF DirT
    <2>2. CASE \E is \in {{}, {i0}} :
                  dir = [n \in {0} \cup Backup |-> IF n = 0 THEN Created(is) ELSE NoDir]
      <3>1. PICK is \in SUBSET Items :
                dir = [n \in {0} \cup Backup |-> IF n = 0 THEN Created(is) ELSE NoDir]
        BY <1>1, <2>2
      <3>2. Created(is) \in DirSet /\ Created(is).there
        <4>1. VaultListing(1, is, 0) \in [k : File, items : SUBSET Items, mod : Nat]
          BY <1>4 DEF VaultListing
        <4>2. [i \in Items |-> IF i \in is THEN 1 ELSE None] \in [Items -> File]
          BY <1>4, FileKinds
        <4>. QED
          BY <1>4, <4>1, <4>2 DEF Created, DirSet
      <3>. QED
        BY <3>1, <3>2, NoDirKind DEF DirT
    <2>. QED
      BY <1>2, <2>1, <2>2
  <1>6. /\ \A p \in Proc : plan[p] = <<>> /\ at[p] = -1 /\ gain[p] = {} /\ Idle(p)
        /\ \A p \in Proc : job[p].kind = "none"
    BY <1>2 DEF Idle
  <1>7. StoreTypeOK
    <2>1. AtT
      BY <1>2 DEF AtT
    <2>2. StateT
      <3>1. NoEntry \in Entry /\ [NoEntry EXCEPT !.version = 2] \in Entry
        BY DEF NoEntry, Entry
      <3>. QED
        BY <1>2, <3>1 DEF StateT
    <2>3. CountT
      <3>1. keys \in 0..MaxKeys /\ failures \in 0..MaxFailures /\ clock \in Nat
        BY <1>2, BoundsAssumption
      <3>2. pwOf \in [Key -> Passwords]
        BY <1>1, <1>2
      <3>. QED
        BY <3>1, <3>2 DEF CountT
    <2>4. MemT
      BY <1>2, NilVault DEF MemT
    <2>5. HistT
      BY <1>2 DEF HistT
    <2>. QED
      BY <1>5, <2>1, <2>2, <2>3, <2>4, <2>5, Types
  <1>8. JobInv
    <2>1. [kind |-> "none", pw |-> pw0, back |-> 0]
              \in [kind : Kinds, pw : Passwords, back : {0} \cup Backup]
      BY <1>1 DEF Kinds
    <2>. QED
      BY <1>2, <2>1 DEF JobInv
  <1>9. Plans
    <2>1. Block(<<>>)
      BY Pieces
    <2>. QED
      BY <1>2, <1>6, <2>1 DEF Plans, Block
  <1>10. Kind = "idle" /\ \A p \in Proc : Left(p) = {} /\ Touching(p) = {}
    <2>1. Range(<<>>) = {}
      BY Pieces
    <2>. QED
      BY <1>3, <1>6, <2>1 DEF Kind, Left, Touching
  <1>11. KindInv
    BY <1>3, <1>6, <1>10 DEF KindInv
  <1>12. KeyInv
    <2>1. \A p \in Proc : ~At(p, "writeKey") /\ ~At(p, "writeVault")
                          /\ \A i \in Items : ~AtItem(p, "writeItem", i)
      BY <1>6 DEF At, AtItem
    <2>. QED
      BY <1>3, <1>5, <2>1 DEF KeyInv, DirT
  <1>13. MadeInv /\ RebuildInv /\ AckedInv
    BY <1>2, <1>10 DEF MadeInv, RebuildInv, AckedInv, Rebuilding
  <1>14. TouchInv
    BY <1>3, <1>10 DEF TouchInv
  <1>15. GainInv
    BY <1>2, <1>3, <1>6, <1>10 DEF GainInv
  <1>16. WholeFree
    BY <1>2 DEF WholeFree, WholeInv, BuildInv
  <1>. QED
    BY <1>7, <1>8, <1>9, <1>11, <1>12, <1>13, <1>14, <1>15, <1>16 DEF StoreInv, Core, FilesInv

\* Every action keeps the invariant.
LEMMA StepsKeep ==
    ASSUME StoreInv, StoreNext
    PROVE  StoreInv'
  <1>1. CASE Gui
    <2>1. ASSUME NEW pw \in Passwords, Create(pw) PROVE StoreInv'
      BY <2>1, OfCreate
    <2>2. ASSUME NEW pw \in Passwords, NEW n \in {0} \cup Backup, Unlock(n, pw) PROVE StoreInv'
      BY <2>2, OfUnlock
    <2>3. ASSUME NEW i \in Items, NEW old \in {{}} \cup {{j} : j \in Items}, SaveItem(i, old)
          PROVE  StoreInv'
      BY <2>3, OfSaveItem
    <2>4. ASSUME NEW i \in Items, DeleteItem(i) \/ DropUnreadable(i) PROVE StoreInv'
      BY <2>4, OfDeleteItem, OfDropUnreadable
    <2>5. ASSUME NEW old \in Passwords, NEW new \in Passwords, ChangePassword(old, new)
          PROVE  StoreInv'
      BY <2>5, OfChangePassword
    <2>6. ASSUME Lock \/ Recolour \/ MoveAside \/ DropOlder \/ Adopt \/ ClearActive \/ MoveBack
          PROVE  StoreInv'
      BY <2>6, OfLock, OfRecolour, OfMoveAside, OfDropOlder, OfAdopt, OfClearActive, OfMoveBack
    <2>. QED
      BY <1>1, <2>1, <2>2, <2>3, <2>4, <2>5, <2>6 DEF Gui
  <1>2. CASE Cli
    <2>1. ASSUME NEW pw \in Passwords, InitVault(pw) \/ LoadCommand(pw) PROVE StoreInv'
      BY <2>1, OfInitVault, OfLoadCommand
    <2>2. ASSUME NEW i \in Items, AddCmd(i) \/ EditCmd(i) \/ RemoveCmd(i) PROVE StoreInv'
      BY <2>2, OfAddCmd, OfEditCmd, OfRemoveCmd
    <2>. QED
      BY <1>2, <2>1, <2>2, OfLeave DEF Cli
  <1>3. ASSUME NEW p \in Proc, Step(p) PROVE StoreInv'
    <2>1. ASSUME NEW i \in Items, OpenItem(p, i) \/ WriteItem(p, i) \/ RemoveItem(p, i)
          PROVE  StoreInv'
      BY <2>1, OfOpenItem, OfWriteItem, OfRemoveItem
    <2>2. ASSUME OpenKey(p) \/ WriteKey(p) \/ OpenVault(p) \/ WriteVault(p) PROVE StoreInv'
      BY <2>2, OfOpenKey, OfWriteKey, OfOpenVault, OfWriteVault
    <2>3. ASSUME LoadState(p) \/ StoreState(p) \/ WriteState(p) \/ Refused(p) \/ Return(p)
          PROVE  StoreInv'
      BY <2>3, OfLoadState, OfStoreState, OfWriteState, OfRefused, OfReturn
    <2>. QED
      BY <1>3, <2>1, <2>2, <2>3 DEF Step
  <1>4. ASSUME NEW p \in Proc, CallFails(p) \/ Die(p) PROVE StoreInv'
    BY <1>4, OfCallFails, OfDie
  <1>. QED
    BY <1>1, <1>2, <1>3, <1>4 DEF StoreNext

\* The inductive invariant of the vault's files: what each operation has still
\* to do, which key it writes with, and where the last complete vault is while
\* the password is changed.
THEOREM StoreInductive == StoreSpec => []StoreInv
  <1>1. StoreInit => StoreInv
    BY StartInv
  <1>2. StoreInv /\ [StoreNext]_storeVars => StoreInv'
    BY StepsKeep, OfStutter
  <1>. QED
    BY <1>1, <1>2, PTL DEF StoreSpec

\* Every variable of the store keeps its type (usm/storage_os.go), for any
\* number of items, passwords, keys and failures.
THEOREM StoreTypeCorrect == StoreSpec => []StoreTypeOK
  <1>1. StoreInv => StoreTypeOK
    BY DEF StoreInv, Core
  <1>. QED
    BY <1>1, StoreInductive, PTL

\* ChangeVaultPassword and restoreBackup (usm/storage_os.go): the last vault that
\* was completely there can be read whole in some directory through any number of
\* password changes, failing steps and deaths of the program, while no command
\* runs beside them.
THEOREM VaultKept == StoreSpec => []PasswordChangeKeepsVault
  <1>1. StoreInv => PasswordChangeKeepsVault
    BY DEF StoreInv, WholeFree, WholeInv, HasWhole, PasswordChangeKeepsVault
  <1>. QED
    BY <1>1, StoreInductive, PTL

\* StoreItem (usm/storage_os.go): an item reported as stored can be read in the
\* vault or a backup of it until it is touched again, whatever the other
\* process does meanwhile.
THEOREM ReportedReadable == StoreSpec => []ReportedItemReadable
  <1>1. StoreInv => ReportedItemReadable
    BY DEF StoreInv, FilesInv, AckedInv, ReadableIn, ReportedItemReadable
  <1>. QED
    BY <1>1, StoreInductive, PTL

================================================================================
