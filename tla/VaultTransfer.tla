----------------------------- MODULE VaultTransfer -----------------------------
(***************************************************************************)
(* One vault directory and the process that receives a new version of it   *)
(* from a paired peer: receiveVault (internal/sync/service.go) fills the   *)
(* staging directory, CommitStaging (internal/sync/transfer.go) swaps it   *)
(* in behind a backup, and CleanupOrphanedSync repairs the directory when  *)
(* the application starts after a crash.                                   *)
(*                                                                         *)
(* Every rename and every directory removal is a step of its own, a crash  *)
(* may fall between any two of them and inside a removal, and at most      *)
(* MaxFaults file system calls fail.  The crash is a crash of the process: *)
(* renames already made are on the disk.                                   *)
(*                                                                         *)
(* Files are numbered in the order os.ReadDir lists them.  Items are named *)
(* by a hexadecimal hash and the key is key.age, so that vault.age is the  *)
(* last one; CommitStaging and rollbackFromBackup depend on that order.    *)
(***************************************************************************)
EXTENDS Integers, FiniteSets

CONSTANTS
    VaultFile,  \* the number of vault.age: the last file of the directory
    Contents,   \* what a file can hold
    Absent,     \* there is no such file
    MaxFaults   \* bound: file system calls that fail

ASSUME VaultFileAssumption == VaultFile \in Nat \ {0}
ASSUME ContentsAssumption == Absent \notin Contents
ASSUME FaultsAssumption == MaxFaults \in Nat

VARIABLES
    live,      \* the files of the vault directory
    staging,   \* the files of .sync-staging
    backup,    \* the files of .sync-backup
    dirs,      \* which of the two directories exist
    pc,        \* where the process is
    todo,      \* the entries that the current loop has still to visit
    incoming,  \* the vault the peer sends
    outcome,   \* what the last receiveVault returned
    faults,    \* calls that failed so far
    base,      \* history: the vault its user is entitled to find
    beside,    \* history: files another program wrote among the moves
    gaps       \* history: which of the unprotected windows was hit

vars == <<live, staging, backup, dirs, pc, todo, incoming, outcome, faults,
          base, beside, gaps>>

Files == 1 .. VaultFile
Directory == [Files -> Contents \cup {Absent}]
Empty == [f \in Files |-> Absent]
Entries(d) == {f \in Files : d[f] # Absent}

\* A peer that announces a vault holds at least its vault.age.
Vaults == {d \in Directory : d[VaultFile] # Absent}

Settled == pc \in {"idle", "begin", "recv"}

\* Files are moved between the three directories for a session.
Moving == \/ pc \in {"backup", "commit", "sweep", "finish"}
          \/ pc \in {"list", "rollback"} /\ outcome # "crashed"

\* The directory looks as if a commit had not come to its end.
Unfinished == "backup" \in dirs /\ live[VaultFile] = Absent

\* The lowest entry: the one the range loop over os.ReadDir visits next.
IsFirst(f, s) == f \in s /\ \A g \in s : f <= g

TypeOK ==
    /\ live \in Directory /\ staging \in Directory /\ backup \in Directory
    /\ base \in Directory /\ incoming \in Directory
    /\ dirs \in SUBSET {"staging", "backup"}
    /\ pc \in {"idle", "begin", "recv", "backup", "commit", "sweep", "finish",
               "list", "rollback", "down", "cleanup", "inspect", "discard"}
    /\ todo \in SUBSET Files
    /\ outcome \in {"none", "ok", "receive_failed", "backup_failed",
                    "commit_failed", "crashed"}
    /\ faults \in 0 .. MaxFaults
    /\ beside \in SUBSET Files
    /\ gaps \in SUBSET {"backup_cut", "rollback_fault", "vault_beside",
                        "second_start", "late_crash"}

Init ==
    /\ live \in {Empty} \cup Vaults
    /\ staging = Empty /\ backup = Empty /\ dirs = {}
    /\ pc = "idle" /\ todo = {}
    /\ incoming = Empty /\ outcome = "none" /\ faults = 0
    /\ base = live /\ beside = {} /\ gaps = {}

--------------------------------------------------------------------------------
\* One more file system call fails.
Fault == faults < MaxFaults /\ faults' = faults + 1

\* os.Rename fails when the file is gone or the target directory is, and
\* otherwise when the file system says so.
CannotRename(f, src, dst) == src[f] = Absent \/ dst \notin dirs \cup {"live"}

RenameFails(f, src, dst) ==
    \/ CannotRename(f, src, dst) /\ UNCHANGED faults
    \/ ~CannotRename(f, src, dst) /\ Fault

\* No later move takes the file f of the vault directory for an older one, or
\* the move that does takes it along.
Owned(f) ==
    \/ Settled \/ pc = "discard"
    \/ pc = "backup" /\ f \in todo
    \/ pc = "rollback" /\ f \notin todo \cup beside /\ ~(f = VaultFile /\ Unfinished)
    \/ pc \in {"down", "cleanup", "inspect"} /\ ~Unfinished

\* A user's StoreItem, StoreVault or DeleteItem.  The GUI is locked during a
\* sync, unless its service has no callbacks, but the command line and the
\* browser's process are not: they take no lock, run no cleanup, and write at
\* any moment.  Where a later move may replace what they write, the file counts
\* as written beside; a vault.age that appears beside a backup before the
\* recovery has looked makes it take the commit for finished.
LocalWrite(f, c) ==
    /\ f = VaultFile => c # Absent
    /\ live' = [live EXCEPT ![f] = c]
    /\ base' = IF Owned(f) THEN [base EXCEPT ![f] = c] ELSE base
    /\ beside' = IF Owned(f) THEN beside \ {f} ELSE beside \cup {f}
    /\ gaps' = IF f = VaultFile /\ Unfinished /\ pc \in {"down", "cleanup", "inspect"}
               THEN gaps \cup {"vault_beside"} ELSE gaps
    /\ UNCHANGED <<staging, backup, dirs, pc, todo, incoming, outcome, faults>>

\* DeleteVault removes the directory and everything below it; a window whose
\* service has no callbacks does so in the middle of a commit too.
DeleteVault ==
    /\ Settled \/ Moving
    /\ live' = Empty /\ staging' = Empty /\ backup' = Empty /\ dirs' = {}
    /\ base' = Empty
    /\ beside' = IF Settled THEN {} ELSE Files
    /\ gaps' = IF Settled THEN {} ELSE gaps
    /\ UNCHANGED <<pc, todo, incoming, outcome, faults>>

\* receiveVault up to the first message: MkdirAll and PrepareStaging.
BeginReceive(v) ==
    /\ pc = "idle"
    /\ staging' = Empty /\ dirs' = dirs \cup {"staging"}
    /\ pc' = "begin" /\ incoming' = v /\ todo' = Entries(v) /\ outcome' = "none"
    /\ UNCHANGED <<live, backup, faults, base, beside, gaps>>

\* The MkdirAll of PrepareStaging fails after the RemoveAll.
PrepareFails ==
    /\ pc = "idle"
    /\ Fault
    /\ staging' = Empty /\ dirs' = dirs \ {"staging"}
    /\ outcome' = "receive_failed"
    /\ UNCHANGED <<live, backup, pc, todo, incoming, base, beside, gaps>>

\* transfer_begin arrives.
RecvBegin ==
    /\ pc = "begin"
    /\ pc' = "recv"
    /\ UNCHANGED <<live, staging, backup, dirs, todo, incoming, outcome, faults,
                   base, beside, gaps>>

\* Anything else does, or nothing: the staging directory is left behind.
RecvBeginFails ==
    /\ pc = "begin"
    /\ pc' = "idle" /\ todo' = {} /\ outcome' = "receive_failed"
    /\ UNCHANGED <<live, staging, backup, dirs, incoming, faults, base, beside, gaps>>

\* transfer_file: the payload is written below the staging directory.
RecvFile(f) ==
    /\ pc = "recv"
    /\ IsFirst(f, todo)
    /\ "staging" \in dirs
    /\ staging' = [staging EXCEPT ![f] = incoming[f]]
    /\ todo' = todo \ {f}
    /\ UNCHANGED <<live, backup, dirs, pc, incoming, outcome, faults, base, beside, gaps>>

\* The stream breaks, its deadline passes, a message is refused or a write
\* fails (disk full, staging directory gone): staging is removed.
RecvFails ==
    /\ pc = "recv"
    /\ staging' = Empty /\ dirs' = dirs \ {"staging"}
    /\ pc' = "idle" /\ todo' = {} /\ outcome' = "receive_failed"
    /\ UNCHANGED <<live, backup, incoming, faults, base, beside, gaps>>

--------------------------------------------------------------------------------
\* The head of CommitStaging: an old backup is dropped, a new one made.
BeginCommit ==
    /\ pc = "recv" /\ todo = {}
    /\ backup' = Empty /\ dirs' = dirs \cup {"backup"} /\ pc' = "backup"
    /\ base' = live /\ beside' = {} /\ gaps' = {}
    /\ UNCHANGED <<live, staging, incoming, outcome, faults>>

\* Mutants of StartCommit: with the directories of the listing too (one more
\* entry), without the listing.
StartCommitAllEntries ==
    BeginCommit /\ "staging" \in dirs /\ todo' = Entries(live) \cup {VaultFile + 1}
StartCommitNoBackup == BeginCommit /\ "staging" \in dirs /\ todo' = {}

\* transfer_end: CommitStaging finds the staging directory and lists the live
\* files that its first loop moves into the backup.
StartCommit == BeginCommit /\ "staging" \in dirs /\ todo' = Entries(live)

\* CommitStaging returns before it touched a live file: no staging directory,
\* or ReadDir or MkdirAll failed.  The staged files stay.
StartCommitFails ==
    /\ pc = "recv" /\ todo = {}
    /\ \/ "staging" \notin dirs /\ UNCHANGED <<backup, dirs, faults>>
       \/ /\ "staging" \in dirs /\ Fault
          /\ backup' = Empty /\ dirs' = dirs \ {"backup"}
    /\ pc' = "idle" /\ outcome' = "backup_failed"
    /\ UNCHANGED <<live, staging, todo, incoming, base, beside, gaps>>

\* The first loop: rename a live file into the backup.
BackupFile(f) ==
    /\ pc = "backup"
    /\ IsFirst(f, todo)
    /\ ~CannotRename(f, live, "backup")
    /\ live' = [live EXCEPT ![f] = Absent]
    /\ backup' = [backup EXCEPT ![f] = live[f]]
    /\ todo' = todo \ {f}
    /\ UNCHANGED <<staging, dirs, pc, incoming, outcome, faults, base, beside, gaps>>

\* The error returns of CommitStaging call rollbackFromBackup.
StartRollback(why) ==
    /\ pc' = "list" /\ todo' = {} /\ outcome' = why
    /\ UNCHANGED <<live, staging, backup, dirs, incoming, base, beside, gaps>>

BackupFails ==
    /\ pc = "backup"
    /\ \E f \in todo : IsFirst(f, todo) /\ RenameFails(f, live, "backup")
    /\ StartRollback("backup_failed")

\* The live directory is empty: list the staged files.
BackupDone ==
    /\ pc = "backup" /\ todo = {}
    /\ "staging" \in dirs
    /\ pc' = "commit" /\ todo' = Entries(staging)
    /\ UNCHANGED <<live, staging, backup, dirs, incoming, outcome, faults, base, beside, gaps>>

\* ReadDir of the staging directory fails.
ListStagingFails ==
    /\ pc = "backup" /\ todo = {}
    /\ \/ "staging" \notin dirs /\ UNCHANGED faults
       \/ "staging" \in dirs /\ Fault
    /\ StartRollback("commit_failed")

\* The second loop: rename a staged file into the live directory.  The rename
\* of vault.age, the last one, is the one after which a restart keeps the new
\* vault: from there on the user is entitled to what the peer sent.
CommitFile(f) ==
    /\ pc = "commit"
    /\ IsFirst(f, todo)
    /\ ~CannotRename(f, staging, "live")
    /\ live' = [live EXCEPT ![f] = staging[f]]
    /\ staging' = [staging EXCEPT ![f] = Absent]
    /\ todo' = todo \ {f}
    /\ base' = IF f = VaultFile THEN incoming ELSE base
    /\ beside' = beside \ {f}
    /\ UNCHANGED <<backup, dirs, pc, incoming, outcome, faults, gaps>>

CommitFails ==
    /\ pc = "commit"
    /\ \E f \in todo : IsFirst(f, todo) /\ RenameFails(f, staging, "live")
    /\ StartRollback("commit_failed")

CommitDone ==
    /\ pc = "commit" /\ todo = {}
    /\ pc' = "sweep"
    /\ UNCHANGED <<live, staging, backup, dirs, todo, incoming, outcome, faults,
                   base, beside, gaps>>

\* RemoveAll of the staging directory, then of the backup, then success.
Sweep ==
    /\ pc = "sweep"
    /\ staging' = Empty /\ dirs' = dirs \ {"staging"} /\ pc' = "finish"
    /\ UNCHANGED <<live, backup, todo, incoming, outcome, faults, base, beside, gaps>>

\* Mutant of Finish: leaves the backup.
FinishKeepsBackup ==
    /\ pc = "finish"
    /\ pc' = "idle" /\ outcome' = "ok"
    /\ UNCHANGED <<live, staging, backup, dirs, todo, incoming, faults, base, beside, gaps>>

Finish ==
    /\ pc = "finish"
    /\ backup' = Empty /\ dirs' = dirs \ {"backup"}
    /\ pc' = "idle" /\ outcome' = "ok"
    /\ UNCHANGED <<live, staging, todo, incoming, faults, base, beside, gaps>>

--------------------------------------------------------------------------------
\* rollbackFromBackup lists the backup, or does nothing at all when it cannot ...
RollbackList ==
    /\ pc = "list"
    /\ "backup" \in dirs
    /\ pc' = "rollback" /\ todo' = Entries(backup)
    /\ UNCHANGED <<live, staging, backup, dirs, incoming, outcome, faults, base, beside, gaps>>

RollbackListFails ==
    /\ pc = "list"
    /\ \/ "backup" \notin dirs /\ UNCHANGED faults
       \/ "backup" \in dirs /\ Fault
    /\ pc' = "idle"
    /\ gaps' = gaps \cup {"rollback_fault"}
    /\ UNCHANGED <<live, staging, backup, dirs, todo, incoming, outcome, base, beside>>

\* ... renames every entry over the live one ...
RollbackFile(f) ==
    /\ pc = "rollback"
    /\ IsFirst(f, todo)
    /\ ~CannotRename(f, backup, "live")
    /\ live' = [live EXCEPT ![f] = backup[f]]
    /\ backup' = [backup EXCEPT ![f] = Absent]
    /\ todo' = todo \ {f} /\ beside' = beside \ {f}
    /\ UNCHANGED <<staging, dirs, pc, incoming, outcome, faults, base, gaps>>

\* ... ignores an error ...
RollbackFileFails ==
    /\ pc = "rollback"
    /\ \E f \in todo : /\ IsFirst(f, todo)
                       /\ RenameFails(f, backup, "live")
                       /\ todo' = todo \ {f}
    /\ gaps' = gaps \cup {"rollback_fault"}
    /\ UNCHANGED <<live, staging, backup, dirs, pc, incoming, outcome, base, beside>>

\* Mutant of RollbackDone: does not wait for the end of the loop.
RollbackDoneEarly ==
    /\ pc = "rollback"
    /\ backup' = Empty /\ dirs' = dirs \ {"backup"} /\ pc' = "idle" /\ todo' = {}
    /\ UNCHANGED <<live, staging, incoming, outcome, faults, base, beside, gaps>>

\* ... and removes the backup with what is left in it.
RollbackDone ==
    /\ pc = "rollback" /\ todo = {}
    /\ backup' = Empty /\ dirs' = dirs \ {"backup"} /\ pc' = "idle"
    /\ UNCHANGED <<live, staging, todo, incoming, outcome, faults, base, beside, gaps>>

--------------------------------------------------------------------------------
\* What a crash leaves of a directory: part of it when the crash falls into
\* the RemoveAll of that directory.
Remains(d, removing, left) ==
    IF removing THEN [f \in Files |-> IF f \in left THEN d[f] ELSE Absent] ELSE d

\* The window the recovery misreads: vault.age is live, but it is not the one of
\* a finished commit, and part of the old vault is in the backup.
HalfBackedUp ==
    /\ pc \in {"backup", "list", "rollback"} \/ (pc = "commit" /\ todo # {})
    /\ live[VaultFile] # Absent /\ backup # Empty

\* The process dies.
Crash(left) ==
    /\ pc # "down"
    /\ staging' = Remains(staging, pc \in {"sweep", "cleanup"}, left)
    /\ backup' = Remains(backup, \/ pc \in {"finish", "discard"}
                                 \/ pc = "rollback" /\ todo = {}, left)
    /\ pc' = "down" /\ todo' = {} /\ incoming' = Empty /\ outcome' = "crashed"
    /\ gaps' = gaps \cup (IF HalfBackedUp THEN {"backup_cut"} ELSE {})
    /\ UNCHANGED <<live, dirs, faults, base, beside>>

\* The next start runs CleanupOrphanedSync on every vault directory, before the
\* window may read or write it; commands may have done so already.
Restart ==
    /\ pc = "down"
    /\ pc' = "cleanup"
    /\ UNCHANGED <<live, staging, backup, dirs, todo, incoming, outcome, faults,
                   base, beside, gaps>>

CleanupStaging ==
    /\ pc = "cleanup"
    /\ staging' = Empty /\ dirs' = dirs \ {"staging"} /\ pc' = "inspect"
    /\ UNCHANGED <<live, backup, todo, incoming, outcome, faults, base, beside, gaps>>

\* Mutant of CleanupInspect: any backup is discarded.
CleanupInspectDiscards ==
    /\ pc = "inspect"
    /\ pc' = IF "backup" \in dirs THEN "discard" ELSE "idle"
    /\ UNCHANGED <<live, staging, backup, dirs, todo, incoming, outcome, faults, base, beside, gaps>>

\* A backup next to a live vault.age is taken for a finished commit; without
\* vault.age it is rolled back.
CleanupInspect ==
    /\ pc = "inspect"
    /\ \/ /\ "backup" \notin dirs
          /\ pc' = "idle"
       \/ /\ "backup" \in dirs /\ live[VaultFile] # Absent
          /\ pc' = "discard"
       \/ /\ Unfinished
          /\ pc' = "list"
    /\ UNCHANGED <<live, staging, backup, dirs, todo, incoming, outcome, faults, base, beside, gaps>>

\* Mutant of CleanupDiscard: looks again until the backup is gone.
CleanupDiscardLoops ==
    /\ pc = "discard"
    /\ pc' = "inspect"
    /\ UNCHANGED <<live, staging, backup, dirs, todo, incoming, outcome, faults, base, beside, gaps>>

CleanupDiscard ==
    /\ pc = "discard"
    /\ backup' = Empty /\ dirs' = dirs \ {"backup"} /\ pc' = "idle"
    /\ UNCHANGED <<live, staging, todo, incoming, outcome, faults, base, beside, gaps>>

--------------------------------------------------------------------------------
Receive ==
    \/ RecvBegin \/ RecvBeginFails \/ RecvFails \/ \E f \in Files : RecvFile(f)
    \/ StartCommit \/ StartCommitFails
Commit ==
    \/ BackupFails \/ BackupDone \/ ListStagingFails
    \/ CommitFails \/ CommitDone \/ Sweep \/ Finish
    \/ \E f \in Files : BackupFile(f) \/ CommitFile(f)
Rollback ==
    \/ RollbackList \/ RollbackListFails \/ RollbackFileFails \/ RollbackDone
    \/ \E f \in Files : RollbackFile(f)
Cleanup == Restart \/ CleanupStaging \/ CleanupInspect \/ CleanupDiscard

\* The steps of the process once a receive or a start of the program is under way.
Process == Receive \/ Commit \/ Rollback \/ Cleanup

Next ==
    \/ \E f \in Files, c \in Contents \cup {Absent} : LocalWrite(f, c)
    \/ DeleteVault
    \/ \E v \in Vaults : BeginReceive(v)
    \/ PrepareFails
    \/ Process
    \/ \E left \in SUBSET Files : Crash(left)

Spec == Init /\ [][Next]_vars

--------------------------------------------------------------------------------
(* Properties *)

\* d holds every file of v, with v's content; it may hold others too.  Nothing
\* is said of a file that another program wrote beside the moves.
Holds(d, v) == \A f \in Files \ beside : v[f] # Absent => d[f] = v[f]

\* Whenever no move is under way or owed any more, whatever failed or crashed on
\* the way and whatever commands wrote meanwhile, every file that they left
\* alone is of the old vault or of the complete new one: never a mixture and
\* never a part.  (rollbackFromBackup may leave files of the new vault beside the old
\* ones; no vault.age refers to them.)  The windows in gaps are the only
\* exceptions: two of this process, a vault.age written between a crash and the
\* recovery, and the start of another window, which SecondLaunch adds.
SettledVaultIsWhole == Settled /\ gaps = {} => Holds(live, base)

\* At every single step of CommitStaging, rollbackFromBackup and
\* CleanupOrphanedSync, and with commands writing between any two, each file
\* of the vault that they left alone is live or in the backup.
NothingIsLost ==
    gaps = {} => \A f \in Files \ beside :
                    base[f] # Absent => base[f] \in {live[f], backup[f]}

\* When CommitStaging starts to remove the backup the live directory is what the
\* peer sent, nothing missing and no file of the old vault left, but for files
\* that were written after the commit had passed them, and unless another window
\* was started among the moves.
CommitIsExact ==
    pc \in {"sweep", "finish"} /\ "second_start" \notin gaps
        => \A f \in Files \ beside : live[f] = incoming[f]

\* No backup survives into ordinary use, so that the RemoveAll at the head of
\* the next CommitStaging never deletes the only copy of a file.
NoBackupLeftBehind == Settled /\ gaps = {} => "backup" \notin dirs

\* A receive, or a recovery, that began comes to its end unless the process dies.
ReceiveReturns == pc \in {"begin", "cleanup"} ~> pc \in {"idle", "down"}

\* What docs/synchronisation.md says of the recovery: a backup beside a live
\* vault.age is removed because the commit already succeeded, that is, only
\* when the live directory holds the vault without it.
DiscardsOnlySpareBackup == pc = "discard" => Holds(live, base)
================================================================================
