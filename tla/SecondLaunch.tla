------------------------------ MODULE SecondLaunch ------------------------------
(***************************************************************************)
(* VaultTransfer, and the program started a second time beside it.  main   *)
(* runs CleanupOrphanedSync over all vaults before HealthServiceCheck      *)
(* finds the other instance and exits, so that a second recovery runs      *)
(* beside whatever the first instance does: reading a stream, committing,  *)
(* rolling back, or recovering from a crash itself.  When the first        *)
(* instance is down by then, the second one goes on as the program.        *)
(***************************************************************************)
EXTENDS VaultTransfer

CONSTANTS
    FaultsBeside,   \* bound: do calls fail before and during a second start?
    WritesBeside    \* bound: does it meet files written beside the moves?
ASSUME BesideAssumption == {FaultsBeside, WritesBeside} \subseteq BOOLEAN

VARIABLES
    pc2,      \* where the second process is
    todo2,    \* the entries its rollback has still to visit
    overlap   \* history: the first process was moving files since it started,
              \* or a command wrote among such moves

vars2 == <<vars, pc2, todo2, overlap>>

TypeOK2 ==
    /\ pc2 \in {"off", "cleanup", "inspect", "discard", "list", "rollback", "check"}
    /\ todo2 \in SUBSET Files /\ (todo2 # {} => pc2 = "rollback")
    /\ overlap \in BOOLEAN

Init2 == Init /\ pc2 = "off" /\ todo2 = {} /\ overlap = FALSE

UnchangedFirst == UNCHANGED <<pc, todo, incoming, outcome, faults, base, beside>>

\* A step of the second process among the renames of the first one, or after
\* some that it does not know of.
Beside == /\ gaps' = IF overlap THEN gaps \cup {"second_start"} ELSE gaps
          /\ UNCHANGED overlap

--------------------------------------------------------------------------------
\* The user starts the program, again or after a crash.
Launch ==
    /\ pc2 = "off" /\ (faults = 0 \/ FaultsBeside) /\ (beside = {} \/ WritesBeside)
    /\ pc2' = "cleanup" /\ overlap' = (Moving \/ beside # {})
    /\ UNCHANGED <<vars, todo2>>

LaunchStaging ==
    /\ pc2 = "cleanup"
    /\ staging' = Empty /\ dirs' = dirs \ {"staging"} /\ pc2' = "inspect"
    /\ Beside /\ UnchangedFirst /\ UNCHANGED <<live, backup, todo2>>

\* Mutant of LaunchInspect: any backup is discarded.
LaunchInspectDiscards ==
    /\ pc2 = "inspect"
    /\ pc2' = IF "backup" \notin dirs THEN "check" ELSE "discard"
    /\ Beside /\ UnchangedFirst
    /\ UNCHANGED <<live, staging, backup, dirs, todo2>>

LaunchInspect ==
    /\ pc2 = "inspect"
    /\ pc2' = IF "backup" \notin dirs THEN "check"
              ELSE IF live[VaultFile] # Absent THEN "discard" ELSE "list"
    /\ Beside /\ UnchangedFirst
    /\ UNCHANGED <<live, staging, backup, dirs, todo2>>

LaunchDiscard ==
    /\ pc2 = "discard"
    /\ backup' = Empty /\ dirs' = dirs \ {"backup"} /\ pc2' = "check"
    /\ Beside /\ UnchangedFirst /\ UNCHANGED <<live, staging, todo2>>

LaunchList ==
    /\ pc2 = "list"
    /\ IF "backup" \in dirs
         THEN pc2' = "rollback" /\ todo2' = Entries(backup)
         ELSE pc2' = "check" /\ UNCHANGED todo2
    /\ UNCHANGED <<vars, overlap>>

\* A file that the first instance moved meanwhile is skipped.
LaunchRollback(f) ==
    /\ pc2 = "rollback"
    /\ IsFirst(f, todo2)
    /\ todo2' = todo2 \ {f}
    /\ IF CannotRename(f, backup, "live")
         THEN UNCHANGED <<live, backup>>
         ELSE /\ live' = [live EXCEPT ![f] = backup[f]]
              /\ backup' = [backup EXCEPT ![f] = Absent]
    /\ Beside /\ UnchangedFirst /\ UNCHANGED <<staging, dirs, pc2>>

\* Mutant of LaunchRollbackDone: does not wait for the end of the loop.
LaunchRollbackDoneEarly ==
    /\ pc2 = "rollback" /\ todo2' = {}
    /\ backup' = Empty /\ dirs' = dirs \ {"backup"} /\ pc2' = "check"
    /\ Beside /\ UnchangedFirst /\ UNCHANGED <<live, staging>>

LaunchRollbackDone ==
    /\ pc2 = "rollback" /\ todo2 = {}
    /\ backup' = Empty /\ dirs' = dirs \ {"backup"} /\ pc2' = "check"
    /\ Beside /\ UnchangedFirst /\ UNCHANGED <<live, staging, todo2>>

\* HealthServiceCheck: the first instance answers and the second one exits.
LaunchExit ==
    /\ pc2 = "check" /\ pc # "down"
    /\ pc2' = "off" /\ overlap' = FALSE
    /\ UNCHANGED <<vars, todo2>>

\* Nobody answers: this is the program now, and it serves the health check.  It
\* does not look again for what a crash since its recovery may have left.
LaunchTakesOver ==
    /\ pc2 = "check" /\ pc = "down"
    /\ pc2' = "off" /\ overlap' = FALSE /\ pc' = "idle"
    /\ gaps' = IF overlap THEN gaps \cup {"late_crash"} ELSE gaps
    /\ UNCHANGED <<live, staging, backup, dirs, todo, incoming, outcome, faults,
                   base, beside, todo2>>

Second ==
    \/ Launch \/ LaunchStaging \/ LaunchInspect \/ LaunchDiscard
    \/ LaunchList \/ LaunchRollbackDone \/ LaunchExit \/ LaunchTakesOver
    \/ \E f \in Files : LaunchRollback(f)

First(A) == /\ A /\ UNCHANGED <<pc2, todo2>>
            /\ pc2 = "off" \/ faults' = faults \/ FaultsBeside
            /\ pc2 = "off" \/ beside' \subseteq beside \/ WritesBeside
            /\ overlap' = (overlap \/ (pc2 # "off" /\ (Moving \/ beside # {})'))
Next2 == First(Next) \/ Second

\* The running goroutine keeps running: the stream has a five minute deadline,
\* so that a receive goes on or fails, and the loops are over finite listings.
\* Nothing makes a peer send or a user restart the program after a crash.
Spec2 == /\ Init2 /\ [][Next2]_vars2
         /\ WF_vars2(First(Receive)) /\ WF_vars2(First(Commit))
         /\ WF_vars2(First(Rollback))
         /\ WF_vars2(First(CleanupStaging \/ CleanupInspect \/ CleanupDiscard))

\* No process crashes and the first one only receives.
Calm == Receive \/ Commit \/ Rollback \/ \E v \in Vaults : BeginReceive(v)
CalmSpec == Init2 /\ [][First(Calm) \/ Second]_vars2

--------------------------------------------------------------------------------
(* Properties *)

\* What transfer.go says CleanupOrphanedSync is for, to recover from crashes
\* during sync: with no crash it costs no file.
LaunchLosesNothing == Settled /\ pc2 = "off" => Holds(live, base)
================================================================================
