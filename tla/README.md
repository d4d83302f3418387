# A verification project for usm

usm is a secret manager: encrypted vaults in directories of age files, a desktop
window, a command line, an agent, a browser extension, and peer to peer
synchronisation of vaults over libp2p. This directory holds TLA+ modules of its
parts, TLC runs that check them on small instances, and TLAPS proofs for every
instance. Paths are relative to `src/internal` unless they begin with `main.go`,
`docs` or `README`; `PROJECT.json` maps each definition to the lines it models.

## 1. Inventory

| Component | State | Operations | What is hard | Module |
|---|---|---|---|---|
| Vault transfer (`sync/transfer.go`, `receiveVault`) | a vault directory, `.sync-staging`, `.sync-backup` | PrepareStaging, CommitStaging, rollbackFromBackup, CleanupOrphanedSync | crashes, failing calls and other programs' writes between renames; recovery that infers the past from `vault.age` | `VaultTransfer` |
| Start of the program (`main.go`, `ui/health.go`) | health lock, vault directories | cleanup of all vaults, single instance check | a second start beside a running instance | `SecondLaunch` |
| Negotiation (`sync/negotiation.go`) | none | Negotiate, VerifyPlanConsistency | both sides must reach one plan from opposite ends | `Negotiation` |
| Sync session (`sync/service.go`) | stream, plan, position of two goroutines, window lock | SyncWithPeer, handleSyncStream, sendVault, receiveVault | message order, broken streams, one side giving up, waiting | `SyncSession` |
| Vault catalogue (`usm/vault_catalogue.go`, `config/catalogue.go`) | usm.json entries, the catalogue chain | update, persist, merge, migrate | two copies of the truth, updated by different programs | `CatalogueSync` |
| Pairing and trust (`sync/pairing.go`, `truststore.go`, `discovery.go`) | trust store and its file, peer list, pending requests | PairWithPeer, handlePairStream, HandlePeerFound, SetTrusted, Sweep | lost last message, late answers, failing reads and writes, callbacks | `Pairing` |
| Service lifecycle (`sync/service.go`, `ui/preferences.go`) | host, mDNS, running, background goroutine, mutex | Start, Stop, restartMDNS, applySyncMode | Stop against restart, failed Start, overlapping sessions | `SyncService` |
| Vault storage (`usm/storage_os.go`, `usm/storage.go`) | vault.age, key.age, items, usm.json, `.vN` backups | create, store, delete, ChangeVaultPassword | crash between steps, window and command line as two writers | `VaultStore` |
| Agent, browser, command line (`agent`, `browser`, `cli`) | sessions with expiry, SSH keys, socket | unlock, lock, key, start | expiry and locks racing requests, stale sockets | `Agent` |
| Main window (`ui`) | vault pointers, cache, views, open dialogs | unlock, switch, edit, delete, destroy, import, export, audit, reload | callbacks that captured an older state | `Desktop` |
| Configuration (`config`) | usm.json, chain of versions, watcher | load, store, migrate, export, rollback, watch | crash in the migration, slow consumers | `VersionedConfig` |
| Item forms (`ui/item_*.go`, `password_generator.go`, `otp`, `cli/cmd_pwgen.go`) | one item in a form, generator, ticker | edit, generate, import a key, show a code | widgets that write through, a clock that moves on | `ItemEditor` |
| Encryption, favicon and breach lookup, icons, widgets | little or none | | sequential | none |

Interaction: the window, the command line and the sync service all write vault
directories and `usm.json`. Only the window registers the catalogue chain as an
observer. A sync session reads the catalogue once, negotiates, moves directories
through `transfer.go`, and writes the catalogue after each receive; while a peer
syncs in, a callback locks the window. Browser messages and commands are processes
of their own that talk to the agent over a socket. `PROJECT.json` lists the
hazards by line.

What makes each correct, in a line: a transfer leaves the old or the new vault and
never a part; both sides of a session agree on what moves, in which order, and both
come to an end; a catalogue never says "in sync" of different vaults; trust comes
from a code a user typed and goes only when a user takes it; a stopped service is
gone; a password change keeps the vault; a locked vault gives no key; the window
shows, saves and destroys the vault the user means; the last preference survives;
a password is what its recorded options say.

## 2. Modules

| Module | Models | Used by |
|---|---|---|
| `VaultTransfer` | one vault directory and its receiver, one step per file system call | `SecondLaunch`, `VaultProofs` |
| `SecondLaunch` | the composition of `VaultTransfer` with a second start of the program | itself |
| `Negotiation` | the decision functions, as operators | `SyncSession` (EXTENDS), `CatalogueSync` (INSTANCE), `SyncSessionProofs` |
| `SyncSession` | one session, message by message | `MCSyncSession`, `SyncSessionProofs` |
| `CatalogueSync` | the entries of one vault on two peers over many sessions | `MCCatalogueSync`, `CatalogueSyncProofs` |
| `Pairing` | two devices, several pairings, trust stores, peer lists | itself, `PairingProofs` |
| `SyncService` | the services of one program and the sessions on them | itself, `SyncServiceProofs` |
| `VaultStore` | the files of one vault, two writing processes | itself, `VaultProofs` |
| `Agent` | agents, sessions, SSH keys, clients | itself, `AgentProofs` |
| `Desktop` | the window's pointers, views, dialogs and jobs | itself, `DesktopProofs` |
| `VersionedConfig` | preferences on disk in both forms | itself, `PreferencesProofs` |
| `ItemEditor` | one item in forms, generator and prompts | `MCItemEditor`, `PreferencesProofs` |

The `MC*` modules only add constants for TLC; the `*Proofs` modules hold the theorems
of section 4. `PreferencesProofs` extends two components, the preferences on disk and
the views they limit, and `VaultProofs` the two about a vault's files; for their sake
the specifications of `ItemEditor` and `VaultStore` are named `ItemSpec` and
`StoreSpec`, their initial states `ItemInit` and `StoreInit`, and so on. Operators whose comment begins
with "Mutant of" are faulty versions of the next definition; they are not part of any
specification and show that each property can fail.

The models overlap where they meet, each at its own grain: `VaultTransfer` justifies
the atomic commit of `SyncSession` and `SyncService`; `VaultStore` the atomic
stores of `Desktop` and `CatalogueSync`; `SyncSession` the whole session as one step
in `CatalogueSync`; `Pairing` the trust check of a session. These are arguments
for a reader, not checked refinements, except `Negotiation`, which is shared.

Many properties are stated outside named history variables. Each of those marks
a situation in which the code really does something else, and the text below says
what; none is set by a step the properties are about otherwise.

**VaultTransfer.** `live`, `staging`, `backup` are functions from file numbers to
contents, `dirs` says which of the two extra directories exist, `pc` and `todo` are the
position in the code and in its `range` loop. Files are numbered as `os.ReadDir` lists
them; `vault.age` is the last: item files are hexadecimal hashes, the key is `key.age`.
The code depends on that order without saying so: the commit loop moves `vault.age`
last, which is why the recovery may take its presence for a finished commit; the backup
loop also moves it last, which is where the recovery is wrong. `Crash` may fall between
any two steps and inside every `RemoveAll`. A crash is the death of the process, not of
the disk.

A user's write (`LocalWrite`) may come at any moment, also among the renames and after a
crash: the command line and the browser's process take no lock and run no cleanup. A
window without callbacks may even remove the vault in a commit (`DeleteVault`). `base`
is the vault the user is entitled to: the local one, with what was written to it, or the
peer's from the rename of its `vault.age` on. A file written where a later rename
replaces it, or where the backup has an older one, is in `beside` until a move has
decided about it; whether such a file survives, nothing says, and the properties speak
of the other files. `gaps` names the windows the code leaves unprotected: `backup_cut`,
a crash while `vault.age` is live and part of the old vault is in the backup (a
finding); `rollback_fault`, an error that `rollbackFromBackup` ignores; `vault_beside`,
a `vault.age` written between a crash and the recovery, which then takes the commit for
finished and discards the backup; and the two of `SecondLaunch`.

**SecondLaunch.** `main` runs the cleanup before the single instance check, so a second
process takes the recovery steps beside the first one, or after it died: then it finds
no instance and takes over. `overlap` records that it met a commit; `second_start` marks
its steps among the renames, or beside what a command wrote among them (a finding),
`late_crash` a launch that looked at the vault before the first instance died and takes
over without a recovery. To keep the run small, no call fails before or during a second
start (`FaultsBeside`) and none meets a file written beside the moves (`WritesBeside`).

**SyncSession.** Each side is a position `pc`, a loop `todo` and an in-order channel. A
vault's files are a set of tags `<<vault, peer>>`, so that a property can tell whose
files a directory holds; they travel as one `transfer_file`. `order` is the order of
`plan.Auto`: the initiator's `Negotiate` chooses any (`Orders`, `Lists`), because Go
maps have none, and it travels with the plan. `had` remembers the vault directories from
before the session. The stream may break at any time and a bounded number of file system
calls fail. `unmatched` records the vaults of which one side gave up the transfer by
itself (no directory, unreadable file, staging that cannot be made): the other side's
messages then have no counterpart, and since `receiveVault` does not compare the name in
`transfer_begin` (service.go:854), the next vault's files are committed under the wrong
name. Vault names are assumed valid (`validateSyncName`). `chained` says which services
have a CatalogueManager. Without one `Record` does not copy `ChainCS`, and
`StoreAppState` merges by time: an entry of the receiver with a later time may stay
beside the received files (`KeepsOwn`), so that the next session sends the vault again.
Only that is excepted from `SecondSyncIsIdle`.

**CatalogueSync.** `vault`, `json` and `chain` are a vault and its two entries on each
peer; a whole session is one step. Each instant of the clock is used once, so that times
also name edits, keys and checksums. Edits keep the number of items. A peer's `service`
is "none", one on usm.json ("json") or one on the chain ("chain"). `Restart` with sync
on makes the chain, copies usm.json into it if it is new, and registers the observer,
unless the manager cannot be made; `ApplySyncMode` starts a service on usm.json at once,
or stops the service, and leaves the observer as it is. So sessions may run on either
catalogue of either peer, before, beside and after the chain. The command line does not
edit a vault the window has open. Two history variables name what the properties leave
out. `missed` are the catalogues that some change did not reach: edits of the command
line, of a program started with sync off, and sessions on the other catalogue; a new
chain takes over what usm.json missed. `kept`: the last session left a receiver its own
entry beside new files, or one did and no entry was copied since.

**Pairing.** Each pairing is a stream with its two ends and one message in flight; two
may run at once in either direction, and a user may type the code of one into the dialog
of the other. A write of the trust store fails before or after it cut the file; a file
that does not parse keeps the service from starting. A file that cannot be read does not
(truststore.go:41): the store is empty, and its next change writes the file without the
entries it had, of this peer and of a third one (`unread`). A service that the
preferences make reads the file too and counts as a restart; that it exists beside the
old one for a moment is not modelled. The mDNS callback is two steps, the look at the
store and the update of the list. What holds of trust is one-sided: the initiator may
trust a peer that never got its last message (service.go:387), against
docs/synchronisation.md:74, so the properties say who may trust, not that both do.

**SyncService.** Services are numbered as they are made: the first by `main`,
the others by the preferences. The mutex of a service is `lock`; `Start` holds it
over its steps. Sessions receive two files into the one staging directory.
`overlapped` is set when two peers have sessions open at a time, which nothing in the
code prevents: they share the staging directory and the vault may become a mixture
(service.go:848, transfer.go:55). `calls` are the services with the window's
callbacks; a service made by `applySyncMode` (ui/preferences.go:273) has none, so
a session on it does not lock the window, against the comment at service.go:609. It
is assumed that main's goroutine has taken the mutex before the window is used.
A restart of mDNS that fails is modelled and leaves a closed mDNS service behind.

**VaultStore.** Every file is opened (truncated) by one step and filled by another;
`job` and `plan` are an operation and the steps it has left, in the order of the
code; `CallFails` is a system call that fails, `Die` a death of either process. The window keeps the vault in memory, a command loads it anew. `acked` are the
items whose storing was reported and which nobody touched since; a password change
takes the window's listing for the vault, so items it does not know leave `acked`
there: they are in the backup, which the second change removes. A backup can be opened
from the list of vaults under the vault's own name, and changing its password then
replaces the live vault. `whole` are the items of the last vault that
an operation with no other beside it left completely there; every other operation
resets it. The number of a backup is bounded by a guard of `ChangePassword`. A cut `usm.json` makes the
version start again at 1, although usm/app_state.go:22 calls it monotonic.

**Agent.** A handler runs under the agent's mutex and is one step; a client is
several, and other clients, an expiry, a hang-up or a kill come between them. Two
agents that found no other and start at the same time steal the socket from each
other (run.go:43); `overlap` sets that aside. `calm` marks a command no other
command met.

**Desktop.** A vault object is a pointer, an index into `objs`, because several
callbacks may hold the same one. `dialogs` are the overlays, each with what its
callback captured. The system tray switches vaults under any of them. `adrift`: a
password change ended under another vault's view, and from then on saves and the
destruction hit the wrong vault (vault_password.go:80, menu.go:90). `upset`:
vaults whose file was changed behind the cached object, by a sync before its
reload, by a rollback of an import (which deletes items of the same name that were
there before, action_import.go:54) or by a write of an old object. `raced`,
`moved`: unlocked appends met, or the vault was switched under a job. After a
password change the open list still holds the old vault object
(ui/vault.go:104-143); it can load no item, and "Yes" to "error loading ... delete?"
stores the old vault under the old key, although ui/vault.go:129 says "ensure vault
is up-to-date". `sealed` and `key` follow that: such a vault cannot be unlocked. Icons
and colours are left out; two confirmations of Destroy are one dialog; an audit
finds every password breached.

**VersionedConfig.** `main.go` wires only the catalogue part of `config`; the adapter is
the program docs/configuration.md describes. The module runs the two programs one after
the other on one directory. `misread`: any error of GetLatest counts as "no
configuration" (manager.go:44), so defaults are shown and the next choice stores them.
`downgraded`: the program without the adapter goes its own way beside a chain; a second
migration then renames its usm.json over the backup, the only place that still has the
old catalogue. Only preferences are stored in the chain: the catalogue and the instance
identity do not come along. A plain program that dies between truncating usm.json and
writing it, or an export that does so before the first version, leaves nothing to load:
`LastChoiceKept` is stated outside that state (`Unreadable`).

**ItemEditor.** The widgets write to the item they were given; only Save copies it.
A password is what somebody typed or a value named by the options it was made
from. Seconds are scaled. `altered`: a generator that was cancelled has already
changed the options in the item (password_generator.go:123). `skewed`: the clock went on without the ticker.
Codes are right for SHA1 only: the ticker computes with `sha1.New` whatever the item's
hash (item_totp.go:120), although the first code uses it (item_totp.go:98). They
are late for intervals that do not divide a minute (item_totp.go:105), until the
next one begins. Cancelling the file dialog of the key import reads from nil
(item_sshkey.go:186), which is `crashed` here.

## 3. Runs

| Run | Instance | Shows |
|---|---|---|
| `VaultTransfer` | 2 files, 2 contents, 1 fault, crashes and writes at any moment, a second start; 0.8 million states | type correctness; the vault is whole, files are kept, commits are exact, no backup stays, a receive returns |
| `SyncSession` | 1 vault with all kinds of entry and all modes, with chains and without, no breaks; and 2 vaults with ghosts, breaks and 1 fault; 1.4 million states | plans agree, rekeyed vaults stay, a second sync is idle; vaults are not mixed, entries stand for files, no mutual wait, every session ends |
| `Catalogue` | both modes, every pair of services; 7 clock readings, 2 restarts or changes of the sync mode; 9.6 million states | no silent divergence, nothing goes back to an ancestor, sessions converge |
| `Pairing` | 2 devices and a third peer, 2 pairings, 2 faults, 4 events; 0.7 million states | trust is earned by a code and follows the user's last decision; the list heals; pairings end |
| `SyncService` | 2 services, 2 sessions, 1 fault, 1 restart of mDNS | one host, nothing left after Stop, the window locked while receiving, one peer's copy; Stop returns |
| `VaultStore` | 2 items, 2 passwords, 3 keys, 4 operations, 1 fault or death | a password change keeps the vault, reported items are readable |
| `Agent` | 2 agents, 2 clients and the window, 2 vaults, 2 SSH keys, 2 sessions, 4 commands, 1 fault | locks hold, sessions survive, keys follow the command |
| `Desktop` | 2 vaults, 3 items, pool of 2, 7 clicks, 1 each of jobs, syncs, rekeys and faults | only unlocked vaults are shown, saves and destruction hit their vault, cache and file agree, jobs are complete |
| `Config` | 3 versions, 3 starts, 1 fault, 2 choices | the last choice is kept; the watcher gets the latest version |
| `ItemEditor` | 3 kinds, 2 classes, 2 keys, 2 hashes, 2 intervals, 8 clicks, 1 sleep | the generator's offer fits its options and limits, what is stored belongs together, the code is current |

Bounds. `VaultTransfer`: an item or the key, and `vault.age`, show every relation the
code can tell apart but one, a file between two others; the proofs cover every number of
files without the second start. `SyncSession`: two vaults suffice for one vault's
messages to meet another's loop. `Catalogue`: seven readings are a creation, a session,
diverging edits or unlocks and a second session, with two switches between them in any
order. `Pairing`: two pairings let a code go to the wrong dialog; four events are two
pairings, or one with two faults (a restart is one). `SyncService`: two services let a
new one meet an old one, two sessions overlap or follow each other. `VaultStore`: four
operations are a creation, a password change, and a save beside a command; three keys
two changes. `Agent`: two sessions of different vaults, and four commands, allow a lock
between two unlocks and their use; in the setting with SSH keys two commands meet
(`MaxKeyCommands`). `Desktop`: seven clicks open a dialog, switch by the tray and come
back to it, after unlocking both vaults. `Config`: three starts are plain, versioned and
a crash or a downgrade. `ItemEditor`: eight clicks reach a stored item, its edit, the
generator with a change of type, and back.

Every module has a `TypeOK` that documents its variables. Section 4 proves it for
every module with proofs (`StoreTypeOK` in `VaultStore`); only that of
`VaultTransfer` is also among the runs' properties.

Violations: each checks what the repository itself says and TLC finds it false.

| Run | Says | Does |
|---|---|---|
| `VaultTransferDiscard` | a backup beside `vault.age` means "commit already succeeded" (docs/synchronisation.md:103) | after a crash in the backup loop the old `vault.age` is still live; the recovery deletes the files already moved |
| `SecondLaunchLoss` | the cleanup recovers "from crashes during sync" (transfer.go:117) | it also runs beside a commit of a running instance and loses files |

Other disagreements met while modelling, which follow from the models and have no run of
their own: unlocking restamps the chain entry, so that "same version, same timestamp"
(docs/synchronisation.md:86) is not skipped but a conflict; edits from the command line
do not reach the chain, against main.go:125; a change of the mode does not reach a
running service (docs/synchronisation.md:142); the trust store is empty not only "if the
file does not exist" (truststore.go:32) but whenever it cannot be read, and
`TrustFollowsTheUser` without `unread` fails at the next start; preferences are not the
immutable versions of README.md:94, and `LastChoiceKept` without `Unreadable` fails in a
few steps; and those named in section 2.

A limit the documentation admits: a higher version wins, whatever the edits. When both
sides edited a shared vault and one did so more often, the other's edits are overwritten
without a conflict. `NeverGoesBack` states what is left: a transfer that loses edits at
least brings new ones. It holds for either catalogue on either peer, with two
exceptions. One is `missed`, without which it fails after a few steps: a higher version
means "toward the newer" (docs/synchronisation.md:85) only where the chain knows of
every edit. The other is `kept`, which the search for an inductive invariant brought to
light. `StoreAppState` merges by time while sync decides by version: a receiver whose
last edit is later than the sender's keeps its own entry beside the new files, and the
next session sends the vault again, against the comment at sync/service.go:712
("subsequent syncs see the vault as up-to-date rather than stale"). Its next edits count
on from that entry's version, stay below the sender's, and the next session replaces
them by the very vault they were made on. The shortest such story has ten readings of
the clock, three more than the run's bound; the proof covers any number.
`SessionConverges` excepts only a session that has just left such an entry,
`NoSilentDivergence` only `missed`.

Parts of hazards without a property. The code does nothing about some of what the models
show, and a property about it would not hold: one side gives up a transfer while
the other goes on (`unmatched`), a command meets an unreadable item in its loop over the
SSH keys (`calm`), unlocked appends and a vault switched under a job (`raced`, `moved`),
the rollback of an import that deletes older items (`upset`), a trust store that was not
read (`unread`), a usm.json cut short (`Unreadable`). `PROJECT.json` says so in a
note at each.

Fairness. `VaultTransfer`: the goroutine that runs a receive, a commit, a rollback
or a recovery goes on; the stream has a five minute deadline and the loops range
over finite listings. `SyncSession`: both goroutines go on, and the deadline passes
at some time (`WF(Break)`); messages need not arrive. `Pairing`: the goroutines of
both ends, the callback, and the stream's deadline. `SyncService`: Start, Stop and
the background loop go on, and a session that receives goes on or fails.
`VersionedConfig`: the watcher's goroutine and the library's polling. Nothing is
assumed of users, crashes or peers' answers anywhere. The other modules state no
liveness.

Deadlock is checked in `VaultTransfer`, `SyncSession`, `Catalogue` and the
violations; `Over` and `Exhausted` are the states in which the system, or the
clock of the model, has nothing left to do. The other systems wait for a user or a
peer and really may stop, when the bound on what these do is used up; that nobody
waits for ever is what their liveness properties say.

## 4. Proofs

Every theorem is about the module's `Spec`, for every value of its constants that
the named assumption allows. None of the properties is inductive; each proof module
defines `IInv` (`ItemInv` for `ItemEditor`, `StoreInv` for `VaultStore`), which TLC also checked on the runs' instances, and shows
`Init => IInv`, `IInv /\ [Next]_vars => IInv'` one action at a time, and that `IInv`
implies the property. The lemmas about single actions come first, the theorems last.

| Module | Theorems | Properties |
|---|---|---|
| `VaultProofs`: VaultTransfer | `TypeCorrect`, `VaultStaysWhole`, `FilesAreKept`, `CommitsAreExact`, `BackupsAreSpent` | `TypeOK`, `SettledVaultIsWhole`, `NothingIsLost`, `CommitIsExact`, `NoBackupLeftBehind` |
| `VaultProofs`: VaultStore | `StoreInductive`, `StoreTypeCorrect`, `VaultKept`, `ReportedReadable` | `StoreTypeOK`, `PasswordChangeKeepsVault`, `ReportedItemReadable` |
| `SyncSessionProofs`: Negotiation | `HonestPlansAgree`, `StrictHoldsBackRekeyedVaults`, `TransfersGoForward` | of the operators |
| `SyncSessionProofs`: SyncSession | `TypeCorrect`, `SameModePlansPass`, `StrictVaultsStay`, `OneConversation`, `NeverBothWait`, `VaultsStayApart`, `EntriesBacked`, `SecondSyncFindsNothing` | `TypeOK`, `HonestPlanAccepted`, `RekeyedVaultStays`, `NoMutualWait`, `VaultsNotMixed`, `CatalogueBackedByFiles`, `SecondSyncIsIdle` |
| `CatalogueSyncProofs` | `TypeCorrect`, `DivergenceIsSeen`, `SessionsKeepEdits`, `SessionsConverge` | `TypeOK`, `NoSilentDivergence`, `NeverGoesBack`, `SessionConverges` |
| `PairingProofs` | `TypeCorrect`, `TrustNeedsTheCode`, `TrustIsRemembered` | `TypeOK`, `TrustIsEarned`, `TrustFollowsTheUser` |
| `SyncServiceProofs` | `TypeCorrect`, `HostsExcludeEachOther`, `StoppedForGood`, `WindowLocked`, `CommitIsOneCopy` | `TypeOK`, `OneHostAtATime`, `StopLeavesNothing`, `LockedWhileReceiving`, `VaultIsOneCopy` |
| `AgentProofs` | `TypeCorrect`, `LockIsFinal`, `SessionsLive`, `KeysAreAsAsked` | `TypeOK`, `LockHolds`, `SessionsSurvive`, `KeysFollowTheCommand` |
| `DesktopProofs` | `TypeCorrect`, `OnlyUnlockedShown`, `SavedWhereOpened`, `CacheIsCurrent`, `DestroysWhatWasAsked`, `JobsAreComplete` | `TypeOK`, `ShowsOnlyUnlocked`, `SaveGoesToItsVault`, `CacheAgrees`, `OnlyAskedDestroyed`, `JobIsComplete` |
| `PreferencesProofs`: VersionedConfig | `TypeCorrect`, `ChoiceSurvives` | `TypeOK`, `LastChoiceKept` |
| `PreferencesProofs`: ItemEditor | `ItemTypeCorrect`, `OfferFits`, `StoredFits`, `CodeStaysCurrent` | `ItemTypeOK`, `DialogValueFits`, `StoredItemFits`, `CodeIsCurrent` |

**VaultTransfer.** Assumed: there is a `vault.age` (`VaultFile \in Nat \ {0}`), `Absent`
is no content, the number of faults is a natural number. In the middle of a commit the
user's vault is in neither directory alone, and a command may write any file at every
step. `IInv` has a conjunct for each phase saying where the files are that nobody wrote
beside it: the loop has moved exactly what is not in `todo` (`BackupInv`, `CommitInv`,
`ReceiveInv`); on the way back every file is live or in the backup and the backup holds
only files of the old vault (`RollbackInv`, `Restorable`); after a crash the two things
the recovery looks at, the backup and `vault.age`, say whether the backup is needed
(`RecoveryInv`, `Readable`); in ordinary use there is no backup and the vault is whole
(`SettledInv`). Nothing is proved about the second start.

**VaultStore.** Assumed: finitely many items, one item and one password at least
(`SetsAssumption`), bounds that are natural numbers, and one key and one operation at
least (`BoundsAssumption`). A password change has up to `2n + 13` steps, any of which may
fail, and the command line writes the same files in between. Its plan is a sequence of
unknown length, since the items are stored in any order. `Plans` says that such
sequences are well formed: a file is filled by the very next step of the process that
opened it, a key is made first of all. `KindInv` says for each kind of operation which
steps it can have left, and that a password change ends in the same ten. On these
rest, for any number of items:

* `KeyInv`: a directory with a key is there, a process about to write a key found none,
  and only one process does.
* `MadeInv` and `RebuildInv`: a vault the window has made or opened has a key once that
  key is written, and while the vault is built anew it is the one in directory 0.
* `TouchInv` and `GainInv`: nobody is about to change the file of a reported item, or of
  one the other process will report, and what will be reported is stored with the key
  of directory 0, beside no password change.
* `AckedInv`: a reported item is in a backup while the vault is built anew, and in
  the new vault by the time the older backup goes.
* `WholeInv` and `BuildInv`: the same of the last complete vault as a whole, whose items
  are spread over files stored one at a time.

The properties are the first parts of `WholeInv` and `AckedInv`. Neither is inductive:
from a state in which the only copy is the directory being built, one failing call
loses it. `VaultKept` says nothing while a command runs beside the window, since
`whole` is empty then; `ReportedReadable` does.

**Negotiation, SyncSession.** Assumed (`StartsAssumption`): finitely many names, integer
versions and times, settings of the right shape, every entry also with the `ChainCS` of
another (as a peer without a chain copies it), `NoVault` is not a set of files. Two
peers in one mode always accept each other's plan, for any two catalogues. A session has
to carry that across the stream: the plan that is executed is not the one computed where
it is executed. `ChanInv` types the messages by their direction, `StartInv` says that a
peer plans with the catalogue it had when the session began, `PlanInv` that the
catalogue and the plan in the stream are those of their sender, `LoopInv` that the loops
range over vaults which both plans move and that a transfer on its way to the initiator
shows the responder's consent. `HonestPlansAgree` and `StrictHoldsBackRekeyedVaults`
then give the first two session theorems.

The other four follow from the conversation itself (`OneConversation`). The receiver
compares no name, so that its files are of the right vault follows only from the
order of the messages. Each direction of the stream is a walk through the places of
a conversation: hello, plan, then for each vault of the list begun and filed, and
over. `Aligned` says that the messages on their way to a peer lead from the place it
has read up to to the place the other has written up to. The walk is an existential
labelling of the messages, so appending and removing one extends and shortens it
without induction. Around it `ListInv` says that the loops are ends of the lists of
the plan, `HoldInv` and `DirInv` what is staged and in the directories at those
places, `TheirsInv`, `CopiedInv` and `SyncedInv` which entries were copied, or kept by the merge (`KeepsOwn`). Two peers
that wait for each other would be at one place, each with the other to speak. Once
one side gave up a transfer and went on (`unmatched`), the walk is lost, and the
properties say nothing either. TLC has checked the conjuncts of `JInv` on the states
of the run `SyncSession` before they were proved.

**CatalogueSync.** Assumed (`CatalogueSyncAssumption`): two peers, neither called
"none", modes that are truth values, bounds that are natural numbers; `NoVault` and
`NoEntry` are no vault and no entry. Negotiation sees entries only, so `IInv` says what
an entry tells of the vault beside it. `ListedInv` is about one peer: what it has is in
the catalogues that were told of it, what it has unlocked is current in them. `PairsInv`
compares any two catalogues that missed nothing, of one peer or of two: equal times and
equal checksums are of equal vaults, an entry that a merge kept has a time of no vault,
and a vault has a lower version than one with more edits (`Pair`). The version it
compares is the one the next unlocking would give (`Reach`). Between two peers it is
stated outside `kept`. Every operation is one of three steps on the entries (`Written`,
`Touched`, `Sent`), and the two conjuncts are kept by each; a restart copies one
catalogue over the other.

**Pairing.** Assumed (`PairingAssumption`): two devices. `CodeInv` follows one code from
the dialog to the verdict (a verdict "accepted" is a proof made from the code of the
same pairing), `EarnedInv` carries it to the trust store and its file. `ServedInv`:
sessions and pairings go on only at a program with a service, so that what they store
was added to a loaded store. `StoreInv` relates store and file: a removal is in the file
as well, stored trust is in memory and in the file, unless a start could not read it or
the file is cut.

**SyncService.** Assumed (`ServiceAssumption`): at least one service, finitely many
sessions. `LockInv` says who holds a mutex, `MainInv` and `WindowInv` which service
main and the window are working on, `HostInv` that a host is open only in the service
that runs or is being started, `LifeInv` the life of a service from its first start to
its stop; `SessionInv` says whose files are in the staging directory.

**Agent.** Assumed (`AgentAssumption`): `None` is none of the names, `FirstVault` is a
vault. `LockInv`: a session that a lock has promised to close is held, if at all, by an
agent the socket has left for good. `SurviveInv`: the sessions that live are in an
agent that serves and, unless two starts met, in the one the socket leads to.
`KeyInv` follows a command nothing disturbs through its loop over the SSH keys:
which have been passed, which are due, and what the agent holds meanwhile.

**Desktop.** Assumed (`DesktopAssumption`): `None` is none of the names, the pool has a
worker. The callbacks read `a.vault` when they run. `OpenInv` says that the cache and
the current object go together, `KeyInv` that no object has a key its vault never had,
`ShowInv` from which object each view was made, `DialogInv` what each open
dialog was opened for, `JobInv` where every item of a job is. A password change that
ends under another view is the one step that parts them; hence `adrift`.

**VersionedConfig.** Assumed (`BoundsAssumption`): the bounds are natural numbers, one
version at least. What the next start loads is the chain's last version, or usm.json
where there is no chain, so that the last choice is in different files at different
steps. `Kept` says where, for every step of a migration, a store and an export: a chain
exists when usm.json is about to move away, the state being imported is the one usm.json
holds, the state being stored is the chain's last one unless the user chose, and a
loaded program shows what the next start would find. `StepInv` says which program takes
which step. `Kept` is stated under the premise of the property, that no read of the
chain failed and that the plain program did not go its own way; neither is ever taken
back, which carries it through the steps that end the premise. That the next start finds
the last choice is stated outside `Unreadable`, as in the property.

**ItemEditor.** Assumed (`ItemEditorAssumption`): the limits of every mode are positive
and in order, as `usm/rule.go` and the preferences set them; the day of the model is
whole minutes and whole intervals. A password is in three places, and one fact holds of each:
it goes with the options beside it (`Fits`), in the storage, in the form while no
generator is open, and, as the generator's entry, in the generator (`DialogInv`), where
the form's own value may lag behind. `FitInv` adds that the keys of the storage and of
the form are pairs. `BarInv` is about time: the bar is the interval less the clock's
remainder by it. The code counts from 1970 and the bar from the last full minute;
that they agree is the lemma `MinuteMod`, for every interval that divides a minute,
and that no time step ends before the bar does is `NextSecond`.

Only model-checked:

* Liveness (`ReceiveReturns`, `SessionEnds`, `ListHeals`, `PairingEnds`,
  `StopReturns`, `WatchSeesLatest`): fairness and ENABLED are out of the prover's
  reach.
* `SecondLaunch`: its steps are checked with the others in the run `VaultTransfer`, its
  loss in `SecondLaunchLoss`.

## 5. Not modelled

* Cryptography: a file is a value that its own key opens; pairing codes and HMACs
  are names; generated passwords and one-time codes are named by what they are
  made from. Ten-digit codes overflow 32 bits (otp/otp.go:83); nothing here says so.
* Layout, themes, assets, widgets, formatting, logs, favicon and breach lookups:
  no state that a property could be about. The favicon of an earlier address
  may arrive after that of a later one (ui/item_login.go:253).
* `sync/identity.go`: one read, or one write of a new key; a read error of any
  kind makes a new key.
* `FyneStorage`: repeats `OSStorage`; only its usm.json is in `VersionedConfig`.
* The first start of two programs at the same time (ui/health.go:59), and the
  agent's keyring beyond a set of keys.
* `Manager.Import` and `Export`, and the adapter methods that only forward; a sync
  goroutine that stores usm.json beside the preferences view (usm/storage.go:238).
* The password change in `Agent` (a session keeps the old key, cli.go:306) and in
  `CatalogueSync` beyond the rekeyed entries of `SyncSession`.
