------------------------------ MODULE Desktop -------------------------------
(***************************************************************************)
(* The window: a.vault, the cache a.unlockedVault, what the window shows   *)
(* and the dialogs on top of it.  Callbacks run one at a time in the user  *)
(* interface's thread, but they were made earlier: some captured a vault   *)
(* object, others read a.vault when they run.  In between the system tray  *)
(* switches vaults under an open dialog, a sync changes the files, and the *)
(* goroutines of the import and of the password change read and set        *)
(* a.vault beside the thread.                                              *)
(*                                                                         *)
(* A vault object is a pointer: an index into objs, so that two holders of *)
(* the same object see each other's changes.  How a store reaches the disk *)
(* file by file, and its faults, is module VaultStore.                     *)
(***************************************************************************)
EXTENDS Naturals, Sequences, FiniteSets, SequencesExt

CONSTANTS
    Vaults, FirstVault,
    Items,        \* item names; the same name may be used in every vault
    FirstItems,   \* items of every vault at the beginning
    PeerItem,     \* the item a sync brings
    ImportItems,  \* the items of the file that is imported
    None,
    Pool,         \* maxWorkers
    MaxClicks,    \* what the user does in a behaviour
    MaxJobs,      \* imports, exports and audits
    MaxSyncs, MaxRekeys,
    MaxFaults     \* items a job cannot handle
ASSUME DesktopAssumption ==
    /\ FirstVault \in Vaults /\ None \notin Vaults \cup Items
    /\ FirstItems \cup ImportItems \cup {PeerItem} \subseteq Items
    /\ Pool \in Nat \ {0}

VARIABLES
    disk,    \* each vault's directory
    objs,    \* every vault object made, in order
    open,    \* a.unlockedVault: the object of each vault, or 0
    cur,     \* a.vault: an object, or 0 for nil
    screen,  \* the window's content
    main,    \* a.main: what the header's back button shows
    dialogs, \* overlays, the last one on top
    job,     \* an import, export, audit or password change under way
    sync,    \* the sync session: idle, receiving (or sending), committed
    left,    \* what may still happen: clicks, jobs, syncs, rekeys, faults
    crashed, \* a nil vault was dereferenced
    saved,   \* history: the vault a save was meant for and the one it hit
    asked,   \* history: the vault shown when the user asked to destroy it
    upset,   \* history: vaults changed behind the cached object
    adrift   \* history: a password change ended under another vault's view
window == <<objs, open, cur, screen, main, dialogs>>
history == <<saved, asked, upset, adrift>>
vars == <<disk, window, job, sync, left, crashed, history>>

NoJob == [kind |-> "none"]
Show(k, v, o, x) == [kind |-> k, vault |-> v, obj |-> o, item |-> x]
Select == Show("select", None, 0, None)
UnlockView(v) == Show("unlock", v, 0, None)
VaultView(o, v) == Show("vault", v, o, None)
ShowMain(view) == main' = view /\ screen' = view
Dialog(k, v, o, x) == Append(dialogs, Show(k, v, o, x))

Top(k) == dialogs # <<>> /\ Last(dialogs).kind = k
(* Hide of a dialog that may lie under others; there is at most one such.   *)
Hide(kinds) ==
    LET found == {i \in DOMAIN dialogs : dialogs[i].kind \in kinds} IN
    IF found = {} THEN dialogs ELSE RemoveAt(dialogs, CHOOSE i \in found : TRUE)
Without(k) == Hide({k})
Free == dialogs = <<>>
Uses(what) == left[what] > 0 /\ left' = [left EXCEPT ![what] = @ - 1]
Click == ~crashed /\ Uses("clicks")
ClickFor(what) == /\ ~crashed /\ left.clicks > 0 /\ left[what] > 0
                  /\ left' = [left EXCEPT !.clicks = @ - 1, ![what] = @ - 1]
Crash == /\ crashed' = TRUE
         /\ UNCHANGED <<disk, window, job, sync, history>>

(* A first item of the first vault may be damaged already. *)
Init == /\ \E damaged \in SUBSET FirstItems :
             disk = [v \in Vaults |->
               [there |-> TRUE, key |-> 1, sealed |-> 1, index |-> FirstItems,
                files |-> [x \in Items |->
                   IF x \notin FirstItems \/ (v = FirstVault /\ x \in damaged)
                   THEN 0 ELSE 1],
                age |-> 0]]
        /\ objs = <<>> /\ open = [v \in Vaults |-> 0] /\ cur = 0
        /\ screen = Select /\ main = Select /\ dialogs = <<>>
        /\ job = NoJob /\ sync = "idle"
        /\ left = [clicks |-> MaxClicks, jobs |-> MaxJobs,
                   syncs |-> MaxSyncs, rekeys |-> MaxRekeys,
                   faults |-> MaxFaults]
        /\ crashed = FALSE
        /\ saved = <<None, None>> /\ asked = None /\ upset = {}
        /\ adrift = FALSE

(* StoreVault: the object's items and key become the vault's index. *)
StoreVault(d, o) ==
    LET b == objs'[o] IN
    IF ~d[b.vault].there THEN d
    ELSE [d EXCEPT ![b.vault].index = b.items, ![b.vault].sealed = b.key]
PutFile(d, v, x, key) ==
    IF d[v].there THEN [d EXCEPT ![v].files[x] = key] ELSE d
Older(o) == objs[o].age < disk[objs[o].vault].age
MarkOlder(o) ==
    upset' = IF Older(o) THEN upset \cup {objs[o].vault} ELSE upset

-----------------------------------------------------------------------------
(* Vaults in the window. *)

(* Mutant: the vault changes under an edit view that stays on the screen. *)
SetVaultViewBehindEdit(v) ==
    /\ Click /\ disk[v].there
    /\ cur' = open[v]
    /\ main' = IF open[v] = 0 THEN UnlockView(v) ELSE VaultView(open[v], v)
    /\ screen' = IF screen.kind = "edit" THEN screen ELSE main'
    /\ UNCHANGED <<disk, objs, open, dialogs, job, sync, crashed, history>>
(* setVaultViewByName: from the tray, the menus and the list of vaults.  It *)
(* works under an open dialog, and the dialog stays.                        *)
SetVaultViewByName(v) ==
    /\ Click /\ disk[v].there
    /\ cur' = open[v]
    /\ ShowMain(IF open[v] = 0 THEN UnlockView(v) ELSE VaultView(open[v], v))
    /\ UNCHANGED <<disk, objs, open, dialogs, job, sync, crashed, history>>

(* setVaultView: a vault that was loaded or made is the current one. *)
SetVaultView(b) ==
    /\ objs' = Append(objs, b)
    /\ cur' = Len(objs')
    /\ open' = [open EXCEPT ![b.vault] = Len(objs')]
    /\ ShowMain(VaultView(Len(objs'), b.vault))
    /\ UNCHANGED dialogs

Unlock ==
    /\ Click /\ Free /\ screen.kind = "unlock"
    /\ LET v == screen.vault IN
         /\ disk[v].there /\ disk[v].sealed = disk[v].key
         /\ SetVaultView([vault |-> v, items |-> disk[v].index,
                          key |-> disk[v].key, age |-> disk[v].age])
         /\ upset' = upset \ {v}
    /\ UNCHANGED <<disk, job, sync, crashed, saved, asked, adrift>>

(* The form for a new vault refuses a name that is taken. *)
CreateVault(v) ==
    /\ Click /\ Free /\ ~disk[v].there
    /\ SetVaultView([vault |-> v, items |-> {}, key |-> disk[v].key + 1,
                     age |-> disk[v].age])
    /\ disk' = [disk EXCEPT ![v] =
         [there |-> TRUE, key |-> @.key + 1, sealed |-> @.key + 1, index |-> {},
          files |-> [x \in Items |-> 0], age |-> @.age]]
    /\ upset' = upset \ {v}
    /\ UNCHANGED <<job, sync, crashed, saved, asked, adrift>>

LockVault ==
    /\ Click /\ Free /\ screen.kind = "vault" /\ cur # 0
    /\ ShowMain(UnlockView(objs[cur].vault))
    /\ open' = [open EXCEPT ![objs[cur].vault] = 0]
    /\ cur' = 0
    /\ UNCHANGED <<disk, objs, dialogs, job, sync, crashed, history>>

(* Destroy: the name is read when the user asks, and two dialogs confirm. *)
AskDestroy ==
    /\ Click /\ Free /\ screen.kind = "vault" /\ cur # 0
    /\ dialogs' = Dialog("destroy", objs[cur].vault, 0, None)
    /\ asked' = screen.vault
    /\ UNCHANGED <<disk, objs, open, cur, screen, main, job, sync, crashed, saved,
                   upset, adrift>>
(* Mutant: the vault destroyed is the one that is current by then. *)
DestroyVaultCurrent ==
    /\ Click /\ Top("destroy") /\ cur # 0
    /\ LET v == objs[cur].vault IN
         /\ disk' = [disk EXCEPT ![v].there = FALSE]
         /\ open' = [open EXCEPT ![v] = 0]
    /\ cur' = 0 /\ ShowMain(Select) /\ dialogs' = Front(dialogs)
    /\ UNCHANGED <<objs, job, sync, crashed, history>>
DestroyVault ==
    /\ Click /\ Top("destroy")
    /\ LET v == Last(dialogs).vault IN
         /\ disk' = [disk EXCEPT ![v].there = FALSE]
         /\ open' = [open EXCEPT ![v] = 0]
    /\ cur' = 0 /\ ShowMain(Select) /\ dialogs' = Front(dialogs)
    /\ UNCHANGED <<objs, job, sync, crashed, history>>

(* The No of a confirmation, and Cancel of the dialog of the user's own     *)
(* sync: the session goes on without the dialog.                            *)
Cancel ==
    /\ Click /\ \E k \in {"destroy", "delete", "drop", "syncing",
                              "saveas", "settings"} : Top(k)
    /\ dialogs' = Front(dialogs)
    /\ UNCHANGED <<disk, objs, open, cur, screen, main, job, sync, crashed, history>>

-----------------------------------------------------------------------------
(* Items.  The list holds the object it was made from; the edit view and    *)
(* its dialog read a.vault when they act.                                   *)

SelectItem(x) ==
    LET o == screen.obj
        b == objs[o] IN
    /\ Click /\ Free /\ screen.kind = "vault" /\ x \in b.items
    /\ IF disk[b.vault].files[x] = b.key
       THEN screen' = Show("edit", b.vault, 0, x) /\ UNCHANGED dialogs
       ELSE dialogs' = Dialog("drop", b.vault, o, x) /\ UNCHANGED screen
    /\ UNCHANGED <<disk, objs, open, cur, main, job, sync, crashed, history>>
AddItem ==
    /\ Click /\ Free /\ screen.kind = "vault"
    /\ screen' = Show("edit", screen.vault, 0, None)
    /\ UNCHANGED <<disk, objs, open, cur, main, dialogs, job, sync, crashed,
                   history>>
(* The header's button: back to a.main, whatever was put into it meanwhile. *)
Back ==
    /\ Click /\ Free /\ screen.kind \in {"edit", "audit"}
    /\ screen' = main
    /\ UNCHANGED <<disk, objs, open, cur, main, dialogs, job, sync, crashed,
                   history>>

(* Mutant: the index is stored before the old name is taken out. *)
OnSaveStoresEarly(y) ==
    LET x == screen.item
        v == objs[cur].vault
        gone == IF x # y /\ x # None THEN {x} ELSE {}
        files1 == PutFile(disk, v, y, objs[cur].key) IN
    /\ Click /\ Free /\ screen.kind = "edit" /\ cur # 0
    /\ x # y => y \notin objs[cur].items
    /\ objs' = [objs EXCEPT ![cur].items = (@ \cup {y}) \ gone]
    /\ disk' = [(IF gone = {} THEN files1 ELSE PutFile(files1, v, x, 0))
                  EXCEPT ![v].index = objs[cur].items \cup {y}]
    /\ ShowMain(VaultView(cur, v))
    /\ saved' = <<screen.vault, v>>
    /\ MarkOlder(cur)
    /\ UNCHANGED <<open, cur, dialogs, job, sync, crashed, asked, adrift>>
(* OnSave: a name in use is refused; a renamed item leaves its old name. *)
OnSave(y) ==
    LET x == screen.item
        v == objs[cur].vault
        gone == IF x # y /\ x # None THEN {x} ELSE {}
        files1 == PutFile(disk, v, y, objs[cur].key) IN
    /\ Click /\ Free /\ screen.kind = "edit"
    /\ IF cur = 0 THEN Crash
       ELSE /\ x # y => y \notin objs[cur].items
            /\ objs' = [objs EXCEPT ![cur].items = (@ \cup {y}) \ gone]
            /\ disk' = StoreVault(IF gone = {} THEN files1
                                  ELSE PutFile(files1, v, x, 0), cur)
            /\ ShowMain(VaultView(cur, v))
            /\ saved' = <<screen.vault, v>>
            /\ MarkOlder(cur)
            /\ UNCHANGED <<open, cur, dialogs, job, sync, crashed, asked,
                           adrift>>

AskDelete ==
    /\ Click /\ Free /\ screen.kind = "edit" /\ screen.item # None
    /\ dialogs' = Dialog("delete", screen.vault, 0, screen.item)
    /\ UNCHANGED <<disk, objs, open, cur, screen, main, job, sync, crashed, history>>
(* OnDelete: the item leaves whatever vault is current; a file that is not  *)
(* there is an error, after the object was changed.                         *)
OnDelete ==
    LET x == Last(dialogs).item
        v == objs[cur].vault
        found == disk[v].there /\ disk[v].files[x] # 0 IN
    /\ Click /\ Top("delete")
    /\ IF cur = 0 THEN Crash
       ELSE /\ objs' = [objs EXCEPT ![cur].items = @ \ {x}]
            /\ dialogs' = Front(dialogs)
            /\ IF found
               THEN /\ disk' = StoreVault(PutFile(disk, v, x, 0), cur)
                    /\ ShowMain(VaultView(cur, v))
                    /\ MarkOlder(cur)
               ELSE /\ upset' = IF x \in objs[cur].items THEN upset \cup {v}
                                ELSE upset
                    /\ UNCHANGED <<disk, screen, main>>
            /\ UNCHANGED <<open, cur, job, sync, crashed, saved, asked, adrift>>

(* Yes to "error loading ... delete?": everything on the list's object. *)
DropItem ==
    LET d == Last(dialogs)
        o == d.obj IN
    /\ Click /\ Top("drop")
    /\ objs' = [objs EXCEPT ![o].items = @ \ {d.item}]
    /\ disk' = StoreVault(PutFile(disk, d.vault, d.item, 0), o)
    /\ dialogs' = Front(dialogs)
    /\ upset' = IF open[d.vault] = o /\ ~Older(o) THEN upset
                ELSE upset \cup {d.vault}
    /\ UNCHANGED <<open, cur, screen, main, job, sync, crashed, saved, asked, adrift>>

-----------------------------------------------------------------------------
(* Import, export and audit: workers handle the items one by one, at most   *)
(* Pool at a time, and one goroutine waits for them.  Each worker takes     *)
(* a.vault, whichever that is when it runs.                                 *)

Jobs == {"import", "export", "audit"}
Working == ~crashed /\ job.kind \in Jobs
NewJob(k, v, items) ==
    [kind |-> k, vault |-> v, items |-> items, todo |-> items, busy |-> {},
     at |-> [x \in Items |-> {}], done |-> {}, bad |-> FALSE, raced |-> FALSE,
     moved |-> FALSE]

ImportFromFile ==
    /\ ClickFor("jobs") /\ Free /\ screen.kind = "vault" /\ job = NoJob
    /\ job' = NewJob("import", screen.vault, ImportItems)
    /\ dialogs' = Dialog("import", screen.vault, 0, None)
    /\ UNCHANGED <<disk, objs, open, cur, screen, main, sync, crashed, history>>

(* The file is named after the vault that is current when its dialog opens; *)
(* the items are those of the vault that is current when it closes.         *)
AskExport ==
    /\ Click /\ Free /\ screen.kind = "vault" /\ job = NoJob
    /\ dialogs' = Dialog("saveas", screen.vault, 0, None)
    /\ UNCHANGED <<disk, objs, open, cur, screen, main, job, sync, crashed,
                   history>>
ExportToFile ==
    /\ ClickFor("jobs") /\ Top("saveas") /\ job = NoJob
    /\ IF cur = 0 THEN Crash
       ELSE LET v == Last(dialogs).vault IN
            /\ job' = [NewJob("export", v, objs[cur].items)
                         EXCEPT !.moved = objs[cur].vault # v]
            /\ dialogs' = Append(Front(dialogs), Show("export", v, 0, None))
            /\ UNCHANGED <<disk, objs, open, cur, screen, main, sync, crashed,
                           history>>

(* The audit page and its button; the items are listed at once.  Every item *)
(* counts as breached, so that the result is as long as it can be.          *)
AuditPasswords ==
    /\ ClickFor("jobs") /\ Free /\ screen.kind = "vault" /\ cur # 0
    /\ job = NoJob
    /\ job' = NewJob("audit", screen.vault, objs[cur].items)
    /\ dialogs' = Dialog("audit", screen.vault, 0, None)
    /\ UNCHANGED <<disk, objs, open, cur, screen, main, sync, crashed, history>>

(* Cancel: no new worker; a worker under way goes on. *)
CancelJob ==
    /\ Click /\ Working /\ Top(job.kind) /\ ~job.bad
    /\ job' = [job EXCEPT !.bad = TRUE]
    /\ UNCHANGED <<disk, window, sync, crashed, history>>

Acquire(x) ==
    /\ Working /\ x \in job.todo /\ Cardinality(job.busy) < Pool
    /\ job' = [job EXCEPT !.todo = @ \ {x}, !.busy = @ \cup {<<x, "act">>}]
    /\ UNCHANGED <<disk, window, sync, left, crashed, history>>

(* The item is handled; a slice without a lock is read before it is         *)
(* appended to.                                                             *)
BeforeAppend(x) ==
    job' = [job EXCEPT
              !.busy = (@ \ {<<x, "act">>}) \cup {<<x, "append">>},
              !.at[x] = job.done,
              !.moved = @ \/ objs[cur].vault # job.vault]
WorkerStore(x) ==
    /\ Working /\ job.kind = "import" /\ <<x, "act">> \in job.busy
    /\ IF cur = 0 THEN Crash /\ UNCHANGED left
       ELSE /\ disk' = PutFile(disk, objs[cur].vault, x, objs[cur].key)
            /\ BeforeAppend(x)
            /\ UNCHANGED <<window, sync, left, crashed, history>>
(* Mutant: the export appends without its mutex. *)
WorkerLoadUnlocked(x) ==
    /\ Working /\ job.kind # "import" /\ <<x, "act">> \in job.busy /\ cur # 0
    /\ disk[objs[cur].vault].files[x] = objs[cur].key
    /\ job' = [job EXCEPT !.busy = (@ \ {<<x, "act">>}) \cup {<<x, "append">>},
                          !.at[x] = job.done]
    /\ UNCHANGED <<disk, window, sync, left, crashed, history>>
(* The export has a mutex around its append. *)
WorkerLoad(x) ==
    LET v == objs[cur].vault
        loads == disk[v].there /\ disk[v].files[x] = objs[cur].key IN
    /\ Working /\ job.kind # "import" /\ <<x, "act">> \in job.busy
    /\ IF cur = 0 THEN Crash /\ UNCHANGED left
       ELSE /\ \/ ~loads /\ job' = [job EXCEPT !.busy = @ \ {<<x, "act">>},
                                              !.bad = TRUE]
               \/ loads /\ job.kind = "audit" /\ BeforeAppend(x)
               \/ loads /\ job.kind = "export"
                  /\ job' = [job EXCEPT !.busy = @ \ {<<x, "act">>},
                                        !.done = @ \cup {x},
                                        !.moved = @ \/ v # job.vault]
            /\ UNCHANGED <<disk, window, sync, left, crashed, history>>
(* A worker whose call fails releases the semaphore; the others go on. *)
WorkerFails(x) ==
    /\ Working /\ <<x, "act">> \in job.busy /\ Uses("faults")
    /\ job' = [job EXCEPT !.busy = @ \ {<<x, "act">>}, !.bad = TRUE]
    /\ UNCHANGED <<disk, window, sync, crashed, history>>
(* The append writes what was read and the item: what was appended in       *)
(* between is lost.                                                         *)
WorkerAppend(x) ==
    /\ Working /\ <<x, "append">> \in job.busy
    /\ job' = [job EXCEPT !.busy = @ \ {<<x, "append">>},
                          !.done = job.at[x] \cup {x},
                          !.raced = @ \/ (job.kind # "export"
                                            /\ job.at[x] # job.done)]
    /\ UNCHANGED <<disk, window, sync, left, crashed, history>>

(* g.Wait. *)
JobWaits == job.busy = {} /\ (job.todo = {} \/ job.bad)

(* Rollback deletes the items' files from the current vault, also those     *)
(* that were there before; the stored index is left as it is.               *)
ImportEnds ==
    /\ Working /\ job.kind = "import" /\ JobWaits
    /\ IF cur = 0 /\ (job.done # {} \/ ~job.bad) THEN Crash /\ UNCHANGED left
       ELSE LET v == objs[cur].vault IN
            /\ job' = NoJob
            /\ IF job.bad
               THEN /\ disk' = IF job.done = {} \/ ~disk[v].there THEN disk ELSE
                        [disk EXCEPT ![v].files = [x \in Items |->
                            IF x \in job.done THEN 0 ELSE @[x]]]
                    /\ objs' = IF job.done = {} THEN objs ELSE
                        [objs EXCEPT ![cur].items = @ \ job.done]
                    /\ upset' = IF job.done = {} THEN upset
                                ELSE upset \cup {v}
                    /\ UNCHANGED <<screen, main>>
               ELSE /\ objs' = [objs EXCEPT ![cur].items = @ \cup job.done]
                    /\ disk' = StoreVault(disk, cur)
                    /\ ShowMain(VaultView(cur, v))
                    /\ MarkOlder(cur)
            /\ dialogs' = Without("import")
            /\ UNCHANGED <<open, cur, sync, left, crashed, saved, asked,
                           adrift>>
ExportEnds ==
    /\ Working /\ job.kind = "export" /\ JobWaits
    /\ job' = NoJob /\ dialogs' = Without("export")
    /\ UNCHANGED <<disk, objs, open, cur, screen, main, sync, left, crashed,
                   history>>
(* The goroutine puts its list into the window, whatever is shown there. *)
AuditEnds ==
    /\ Working /\ job.kind = "audit" /\ JobWaits
    /\ job' = NoJob /\ dialogs' = Without("audit")
    /\ IF job.bad THEN UNCHANGED <<screen, adrift>>
       ELSE /\ screen' = [kind |-> "audit", vault |-> job.vault, obj |-> 0,
                          item |-> None, list |-> job.done]
            /\ adrift' = (adrift \/ main.kind # "vault"
                                 \/ main.vault # job.vault)
    /\ UNCHANGED <<disk, objs, open, cur, main, sync, left, crashed, saved,
                   asked, upset>>
(* The button of a line of the list: the item as the audit read it. *)
EditAudited(x) ==
    /\ Click /\ Free /\ screen.kind = "audit" /\ x \in screen.list
    /\ screen' = Show("edit", screen.vault, 0, x)
    /\ UNCHANGED <<disk, objs, open, cur, main, dialogs, job, sync, crashed,
                   history>>

-----------------------------------------------------------------------------
(* Vault settings: Save stores the vault that is current by then. *)
AskSettings ==
    /\ Click /\ Free /\ screen.kind = "vault" /\ cur # 0
    /\ dialogs' = Dialog("settings", screen.vault, 0, None)
    /\ UNCHANGED <<disk, objs, open, cur, screen, main, job, sync, crashed,
                   history>>
SaveSettings ==
    /\ Click /\ Top("settings")
    /\ IF cur = 0 THEN Crash
       ELSE /\ UNCHANGED objs
            /\ disk' = StoreVault(disk, cur)
            /\ dialogs' = Front(dialogs)
            /\ MarkOlder(cur)
            /\ UNCHANGED <<open, cur, screen, main, job, sync, crashed, saved,
                           asked, adrift>>

-----------------------------------------------------------------------------
(* Password change: a goroutine re-encrypts, the thread adopts the result.  *)

ChangePassword ==
    /\ ClickFor("rekeys") /\ Top("settings") /\ cur # 0 /\ job = NoJob
    /\ job' = [kind |-> "rekey", obj |-> cur]
    /\ dialogs' = Dialog("rekey", objs[cur].vault, 0, None)
    /\ UNCHANGED <<disk, objs, open, cur, screen, main, sync, crashed, history>>
(* It needs every item the object lists.  a.vault is then the new object;   *)
(* the list on the screen is not made anew.                                 *)
AdoptVault ==
    LET b == objs[job.obj]
        v == b.vault
        k == disk[v].key + 1
        new == [x \in Items |-> IF x \in b.items THEN k ELSE 0] IN
    /\ ~crashed /\ job.kind = "rekey"
    /\ IF disk[v].there /\ \A x \in b.items : disk[v].files[x] = b.key
       THEN /\ disk' = [disk EXCEPT ![v] = [@ EXCEPT !.key = k, !.sealed = k,
                                          !.index = b.items, !.files = new]]
            /\ objs' = Append(objs, [b EXCEPT !.key = k])
            /\ cur' = Len(objs')
            /\ open' = [open EXCEPT ![v] = Len(objs')]
            /\ adrift' = (adrift \/ screen.vault \notin {None, v})
            /\ MarkOlder(job.obj)
       ELSE UNCHANGED <<disk, objs, cur, open, adrift, upset>>
    /\ dialogs' = Without("rekey") /\ job' = NoJob
    /\ UNCHANGED <<screen, main, sync, left, crashed, saved, asked>>

-----------------------------------------------------------------------------
(* Sync.  A session of a peer shows a dialog that cannot be closed, the     *)
(* user's own one a dialog that can; both change files and end with a       *)
(* report, and only its dismissal, or an error, reloads the state.          *)

HandleIncomingSync ==
    /\ ~crashed /\ sync = "idle" /\ left.syncs > 0
    /\ sync' = "running" /\ Uses("syncs")
    /\ dialogs' = Dialog("receiving", None, 0, None)
    /\ UNCHANGED <<disk, objs, open, cur, screen, main, job, crashed, history>>
StartSync ==
    /\ Free /\ sync = "idle" /\ left.syncs > 0 /\ ~crashed
    /\ sync' = "running" /\ Uses("syncs")
    /\ dialogs' = Dialog("syncing", None, 0, None)
    /\ UNCHANGED <<disk, objs, open, cur, screen, main, job, crashed, history>>
(* The service commits a vault of the peer, with an item more. *)
Commit(v) ==
    /\ ~crashed /\ sync = "running" /\ disk[v].there
    /\ disk[v].sealed = disk[v].key
    /\ disk' = [disk EXCEPT ![v].index = @ \cup {PeerItem},
                            ![v].files[PeerItem] = disk[v].key,
                            ![v].age = @ + 1]
    /\ upset' = upset \cup {v}
    /\ sync' = "committed"
    /\ UNCHANGED <<window, job, left, crashed, saved, asked, adrift>>
Ended == Hide({"receiving", "syncing"})
Report ==
    /\ ~crashed /\ sync \in {"running", "committed"}
    /\ dialogs' = Append(Ended, Show("complete", None, 0, None))
    /\ sync' = "reported"
    /\ UNCHANGED <<disk, objs, open, cur, screen, main, job, left, crashed, history>>

(* Mutant: the content is not made anew after the cache was emptied. *)
ReloadStateFromDiskOnly ==
    open' = [v \in Vaults |-> 0] /\ cur' = 0 /\ UNCHANGED <<screen, main>>
ReloadStateFromDisk ==
    open' = [v \in Vaults |-> 0] /\ cur' = 0 /\ ShowMain(Select)
Dismiss ==
    /\ ~crashed /\ Top("complete")
    /\ dialogs' = Front(dialogs) /\ sync' = "idle"
    /\ ReloadStateFromDisk
    /\ UNCHANGED <<disk, objs, job, left, crashed, history>>
SyncFails ==
    /\ ~crashed /\ sync \in {"running", "committed"}
    /\ dialogs' = Ended /\ sync' = "idle"
    /\ ReloadStateFromDisk
    /\ UNCHANGED <<disk, objs, job, left, crashed, history>>

-----------------------------------------------------------------------------
Workers == \E x \in Items : \/ Acquire(x) \/ WorkerStore(x) \/ WorkerLoad(x)
                             \/ WorkerAppend(x)
JobEnds == ImportEnds \/ ExportEnds \/ AuditEnds
Next == \/ \E v \in Vaults : \/ SetVaultViewByName(v) \/ CreateVault(v)
                             \/ Commit(v)
        \/ \E x \in Items : SelectItem(x) \/ OnSave(x) \/ EditAudited(x)
        \/ \E x \in Items : WorkerFails(x)
        \/ Unlock \/ LockVault \/ AskDestroy \/ DestroyVault \/ Cancel
        \/ AddItem \/ Back \/ AskDelete \/ OnDelete \/ DropItem
        \/ AskSettings \/ SaveSettings
        \/ ImportFromFile \/ AskExport \/ ExportToFile \/ AuditPasswords
        \/ CancelJob \/ Workers \/ JobEnds
        \/ ChangePassword \/ AdoptVault
        \/ HandleIncomingSync \/ StartSync \/ Report \/ Dismiss \/ SyncFails

Spec == Init /\ [][Next]_vars

-----------------------------------------------------------------------------
(* Type invariant.  The cache's objects are those of their vaults.          *)
TypeOK ==
    /\ \A v \in Vaults :
         /\ disk[v].index \subseteq Items /\ disk[v].sealed <= disk[v].key
         /\ open[v] \in 0..Len(objs)
         /\ open[v] # 0 => objs[open[v]].vault = v
    /\ cur \in 0..Len(objs)
    /\ \A i \in DOMAIN objs : objs[i].items \subseteq Items
    /\ screen.kind \in {"select", "unlock", "vault", "edit", "audit"}
    /\ sync \in {"idle", "running", "committed", "reported"}

(* The window shows the items of a vault, or one of them, only while the    *)
(* vault is unlocked: not after a lock, a destroyed vault, a switch or a    *)
(* reload, in whatever order they came and under whatever dialog.           *)
ShowsOnlyUnlocked ==
    ~adrift /\ screen.kind \in {"vault", "edit", "audit"} =>
        cur # 0 /\ open[screen.vault] = cur

(* What is saved goes into the vault it was opened in, although OnSave      *)
(* takes a.vault as it is by then.  (adrift: a password change sets a.vault *)
(* under the view of the vault the tray has switched to.)                   *)
SaveGoesToItsVault == ~adrift => saved[1] = saved[2]

(* A vault is destroyed only if it was the one on the screen when the user  *)
(* asked for it; what the tray did between the two confirmations is not     *)
(* what counts.                                                             *)
OnlyAskedDestroyed ==
    [][\A v \in Vaults : disk[v].there /\ ~disk'[v].there /\ ~adrift
                           => v = asked]_vars

(* The object the window holds of a vault lists what the vault's file       *)
(* lists, whatever operations succeeded or were refused; a sync before its  *)
(* reload, a rollback and a write of an old object are the exceptions.      *)
CacheAgrees ==
    \A v \in Vaults \ upset :
        open[v] # 0 => objs[open[v]].items = disk[v].index

(* A job that was neither cancelled nor failed has handled every item when  *)
(* it ends, and an import has listed them all in its vault: unless two      *)
(* appends without a lock met, or the vault was switched under it.          *)
JobIsComplete ==
    [][job.kind \in Jobs /\ job'.kind = "none" /\ ~job.bad /\ ~job.raced
         /\ ~job.moved
       => /\ job.done = job.items
          /\ job.kind = "import" /\ objs[cur].vault = job.vault
               /\ disk[job.vault].there
             => job.items \subseteq disk'[job.vault].index]_vars

=============================================================================
