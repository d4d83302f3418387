----------------------------- MODULE VaultStore -----------------------------
(***************************************************************************)
(* The files of one vault under storage/ and its entry in usm.json         *)
(* (usm/storage_os.go, usm/storage.go), written by two processes: the      *)
(* desktop application ("gui"), which keeps the unlocked vault in memory,  *)
(* and one command of the command line ("cli") at a time.  Every file is   *)
(* truncated by one step and filled by a later one; either process may die *)
(* between two steps and any step may fail.  Changing the password moves   *)
(* the directory aside as a backup `name.vN' and builds a new one.         *)
(***************************************************************************)
EXTENDS Integers, Sequences, FiniteSets, FiniteSetsExt, SequencesExt

CONSTANTS Items,      \* the item files a vault may hold
          Passwords,  \* master passwords
          MaxKeys,    \* bound: keys ever generated
          MaxClock,   \* bound: operations started, one tick of time each
          MaxFailures \* bound: deaths of a process and failing system calls

ASSUME BoundsAssumption ==
    MaxKeys \in Nat \ {0} /\ MaxClock \in Nat \ {0} /\ MaxFailures \in Nat
ASSUME SetsAssumption == IsFiniteSet(Items) /\ Items # {} /\ Passwords # {}

VARIABLES
    dir,    \* directory 0 is the vault's own, n > 0 the backup name.vn
    state,  \* the vault's entry in usm.json
    pwOf,   \* the password each generated key is protected with
    keys,   \* number of keys generated so far
    clock, failures,
    mem,    \* the unlocked vault of the desktop application (a.vault)
    app,    \* the entry in each process's own copy of the application state
    work,   \* the vault object the running operation works on
    st,     \* the entry persistVaultCatalogue is about to write
    job,    \* what the running operation is
    plan,   \* the steps it has left
    at,     \* the directory that holds the file the process has open
    acked,  \* history: items whose storing was reported as a success
    gain,   \* history: items the running operation will report
    clean,  \* history: no password change beside the running command
    whole   \* history: the items of the last vault known to be complete

storeVars == <<dir, state, pwOf, keys, clock, failures, mem, app, work, st, job,
              plan, at, acked, gain, clean, whole>>
disk == <<dir, state>>
hist == <<acked, gain, clean, whole>>

Proc == {"gui", "cli"}
Other(p) == IF p = "gui" THEN "cli" ELSE "gui"
Key == 1..MaxKeys
None == 0           \* no such file
Torn == -1          \* truncated, or written by two processes at once
Backup == 1..(MaxClock + MaxFailures + 2)

\* A file is represented by the key it is readable with.
VaultListing(k, is, m) == [k |-> k, items |-> is, mod |-> m]
NoVault == VaultListing(None, {}, 0)
NoDir == [there |-> FALSE, key |-> None, vault |-> NoVault,
          item |-> [i \in Items |-> None]]
NoEntry == [version |-> 0, mod |-> 0, seen |-> 0]
Cut == [NoEntry EXCEPT !.version = -1]     \* usm.json does not parse
Nil == [key |-> None, items |-> {}, mod |-> 0, from |-> 0]

\* Everything in the directory can be read with the key it holds.
Whole(d) == /\ d.there /\ d.key \in Key /\ d.vault.k = d.key
            /\ \A i \in d.vault.items : d.item[i] = d.key

-----------------------------------------------------------------------------
(* The catalogue entry *)

UpdateVaultCatalogue(e, v) ==
    [version |-> IF e.version = 0 THEN 1
                 ELSE IF e.mod # v.mod THEN e.version + 1 ELSE e.version,
     mod |-> v.mod, seen |-> e.seen]

catalogueEntryRecency(e) == Max({e.mod, e.seen})

mergeCatalogueEntries(current, incoming) ==
    IF /\ current.version # 0
       /\ \/ incoming.version = 0
          \/ catalogueEntryRecency(current) > catalogueEntryRecency(incoming)
    THEN current ELSE incoming

\* An unreadable or empty catalogue counts as version 1.
catalogueVaultVersion == IF state.version > 0 THEN state.version ELSE 1

-----------------------------------------------------------------------------
(* Operations as lists of steps *)

persistVaultCatalogue == << <<"loadState">>, <<"storeState">>, <<"writeState">> >>
StoreAppState == << <<"storeApp">>, <<"writeState">> >>
StoreItem(i) == << <<"openItem", i>>, <<"writeItem", i>> >>
StoreVault == << <<"openVault">>, <<"writeVault">> >> \o persistVaultCatalogue
ForgetItem(old) == IF old = {} THEN <<>> ELSE << <<"forget", CHOOSE i \in old : TRUE>> >>
CreateVaultKey == << <<"openKey">>, <<"writeKey">> >>
LoadVault == << <<"loadSeen">>, <<"storeState">>, <<"writeState">> >>
Done == << <<"done">> >>
restoreBackup == << <<"clearActive">>, <<"moveBack">>, <<"done">> >>

\* Items are stored in the order in which a Go map yields them: any.
StoreItems(order) ==
    [n \in 1..(2 * Len(order)) |->
        <<IF n % 2 = 1 THEN "openItem" ELSE "writeItem", order[(n + 1) \div 2]>>]

ChangeVaultPassword(order) ==
    << <<"moveAside">> >> \o CreateVaultKey \o StoreItems(order)
    \o StoreVault \o << <<"dropOlder">>, <<"adopt">> >> \o StoreAppState \o Done

Idle(p) == plan[p] = <<>>
At(p, s) == ~Idle(p) /\ Head(plan[p]) = <<s>>
AtItem(p, s, i) == ~Idle(p) /\ Head(plan[p]) = <<s, i>>
Advance(p) == plan' = [plan EXCEPT ![p] = Tail(@)]

\* The items whose files p has still to write or to remove.
ItemStep == {"openItem", "writeItem", "removeItem", "forget"}
Touching(p) == {i \in Items : \E s \in ItemStep : <<s, i>> \in Range(plan[p])}

\* An operation of p starts that will report the items in is, and puts those
\* in lost at risk; two operations on one item at a time vouch for nothing.
Starts(p, is, lost) ==
    /\ gain' = [q \in Proc |-> IF q = p THEN is \ Touching(Other(p)) ELSE gain[q] \ lost]
    /\ acked' = acked \ lost
    /\ whole' = {}

\* A password change is running, or being undone.
Rekeying == ~Idle("gui") /\ job.gui.kind \in {"rekeyStart", "rekey", "rekeyed", "restore"}
Tick == clock < MaxClock /\ clock' = clock + 1

-----------------------------------------------------------------------------
(* The desktop application *)

\* Create a vault (ui/vault.go): key, empty vault, then stored once more with
\* its colour; the application's own state is not stored.
Create(pw) ==
    /\ Idle("gui") /\ mem = Nil /\ keys < MaxKeys /\ Tick
    /\ dir[0].key = None
    /\ work' = [work EXCEPT !.gui = [Nil EXCEPT !.mod = clock + 1]]
    /\ job' = [job EXCEPT !.gui = [kind |-> "create", pw |-> pw, back |-> 0]]
    /\ plan' = [plan EXCEPT !.gui = CreateVaultKey \o StoreVault
                    \o << <<"recolour">> >> \o StoreVault \o Done]
    /\ Starts("gui", {}, {}) /\ UNCHANGED clean
    /\ UNCHANGED <<disk, pwOf, keys, failures, mem, app, st, at>>

\* The vault's name comes from the decrypted file, so that a backup opened
\* from the list of vaults is a vault with the name of directory 0.
Opens(n, pw) == /\ dir[n].there /\ dir[n].key \in Key /\ pwOf[dir[n].key] = pw
                /\ dir[n].vault.k = dir[n].key
Opened(n) == [key |-> dir[n].key, items |-> dir[n].vault.items,
              mod |-> dir[n].vault.mod, from |-> n]

\* Unlock a vault of the list, which names the backups too.
Unlock(n, pw) ==
    /\ Idle("gui") /\ mem = Nil /\ Tick
    /\ Opens(n, pw) /\ work' = [work EXCEPT !.gui = Opened(n)]
    /\ job' = [job EXCEPT !.gui = [kind |-> "unlock", pw |-> pw, back |-> 0]]
    /\ plan' = [plan EXCEPT !.gui = LoadVault \o Done]
    /\ Starts("gui", {}, {}) /\ UNCHANGED clean
    /\ UNCHANGED <<disk, pwOf, keys, failures, mem, app, st, at>>

\* Mutant of SaveItem: the old file is deleted under the same name too.
SaveItemAlwaysForgets(i, old) ==
    /\ Idle("gui") /\ mem # Nil /\ Tick
    /\ old \subseteq mem.items
    /\ i \in mem.items <=> old = {i}
    /\ LET v == [mem EXCEPT !.items = @ \cup {i}, !.mod = clock + 1]
       IN mem' = v /\ work' = [work EXCEPT !.gui = v]
    /\ job' = [job EXCEPT !.gui = [@ EXCEPT !.kind = "save"]]
    /\ plan' = [plan EXCEPT !.gui = StoreItem(i)
            \o ForgetItem(old)
            \o StoreVault \o StoreAppState \o Done]
    /\ Starts("gui", IF mem.from = 0 /\ mem.key = dir[0].key THEN {i} ELSE {},
              old \cup {i})
    /\ UNCHANGED clean
    /\ UNCHANGED <<disk, pwOf, keys, failures, app, st, at>>

\* Save an item, new or edited; under another name the old one is deleted.
SaveItem(i, old) ==
    /\ Idle("gui") /\ mem # Nil /\ Tick
    /\ old \subseteq mem.items \ {i}
    /\ old # {} => i \notin mem.items
    /\ LET v == [mem EXCEPT !.items = @ \cup {i}, !.mod = clock + 1]
       IN mem' = v /\ work' = [work EXCEPT !.gui = v]
    /\ job' = [job EXCEPT !.gui = [@ EXCEPT !.kind = "save"]]
    /\ plan' = [plan EXCEPT !.gui = StoreItem(i)
            \o ForgetItem(old)
            \o StoreVault \o StoreAppState \o Done]
    /\ Starts("gui", IF mem.from = 0 /\ mem.key = dir[0].key THEN {i} ELSE {},
              old \cup {i})
    /\ UNCHANGED clean
    /\ UNCHANGED <<disk, pwOf, keys, failures, app, st, at>>

\* Delete an item: memory first, then its file, the listing and the state.
DeleteItem(i) ==
    /\ Idle("gui") /\ i \in mem.items /\ Tick
    /\ LET v == [mem EXCEPT !.items = @ \ {i}, !.mod = clock + 1]
       IN mem' = v /\ work' = [work EXCEPT !.gui = v]
    /\ job' = [job EXCEPT !.gui = [@ EXCEPT !.kind = "save"]]
    /\ plan' = [plan EXCEPT !.gui =
                    << <<"removeItem", i>> >> \o StoreVault \o StoreAppState \o Done]
    /\ Starts("gui", {}, {i}) /\ UNCHANGED clean
    /\ UNCHANGED <<disk, pwOf, keys, failures, app, st, at>>

\* An item that does not load may be dropped: no error stops the rest.  The
\* object is the current one here: the user has left the vault's view after a
\* password change.  A list that still holds the old one is in Desktop.
DropUnreadable(i) ==
    /\ Idle("gui") /\ i \in mem.items /\ Tick
    /\ dir[0].item[i] # mem.key
    /\ LET v == [mem EXCEPT !.items = @ \ {i}, !.mod = clock + 1]
       IN mem' = v /\ work' = [work EXCEPT !.gui = v]
    /\ job' = [job EXCEPT !.gui = [@ EXCEPT !.kind = "drop"]]
    /\ plan' = [plan EXCEPT !.gui =
                    << <<"forget", i>> >> \o StoreVault \o StoreAppState \o Done]
    /\ Starts("gui", {}, {i}) /\ UNCHANGED clean
    /\ UNCHANGED <<disk, pwOf, keys, failures, app, st, at>>

\* Change the password: checks the old one, reads every listed item into
\* memory, and names the backup after the version in usm.json.
ChangePassword(old, new) ==
    /\ Idle("gui") /\ mem # Nil /\ keys < MaxKeys /\ Tick
    /\ old # new /\ dir[0].key \in Key /\ pwOf[dir[0].key] = old
    /\ \A i \in mem.items : dir[0].item[i] = mem.key
    /\ catalogueVaultVersion \in Backup      \* bound
    /\ work' = [work EXCEPT !.gui =
                    [mem EXCEPT !.key = None, !.mod = clock + 1, !.from = 0]]
    /\ job' = [job EXCEPT !.gui = [kind |-> "rekeyStart", pw |-> new,
                                   back |-> catalogueVaultVersion]]
    /\ \E order \in Bijection(1..Cardinality(mem.items), mem.items) :
            plan' = [plan EXCEPT !.gui = ChangeVaultPassword(order)]
    /\ gain' = [q \in Proc |-> {}] /\ clean' = FALSE
    /\ acked' = acked \cap mem.items
    /\ UNCHANGED <<disk, pwOf, keys, failures, mem, app, st, at, whole>>

Lock == /\ Idle("gui") /\ mem # Nil /\ mem' = Nil
        /\ UNCHANGED <<disk, pwOf, keys, clock, failures, app, work, st, job, plan, at, hist>>

-----------------------------------------------------------------------------
(* The command line: load, ask, store, exit *)

\* `usm cli init'.
InitVault(pw) ==
    /\ Idle("cli") /\ keys < MaxKeys /\ Tick
    /\ dir[0].key = None
    /\ work' = [work EXCEPT !.cli = [Nil EXCEPT !.mod = clock + 1]]
    /\ job' = [job EXCEPT !.cli = [kind |-> "create", pw |-> pw, back |-> 0]]
    /\ plan' = [plan EXCEPT !.cli = CreateVaultKey \o StoreVault \o Done]
    /\ gain' = [q \in Proc |-> {}] /\ clean' = ~Rekeying /\ whole' = {}
    /\ UNCHANGED acked
    /\ UNCHANGED <<disk, pwOf, keys, failures, mem, app, st, at>>

\* Every other command loads the state and the vault, then prompts.
LoadCommand(pw) ==
    /\ Idle("cli") /\ Tick
    /\ state # Cut
    /\ app' = [app EXCEPT !.cli = state]
    /\ Opens(0, pw) /\ work' = [work EXCEPT !.cli = Opened(0)]
    /\ job' = [job EXCEPT !.cli = [kind |-> "unlock", pw |-> pw, back |-> 0]]
    /\ plan' = [plan EXCEPT !.cli = LoadVault \o << <<"prompt">> >>]
    /\ Starts("cli", {}, {})
    /\ clean' = ~Rekeying
    /\ UNCHANGED <<disk, pwOf, keys, failures, mem, st, at>>

\* The user has answered; v is the vault the command stores after steps.
Answered(v, steps, is, lost) ==
    /\ At("cli", "prompt") /\ Tick
    /\ work' = [work EXCEPT !.cli = [v EXCEPT !.mod = clock + 1]]
    /\ job' = [job EXCEPT !.cli.kind = "save"]
    /\ plan' = [plan EXCEPT !.cli = steps \o StoreVault \o StoreAppState \o Done]
    /\ Starts("cli", IF clean THEN is ELSE {}, lost) /\ UNCHANGED clean
    /\ UNCHANGED <<disk, pwOf, keys, failures, mem, app, st, at>>

AddCmd(i) ==
    /\ i \notin work.cli.items
    /\ Answered([work.cli EXCEPT !.items = @ \cup {i}], StoreItem(i), {i}, {i})

\* The item is read from its file, listed or not.
EditCmd(i) ==
    /\ dir[0].item[i] = work.cli.key
    /\ Answered([work.cli EXCEPT !.items = @ \cup {i}], StoreItem(i), {i}, {i})

RemoveCmd(i) ==
    /\ i \in work.cli.items
    /\ Answered([work.cli EXCEPT !.items = @ \ {i}], << <<"removeItem", i>> >>, {}, {i})

\* The command ends without storing (show, list, or the answer is no).
Leave ==
    /\ At("cli", "prompt")
    /\ plan' = [plan EXCEPT !.cli = <<>>]
    /\ UNCHANGED <<disk, pwOf, keys, clock, failures, mem, app, work, st, job, at, hist>>

-----------------------------------------------------------------------------
(* Steps.  A file stays open in the directory it was opened in, wherever    *)
(* that directory is moved to.                                              *)

Truncated(p, d) == /\ dir' = [dir EXCEPT ![0] = d]
                   /\ at' = [at EXCEPT ![p] = 0]
                   /\ Advance(p)
\* A file two processes have open may end as a mixture of both.
Filled(now, k) == IF now = Torn THEN {k} ELSE {k, Torn}

OpenKey(p) ==
    /\ At(p, "openKey") /\ dir[0].key = None
    /\ Truncated(p, [dir[0] EXCEPT !.there = TRUE, !.key = Torn])
    /\ UNCHANGED <<state, pwOf, keys, clock, failures, mem, app, work, st, job, hist>>

WriteKey(p) ==
    /\ At(p, "writeKey") /\ keys < MaxKeys
    /\ keys' = keys + 1
    /\ pwOf' = [pwOf EXCEPT ![keys + 1] = job[p].pw]
    /\ dir' = IF at[p] < 0 THEN dir ELSE [dir EXCEPT ![at[p]].key = keys + 1]
    /\ work' = [work EXCEPT ![p].key = keys + 1]
    /\ Advance(p)
    /\ UNCHANGED <<state, clock, failures, mem, app, st, job, at, hist>>

OpenItem(p, i) ==
    /\ AtItem(p, "openItem", i) /\ dir[0].there
    /\ Truncated(p, [dir[0] EXCEPT !.item[i] = Torn])
    /\ UNCHANGED <<state, pwOf, keys, clock, failures, mem, app, work, st, job, hist>>

WriteItem(p, i) ==
    /\ AtItem(p, "writeItem", i)
    /\ IF at[p] < 0 THEN dir' = dir
       ELSE \E k \in Filled(dir[at[p]].item[i], work[p].key) :
                dir' = [dir EXCEPT ![at[p]].item[i] = k]
    /\ Advance(p)
    /\ UNCHANGED <<state, pwOf, keys, clock, failures, mem, app, work, st, job, at, hist>>

OpenVault(p) ==
    /\ At(p, "openVault") /\ dir[0].there
    /\ Truncated(p, [dir[0] EXCEPT !.vault = [NoVault EXCEPT !.k = Torn]])
    /\ UNCHANGED <<state, pwOf, keys, clock, failures, mem, app, work, st, job, hist>>

WriteVault(p) ==
    /\ At(p, "writeVault")
    /\ IF at[p] < 0 THEN dir' = dir
       ELSE \E k \in Filled(dir[at[p]].vault.k, work[p].key) :
                dir' = [dir EXCEPT ![at[p]].vault =
                            IF k = Torn THEN [NoVault EXCEPT !.k = Torn]
                            ELSE VaultListing(k, work[p].items, work[p].mod)]
    /\ Advance(p)
    /\ UNCHANGED <<state, pwOf, keys, clock, failures, mem, app, work, st, job, at, hist>>

\* os.Remove of an item file; the step "forget" ignores its error.
RemoveItem(p, i) ==
    /\ AtItem(p, "removeItem", i) \/ AtItem(p, "forget", i)
    /\ AtItem(p, "removeItem", i) => dir[0].item[i] # None
    /\ dir' = [dir EXCEPT ![0].item[i] = None]
    /\ work' = [work EXCEPT ![p].items = IF AtItem(p, "forget", i) THEN @ \ {i} ELSE @]
    /\ mem' = IF AtItem(p, "forget", i) THEN [mem EXCEPT !.items = @ \ {i}] ELSE mem
    /\ Advance(p)
    /\ UNCHANGED <<state, pwOf, keys, clock, failures, app, st, job, at, hist>>

\* persistVaultCatalogue reads usm.json and refreshes the vault's entry.
LoadState(p) ==
    /\ At(p, "loadState") \/ At(p, "loadSeen")
    /\ state # Cut
    /\ st' = [st EXCEPT ![p] =
                LET e == UpdateVaultCatalogue(state, work[p])
                IN IF At(p, "loadSeen") THEN [e EXCEPT !.seen = clock] ELSE e]
    /\ Advance(p)
    /\ UNCHANGED <<disk, pwOf, keys, clock, failures, mem, app, work, job, at, hist>>

\* StoreAppState reads usm.json again, merges it in and truncates the file.
StoreState(p) ==
    /\ At(p, "storeState") \/ At(p, "storeApp")
    /\ state # Cut
    /\ LET e == mergeCatalogueEntries(state,
                    IF At(p, "storeApp") THEN app[p] ELSE st[p])
       IN /\ st' = [st EXCEPT ![p] = e]
          /\ app' = IF At(p, "storeApp") THEN [app EXCEPT ![p] = e] ELSE app
    /\ state' = Cut
    /\ Advance(p)
    /\ UNCHANGED <<dir, pwOf, keys, clock, failures, mem, work, job, at, hist>>

WriteState(p) ==
    /\ At(p, "writeState")
    /\ state' = st[p]
    /\ Advance(p)
    /\ UNCHANGED <<dir, pwOf, keys, clock, failures, mem, app, work, st, job, at, hist>>

\* Creating a vault stores it a second time, with its colour.
Recolour ==
    /\ At("gui", "recolour") /\ Tick
    /\ work' = [work EXCEPT !.gui.mod = clock + 1]
    /\ Advance("gui")
    /\ UNCHANGED <<disk, pwOf, keys, failures, mem, app, st, job, at, hist>>

Moved(from, to) == at' = [p \in Proc |-> IF at[p] = from THEN to ELSE at[p]]

\* os.Rename of the directory, refused when the backup exists.
MoveAside ==
    /\ At("gui", "moveAside")
    /\ dir[0].there /\ ~dir[job.gui.back].there
    /\ dir' = [dir EXCEPT ![0] = NoDir, ![job.gui.back] = dir[0]]
    /\ Moved(0, job.gui.back)
    /\ job' = [job EXCEPT !.gui.kind = "rekey"]
    /\ Advance("gui")
    /\ UNCHANGED <<state, pwOf, keys, clock, failures, mem, app, work, st, hist>>

\* The backup before this one is removed.
DropOlder ==
    /\ At("gui", "dropOlder")
    /\ dir' = IF job.gui.back > 1 THEN [dir EXCEPT ![job.gui.back - 1] = NoDir] ELSE dir
    /\ job' = [job EXCEPT !.gui.kind = "rekeyed"]
    /\ IF job.gui.back > 1 THEN Moved(job.gui.back - 1, -1) ELSE at' = at
    /\ Advance("gui")
    /\ UNCHANGED <<state, pwOf, keys, clock, failures, mem, app, work, st, hist>>

\* The window takes the new vault and refreshes its own copy of the entry.
Adopt ==
    /\ At("gui", "adopt")
    /\ mem' = work.gui
    /\ app' = [app EXCEPT !.gui = UpdateVaultCatalogue(@, work.gui)]
    /\ whole' = IF Whole(dir[0]) /\ Idle("cli") THEN dir[0].vault.items ELSE whole
    /\ Advance("gui")
    /\ UNCHANGED <<disk, pwOf, keys, clock, failures, work, st, job, at, acked, gain, clean>>

\* Mutant of ClearActive: the backup is removed in place of the new directory.
ClearActiveWrongPath ==
    /\ At("gui", "clearActive")
    /\ dir' = [dir EXCEPT ![job.gui.back] = NoDir]
    /\ Moved(job.gui.back, -1)
    /\ Advance("gui")
    /\ UNCHANGED <<state, pwOf, keys, clock, failures, mem, app, work, st, job, hist>>

\* restoreBackup: remove what was built, move the backup back.
ClearActive ==
    /\ At("gui", "clearActive")
    /\ dir' = [dir EXCEPT ![0] = NoDir]
    /\ Moved(0, -1)
    /\ Advance("gui")
    /\ UNCHANGED <<state, pwOf, keys, clock, failures, mem, app, work, st, job, hist>>

MoveBack ==
    /\ At("gui", "moveBack") /\ ~dir[0].there
    /\ dir' = [dir EXCEPT ![0] = dir[job.gui.back], ![job.gui.back] = NoDir]
    /\ Moved(job.gui.back, 0)
    /\ Advance("gui")
    /\ UNCHANGED <<state, pwOf, keys, clock, failures, mem, app, work, st, job, hist>>

\* The operation returns.
Return(p) ==
    /\ At(p, "done")
    /\ mem' = IF p = "gui" /\ job.gui.kind \in {"create", "unlock"} THEN work.gui ELSE mem
    /\ acked' = acked \cup gain[p]
    /\ gain' = [gain EXCEPT ![p] = {}]
    /\ whole' = IF Whole(dir[0]) /\ Idle(Other(p)) THEN dir[0].vault.items ELSE whole
    /\ Advance(p)
    /\ UNCHANGED <<disk, pwOf, keys, clock, failures, app, work, st, job, at, clean>>

-----------------------------------------------------------------------------
(* Errors and deaths *)

\* The next step of p cannot be done: a file or directory is missing or in
\* the way, or usm.json does not parse.
Blocked(p) ==
    \/ At(p, "openKey") /\ dir[0].key # None
    \/ At(p, "writeKey") /\ keys = MaxKeys
    \/ At(p, "openVault") /\ ~dir[0].there
    \/ \E i \in Items : \/ AtItem(p, "openItem", i) /\ ~dir[0].there
                        \/ AtItem(p, "removeItem", i) /\ dir[0].item[i] = None
    \/ (At(p, "loadState") \/ At(p, "loadSeen") \/ At(p, "storeState") \/ At(p, "storeApp"))
       /\ state = Cut
    \/ At(p, "moveAside") /\ (~dir[0].there \/ dir[job[p].back].there)
    \/ At(p, "moveBack") /\ dir[0].there

\* A step returns an error: the operation stops, except that a password
\* change puts the backup back, and dropping an unreadable item goes on.
Abandon(p) ==
    /\ plan' = [plan EXCEPT ![p] =
                    CASE job[p].kind = "rekey" -> restoreBackup
                      [] job[p].kind = "drop" -> StoreAppState \o Done
                      [] OTHER -> <<>>]
    /\ job' = [job EXCEPT ![p].kind = IF @ = "rekey" THEN "restore" ELSE "none"]
    /\ gain' = [gain EXCEPT ![p] = {}]
    /\ UNCHANGED <<disk, pwOf, keys, clock, mem, app, work, st, at, acked, clean, whole>>

Refused(p) == Blocked(p) /\ Abandon(p) /\ UNCHANGED failures

\* A system call fails; the errors of removing directories are ignored.
CallFails(p) ==
    /\ failures < MaxFailures /\ failures' = failures + 1
    /\ ~Idle(p)
    /\ \A s \in {"prompt", "recolour", "adopt", "done"} : ~At(p, s)
    /\ \A i \in Items : ~AtItem(p, "forget", i)
    /\ IF At(p, "clearActive") \/ At(p, "dropOlder")
       THEN /\ Advance(p)
            /\ job' = [job EXCEPT ![p].kind = IF @ = "rekey" THEN "rekeyed" ELSE @]
            /\ UNCHANGED <<disk, pwOf, keys, clock, mem, app, work, st, at, hist>>
       ELSE Abandon(p)

\* A process dies.  The desktop application is started again: it reads
\* usm.json (defaults if it does not parse) and lists a vault it lacks.
Die(p) ==
    /\ failures < MaxFailures /\ failures' = failures + 1
    /\ IF p = "gui" THEN mem # Nil \/ ~Idle(p) ELSE ~Idle(p)
    /\ gain' = [gain EXCEPT ![p] = {}]
    /\ mem' = IF p = "gui" THEN Nil ELSE mem
    /\ app' = IF p = "gui" THEN [app EXCEPT !.gui = IF state = Cut THEN NoEntry ELSE state]
              ELSE app
    /\ IF p = "gui" /\ state = NoEntry /\ dir[0].there
       THEN /\ clock' = clock + 1
            /\ st' = [st EXCEPT !.gui = [version |-> 1, mod |-> clock + 1, seen |-> 0]]
            /\ plan' = [plan EXCEPT !.gui = << <<"storeState">>, <<"writeState">> >> \o Done]
       ELSE plan' = [plan EXCEPT ![p] = <<>>] /\ UNCHANGED <<clock, st>>
    /\ job' = [job EXCEPT ![p].kind = "none"]
    /\ UNCHANGED <<disk, pwOf, keys, work, at, acked, clean, whole>>

-----------------------------------------------------------------------------
Created(is) == [there |-> TRUE, key |-> 1, vault |-> VaultListing(1, is, 0),
                item |-> [i \in Items |-> IF i \in is THEN 1 ELSE None]]

\* There is no vault yet, or one that was created and filled before.
StoreInit ==
    /\ \/ /\ dir = [n \in {0} \cup Backup |-> NoDir]
          /\ state = NoEntry /\ keys = 0
       \/ /\ \E is \in {{}, {CHOOSE i \in Items : TRUE}} :
                 dir = [n \in {0} \cup Backup |-> IF n = 0 THEN Created(is) ELSE NoDir]
          /\ state = [NoEntry EXCEPT !.version = 2] /\ keys = 1
    /\ pwOf \in [Key -> {CHOOSE pw \in Passwords : TRUE}]
    /\ clock = 0 /\ failures = 0
    /\ mem = Nil
    /\ app = [p \in Proc |-> state] /\ st = [p \in Proc |-> NoEntry]
    /\ work = [p \in Proc |-> Nil]
    /\ job = [p \in Proc |-> [kind |-> "none", pw |-> CHOOSE pw \in Passwords : TRUE,
                              back |-> 0]]
    /\ plan = [p \in Proc |-> <<>>] /\ at = [p \in Proc |-> -1]
    /\ acked = {} /\ gain = [p \in Proc |-> {}] /\ clean = FALSE /\ whole = {}

Gui == \/ \E pw \in Passwords : Create(pw) \/ \E n \in {0} \cup Backup : Unlock(n, pw)
       \/ \E i \in Items : \/ \E old \in {{}} \cup {{j} : j \in Items} : SaveItem(i, old)
                           \/ DeleteItem(i) \/ DropUnreadable(i)
       \/ \E old, new \in Passwords : ChangePassword(old, new)
       \/ Lock \/ Recolour \/ MoveAside \/ DropOlder \/ Adopt \/ ClearActive \/ MoveBack
Cli == \/ \E pw \in Passwords : InitVault(pw) \/ LoadCommand(pw)
       \/ \E i \in Items : AddCmd(i) \/ EditCmd(i) \/ RemoveCmd(i)
       \/ Leave
Step(p) == \/ OpenKey(p) \/ WriteKey(p) \/ OpenVault(p) \/ WriteVault(p)
           \/ \E i \in Items : OpenItem(p, i) \/ WriteItem(p, i) \/ RemoveItem(p, i)
           \/ LoadState(p) \/ StoreState(p) \/ WriteState(p)
           \/ Refused(p) \/ Return(p)

StoreNext == Gui \/ Cli \/ \E p \in Proc : Step(p) \/ CallFails(p) \/ Die(p)
StoreSpec == StoreInit /\ [][StoreNext]_storeVars

-----------------------------------------------------------------------------
(* Properties *)

Entry == [version : Nat \cup {-1}, mod : Nat, seen : Nat]
Vault == [key : {None} \cup Key, items : SUBSET Items, mod : Nat, from : {0} \cup Backup]
File == {None, Torn} \cup Key

\* Every variable has its type; the window shows only a vault it has a key of.
StoreTypeOK ==
    /\ dir \in [{0} \cup Backup ->
                  [there : BOOLEAN, key : File, item : [Items -> File],
                   vault : [k : File, items : SUBSET Items, mod : Nat]]]
    /\ state \in Entry /\ pwOf \in [Key -> Passwords] /\ keys \in 0..MaxKeys
    /\ clock \in Nat /\ failures \in 0..MaxFailures
    /\ (mem = Nil \/ (mem \in Vault /\ mem.key \in Key)) /\ work \in [Proc -> Vault]
    /\ app \in [Proc -> Entry] /\ st \in [Proc -> Entry]
    /\ at \in [Proc -> {-1, 0} \cup Backup]
    /\ acked \subseteq Items /\ gain \in [Proc -> SUBSET Items]
    /\ clean \in BOOLEAN /\ whole \subseteq Items

\* A complete vault stays complete in some directory through any number of
\* password changes, whatever fails and whenever the program dies in them:
\* what ChangeVaultPassword takes the backup for.
PasswordChangeKeepsVault ==
    whole # {} => \E n \in DOMAIN dir : Whole(dir[n]) /\ dir[n].vault.items = whole

\* An item whose storing was reported as a success can be read in the vault
\* or in a backup until the user touches it again, also when the window saves
\* a listing that does not know it.
ReportedItemReadable ==
    \A i \in acked : \E n \in DOMAIN dir :
        dir[n].there /\ dir[n].key \in Key /\ dir[n].item[i] = dir[n].key

=============================================================================
