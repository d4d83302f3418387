--------------------------- MODULE VersionedConfig ---------------------------
(***************************************************************************)
(* The preferences on disk: usm.json, written by the program as main.go    *)
(* builds it ("plain"), and the chain of versions the adapter of           *)
(* internal/config keeps in the directory config/ ("versioned").  The two  *)
(* programs run one after the other on the same directory: the adapter     *)
(* takes usm.json over at its first start, keeps it as usm.json.backup,    *)
(* and can export the preferences back.  Either program may die between    *)
(* two steps.  The preferences view of the window (ui/preferences.go) is   *)
(* where the user chooses; a watcher follows the chain (watch.go).         *)
(***************************************************************************)
EXTENDS Naturals, Sequences, SequencesExt

CONSTANTS MaxVersions,  \* bound: versions in the chain
          MaxStarts,    \* bound: starts of either program
          MaxFaults,    \* bound: failing calls
          MaxChoices    \* bound: preferences the user changes

ASSUME BoundsAssumption ==
    MaxVersions \in Nat \ {0} /\ MaxStarts \in Nat /\ MaxFaults \in Nat /\ MaxChoices \in Nat

VARIABLES
    legacy, backup,  \* usm.json and usm.json.backup
    chain,           \* the stored versions, oldest first
    prog,            \* the program that runs: "none", "plain", "versioned"
    pc, after,       \* its next step, and the one after a store
    mem,             \* a.state: the state the window shows and edits
    out,             \* the state being stored or exported
    found,           \* what configExists said
    watch,           \* WatchAppState: its goroutine, channels and consumer
    starts, faults, choices,
    known,      \* history: the preferences the user may find again
    misread,    \* history: a failing read of the chain counted as no chain
    downgraded, \* history: the plain program went its own way beside a chain
    exported    \* history: usm.json holds the last version

vars == <<legacy, backup, chain, prog, pc, after, mem, out, found, watch, starts,
          faults, choices, known, misread, downgraded, exported>>
files == <<legacy, backup, chain>>
counts == <<starts, faults, choices>>
hist == <<known, misread, downgraded, exported>>

-----------------------------------------------------------------------------
(* Preferences.  Three stand for all: the length of generated passwords     *)
(* (0 not set, limits 1 and 3), the digits of a TOTP (0 not set, 1 default) *)
(* and the colour of the theme (0 default).                                 *)

Prefs == [length : 0..3, totp : 0..2, colour : 0..1]
newDefaultPreferences == [length |-> 2, totp |-> 1, colour |-> 0]
NoPreferences == [none |-> TRUE]    \* a state without the key "preferences"

\* The content of a version holds every field, but one written by an earlier
\* version of the program may lack some: those take their defaults.
preferencesToMap(p) == [f \in {"length", "totp", "colour"} |-> p[f]]
extractPreferences(c) ==
    [f \in {"length", "totp", "colour"} |->
        IF f \in DOMAIN c THEN c[f] ELSE newDefaultPreferences[f]]

\* usm.json: preferences and the counter of the vault's catalogue entry
\* (0: no entry), or nothing, or cut off by a writer that died.
File(p, c) == [is |-> "file", prefs |-> p, cat |-> c]
Absent == [is |-> "absent", prefs |-> NoPreferences, cat |-> 0]
Cut == [is |-> "cut", prefs |-> NoPreferences, cat |-> 0]

\* The versioned state has no catalogue: only preferences are stored.
State(p, c) == [prefs |-> p, cat |-> c]
DefaultState == State(newDefaultPreferences, 0)
Latest == IF chain = <<>> THEN DefaultState ELSE State(extractPreferences(Last(chain)), 0)
LoadLegacy == IF legacy.is = "file" THEN State(legacy.prefs, legacy.cat) ELSE DefaultState

NoWatch == [st |-> "off", polled |-> 0, offer |-> 0, taken |-> 0, got |-> 0, cancel |-> FALSE]

At(p, s) == prog = p /\ pc = s
Goto(s) == pc' = s
Failing == faults < MaxFaults /\ faults' = faults + 1
Stops == /\ prog' = "none" /\ pc' = "off" /\ after' = "idle"
         /\ mem' = DefaultState /\ out' = DefaultState
         /\ found' = FALSE /\ watch' = NoWatch

\* GetLatest: the state it gives, or a failure, which counts as no chain.
GetLatest(s) ==
    \/ s = Latest /\ UNCHANGED <<faults, misread>>
    \/ s = DefaultState /\ chain # <<>> /\ Failing /\ misread' = TRUE

-----------------------------------------------------------------------------
(* CreateVersionedStorage: MigrateExistingConfig, then the window loads *)

StartVersioned ==
    /\ prog = "none" /\ starts < MaxStarts /\ starts' = starts + 1
    /\ prog' = "versioned" /\ Goto("read")
    /\ UNCHANGED <<files, after, mem, out, found, watch, faults, choices, hist>>

ReadLegacy ==
    /\ At("versioned", "read")
    /\ Goto(IF legacy.is = "absent" THEN "load" ELSE "check")
    /\ UNCHANGED <<files, prog, after, mem, out, found, watch, counts, hist>>

Imports ==
    /\ out' = State(IF legacy.prefs = NoPreferences THEN newDefaultPreferences
                    ELSE legacy.prefs, legacy.cat)
    /\ after' = "rename" /\ Goto("exists")
    /\ UNCHANGED <<prog, mem, found, watch>>

\* Mutant of CheckChain: usm.json is imported whether or not a chain exists.
CheckChainNever ==
    /\ At("versioned", "check")
    /\ IF legacy.is = "cut" THEN Stops ELSE Imports
    /\ UNCHANGED <<files, counts, hist>>

\* With a chain usm.json only moves away; without one it becomes version 1,
\* or, when it does not parse, the program does not start.
CheckChain ==
    /\ At("versioned", "check")
    /\ \E there \in BOOLEAN :
          /\ \/ there = (chain # <<>>) /\ UNCHANGED <<faults, misread>>
             \/ ~there /\ chain # <<>> /\ Failing /\ misread' = TRUE
          /\ IF there THEN Goto("rename") /\ UNCHANGED <<prog, after, mem, out, found, watch>>
             ELSE IF legacy.is = "cut" THEN Stops
             ELSE Imports
    /\ UNCHANGED <<files, starts, choices, known, downgraded, exported>>

\* os.Rename replaces an older backup; its error is only a warning.
Rename ==
    /\ At("versioned", "rename")
    /\ \/ backup' = legacy /\ legacy' = Absent /\ exported' = FALSE /\ UNCHANGED faults
       \/ Failing /\ UNCHANGED <<backup, legacy, exported>>
    /\ Goto("load") /\ after' = "idle" /\ out' = DefaultState /\ found' = FALSE
    /\ UNCHANGED <<chain, prog, mem, watch, starts, choices, known,
                   misread, downgraded>>

\* MakeApp: the window takes the latest state.
Load ==
    /\ At("versioned", "load")
    /\ \E s \in {Latest, DefaultState} :
          /\ GetLatest(s)
          /\ mem' = s
          /\ known' = known \cap {s.prefs}
    /\ Goto("refresh")
    /\ UNCHANGED <<files, prog, after, out, found, watch, starts, choices, downgraded, exported>>

\* MigrateVaultCatalogue and persistVaultCatalogue: load the state, add the
\* vault's catalogue entry, store it: a new version with the same content.
Refresh ==
    /\ At("versioned", "refresh")
    /\ \E s \in {Latest, DefaultState} : GetLatest(s) /\ out' = [s EXCEPT !.cat = 1]
    /\ after' = "idle" /\ Goto("exists")
    /\ UNCHANGED <<files, prog, mem, found, watch, starts, choices, known, downgraded, exported>>

-----------------------------------------------------------------------------
(* StoreAppState of the adapter *)

ConfigExists ==
    /\ At("versioned", "exists")
    /\ \E s \in {Latest, DefaultState} : GetLatest(s)
    /\ found' = (chain # <<>> /\ faults' = faults)
    /\ Goto("write")
    /\ UNCHANGED <<files, prog, after, mem, out, watch, starts, choices, known, downgraded, exported>>

\* The operation is over; what it stored is of no more use.
Done == /\ Goto("idle") /\ after' = "idle" /\ out' = DefaultState /\ found' = FALSE
        /\ UNCHANGED <<prog, watch>>

\* A store that failed: the window shows an error, a migration ends the start.
StoreFails ==
    /\ IF after = "rename" THEN Stops ELSE Done /\ UNCHANGED mem
    /\ UNCHANGED <<chain, known>>

StoreEnds ==
    /\ known' = IF after = "choice" THEN {out.prefs} ELSE known
    /\ IF after = "rename" THEN Goto("rename") /\ UNCHANGED <<prog, after, out, found, watch>>
       ELSE Done

\* Update appends a version; Create starts a chain.  What Create does of a
\* chain that is there after all is the library's choice.
Write ==
    /\ At("versioned", "write") /\ Len(chain) < MaxVersions
    /\ \/ /\ \/ found /\ chain' = Append(chain, preferencesToMap(out.prefs))
             \/ ~found /\ chain' = << preferencesToMap(out.prefs) >>
          /\ StoreEnds
          /\ UNCHANGED <<mem, faults>>
       \/ ~found /\ chain # <<>> /\ StoreFails /\ UNCHANGED faults
       \/ Failing /\ StoreFails
    /\ UNCHANGED <<legacy, backup, starts, choices, misread,
                   downgraded, exported>>

-----------------------------------------------------------------------------
(* The plain program: OSStorage or FyneStorage on usm.json *)

\* A usm.json that does not parse is shown as the defaults.
StartPlain ==
    /\ prog = "none" /\ starts < MaxStarts /\ starts' = starts + 1
    /\ legacy.is = "file" => legacy.prefs # NoPreferences   \* MakeApp dereferences it
    /\ prog' = "plain"
    /\ mem' = LoadLegacy
    /\ Goto(IF LoadLegacy.cat = 0 THEN "refresh" ELSE "idle")
    /\ downgraded' = (downgraded \/ (chain # <<>> /\ ~exported))
    /\ known' = IF chain = <<>> THEN known \cap {LoadLegacy.prefs} ELSE known
    /\ exported' = FALSE
    /\ UNCHANGED <<files, after, out, found, watch, faults, choices,
                   misread>>

\* persistVaultCatalogue: refused while usm.json does not parse.
RefreshPlain ==
    /\ At("plain", "refresh")
    /\ IF legacy.is = "cut" THEN Goto("idle") /\ UNCHANGED <<out, after>>
       ELSE /\ out' = State(LoadLegacy.prefs, LoadLegacy.cat + 1)
            /\ Goto("merge") /\ after' = "idle"
    /\ UNCHANGED <<files, prog, mem, found, watch, counts, hist>>

\* StoreAppState merges the catalogue on disk and truncates the file ...
TruncatePlain ==
    /\ At("plain", "merge")
    /\ IF legacy.is = "cut" THEN Done /\ UNCHANGED <<legacy, mem>>
       ELSE /\ LET cat == IF legacy.cat > out.cat THEN legacy.cat ELSE out.cat
               IN /\ out' = [out EXCEPT !.cat = cat]
                  /\ mem' = IF after = "choice" THEN [mem EXCEPT !.cat = cat] ELSE mem
            /\ legacy' = Cut
            /\ Goto("fill")
            /\ UNCHANGED <<prog, after, found, watch>>
    /\ UNCHANGED <<backup, chain, counts, known, misread, downgraded, exported>>

\* ... and writes it.
FillPlain ==
    /\ At("plain", "fill")
    /\ legacy' = File(out.prefs, out.cat)
    /\ known' = IF after = "choice" /\ chain = <<>> THEN {out.prefs} ELSE known
    /\ downgraded' = (downgraded \/ (after = "choice" /\ chain # <<>>))
    /\ Done
    /\ UNCHANGED <<backup, chain, mem, counts, misread, exported>>

-----------------------------------------------------------------------------
(* The preferences view: each change of a widget stores the whole state *)

Shown == prog # "none" /\ pc = "idle"

storePreferences(p) ==
    /\ mem' = [mem EXCEPT !.prefs = p] /\ out' = [mem EXCEPT !.prefs = p]
    /\ after' = "choice" /\ Goto(IF prog = "plain" THEN "merge" ELSE "exists")
    /\ known' = known \cup {p}
    /\ exported' = FALSE
    /\ UNCHANGED <<files, prog, found, watch, starts, faults,
                   misread, downgraded>>

Choose(p) == Shown /\ choices < MaxChoices /\ choices' = choices + 1 /\ storePreferences(p)

\* The limits are preferences too: none are set in a file that lacks them.
Limits == IF mem.prefs.length = 0 THEN {0} ELSE 1..3

\* An entry and a slider; a number outside the limits is ignored.
ChooseLength(n) == n \in Limits /\ Choose([mem.prefs EXCEPT !.length = n])
ChooseTOTP(n) == Choose([mem.prefs EXCEPT !.totp = n])
ChooseColour(c) == Choose([mem.prefs EXCEPT !.colour = c])

\* Opening the view sets each slider of a length, whose OnChanged stores the
\* state unless the slider (of the Fyne library) already has that value.
OpenPreferences ==
    /\ Shown /\ choices < MaxChoices /\ choices' = choices + 1
    /\ mem.prefs.length # 0
    /\ storePreferences(mem.prefs)

\* A vault is stored, by the window or a sync session.
StoreVault ==
    /\ Shown /\ choices < MaxChoices /\ choices' = choices + 1
    /\ Goto("refresh")
    /\ UNCHANGED <<files, prog, after, mem, out, found, watch, starts, faults, hist>>

\* reloadStateFromDisk, after a sync.
Reload ==
    /\ Shown
    /\ IF prog = "plain"
       THEN /\ mem' = IF legacy.is = "cut" THEN mem ELSE LoadLegacy
            /\ UNCHANGED <<faults, misread>>
       ELSE \E s \in {Latest, DefaultState} : GetLatest(s) /\ mem' = s
    /\ UNCHANGED <<files, prog, pc, after, out, found, watch, starts, choices,
                   known, downgraded, exported>>

-----------------------------------------------------------------------------
(* History, recovery and export of the adapter *)

GetHistory == [v \in DOMAIN chain |-> extractPreferences(chain[v])]

\* Rollback stores version v once more, as the newest.
Rollback(v) ==
    /\ Shown /\ prog = "versioned" /\ choices < MaxChoices /\ choices' = choices + 1
    /\ Len(chain) < MaxVersions
    /\ chain' = Append(chain, chain[v])
    /\ mem' = State(GetHistory[v], 0)
    /\ known' = {GetHistory[v]}
    /\ exported' = FALSE
    /\ UNCHANGED <<legacy, backup, prog, pc, after, out, found, watch, starts,
                   faults, misread, downgraded>>

\* Reconstruct reads the journal, not the versions.
Reconstruct ==
    /\ Shown /\ prog = "versioned" /\ chain # <<>>
    /\ mem' = Latest
    /\ UNCHANGED <<files, prog, pc, after, out, found, watch, counts, hist>>

\* ExportToLegacy loads the state, truncates usm.json and writes it.
ExportLoad ==
    /\ Shown /\ prog = "versioned" /\ choices < MaxChoices /\ choices' = choices + 1
    /\ \E s \in {Latest, DefaultState} : GetLatest(s) /\ out' = s
    /\ Goto("export")
    /\ UNCHANGED <<files, prog, after, mem, found, watch, starts, known,
                   downgraded, exported>>

ExportTruncate ==
    /\ At("versioned", "export")
    /\ legacy' = Cut /\ exported' = FALSE
    /\ Goto("export_fill")
    /\ UNCHANGED <<backup, chain, prog, after, mem, out, found, watch, counts,
                   known, misread, downgraded>>

ExportFill ==
    /\ At("versioned", "export_fill")
    /\ legacy' = File(out.prefs, out.cat)
    /\ exported' = TRUE
    /\ Done
    /\ UNCHANGED <<backup, chain, mem, counts, known, misread, downgraded>>

-----------------------------------------------------------------------------
(* WatchAppState *)

Watching == watch.st \in {"wait", "send"}
OnlyWatch == UNCHANGED <<files, prog, pc, after, mem, out, found, counts, hist>>

\* The consumer starts it knowing the versions there are, or none.
WatchAppState ==
    /\ Shown /\ prog = "versioned" /\ watch.st = "off"
    /\ \E n \in {0, Len(chain)} :
          watch' = [NoWatch EXCEPT !.st = "wait", !.polled = n, !.got = n]
    /\ OnlyWatch

\* The library's goroutine looks at each interval and offers a newer version.
Poll ==
    /\ Watching /\ ~watch.cancel /\ watch.offer = 0
    /\ Len(chain) > watch.polled
    /\ watch' = [watch EXCEPT !.polled = Len(chain), !.offer = Len(chain)]
    /\ OnlyWatch

Take ==
    /\ watch.st = "wait" /\ watch.offer # 0
    /\ watch' = [watch EXCEPT !.st = "send", !.taken = watch.offer, !.offer = 0]
    /\ OnlyWatch

\* Mutant of Deliver: a consumer that is not waiting misses the version.
DeliverOrDrop ==
    /\ watch.st = "send" /\ ~watch.cancel
    /\ \E got \in {watch.taken, watch.got} :
          watch' = [watch EXCEPT !.st = "wait", !.taken = 0, !.got = got]
    /\ OnlyWatch

\* The unbuffered channel: the goroutine waits for the consumer, which
\* receives until it cancels.
Deliver ==
    /\ watch.st = "send" /\ ~watch.cancel
    /\ watch' = [watch EXCEPT !.st = "wait", !.taken = 0, !.got = watch.taken]
    /\ OnlyWatch

CancelWatch ==
    /\ Watching /\ ~watch.cancel
    /\ watch' = [watch EXCEPT !.cancel = TRUE]
    /\ OnlyWatch

EndWatch ==
    /\ Watching /\ watch.cancel
    /\ watch' = [NoWatch EXCEPT !.st = "closed"]
    /\ OnlyWatch

-----------------------------------------------------------------------------
\* The program is closed or dies, at any step.
Die == /\ prog # "none" /\ Stops
       /\ UNCHANGED <<files, counts, hist>>

\* A first start, or a directory of the plain program: with the defaults,
\* with a file that sets only the colour, or one older than preferences; or
\* one with a chain that an earlier version of the program left.
Init ==
    /\ \/ /\ chain = <<>>
          /\ legacy \in {Absent, File(newDefaultPreferences, 1), File(NoPreferences, 1),
                         File([length |-> 0, totp |-> 0, colour |-> 1], 0)}
       \/ /\ chain = << [length |-> 3, totp |-> 2] >>
          /\ legacy = Absent
    /\ backup = Absent
    /\ prog = "none" /\ pc = "off" /\ after = "idle"
    /\ mem = DefaultState /\ out = DefaultState /\ found = FALSE
    /\ watch = NoWatch
    /\ starts = 0 /\ faults = 0 /\ choices = 0
    /\ known = {IF chain # <<>> THEN extractPreferences(Last(chain))
                ELSE IF legacy.prefs = NoPreferences THEN newDefaultPreferences
                ELSE legacy.prefs}
    /\ misread = FALSE /\ downgraded = FALSE /\ exported = FALSE

Next ==
    \/ StartVersioned \/ ReadLegacy \/ CheckChain \/ Rename \/ Load \/ Refresh
    \/ ConfigExists \/ Write
    \/ StartPlain \/ RefreshPlain \/ TruncatePlain \/ FillPlain
    \/ \E n \in {0, 1, 3} : ChooseLength(n)
    \/ ChooseTOTP(2) \/ ChooseColour(1)
    \/ OpenPreferences \/ StoreVault \/ Reload
    \/ \E v \in DOMAIN chain : Rollback(v)
    \/ Reconstruct \/ ExportLoad \/ ExportTruncate \/ ExportFill
    \/ WatchAppState \/ Poll \/ Take \/ Deliver \/ CancelWatch \/ EndWatch
    \/ Die

\* The goroutines of the watcher run; its consumer receives until it cancels.
Fairness == WF_vars(Poll) /\ WF_vars(Take) /\ WF_vars(Deliver) /\ WF_vars(EndWatch)
Spec == Init /\ [][Next]_vars /\ Fairness

-----------------------------------------------------------------------------
(* Properties *)

IsFile(f) == \/ f \in {Absent, Cut}
             \/ f.is = "file" /\ f.prefs \in Prefs \cup {NoPreferences} /\ f.cat \in Nat

\* Every variable has its type, and no program runs without a next step.
TypeOK ==
    /\ IsFile(legacy) /\ IsFile(backup)
    /\ Len(chain) <= MaxVersions /\ \A v \in DOMAIN chain : GetHistory[v] \in Prefs
    /\ prog \in {"none", "plain", "versioned"}
    /\ pc \in {"off", "read", "check", "rename", "load", "refresh", "exists", "write",
               "idle", "merge", "fill", "export", "export_fill"}
    /\ prog = "none" <=> pc = "off"
    /\ mem.prefs \in Prefs /\ out.prefs \in Prefs
    /\ watch.st \in {"off", "wait", "send", "closed"}
    /\ watch.st # "off" => prog = "versioned"
    /\ watch.st = "send" <=> watch.taken # 0
    /\ known \subseteq Prefs

\* What the next start of the versioned program loads.
NextLoad == IF chain # <<>> THEN extractPreferences(Last(chain))
            ELSE IF legacy.is = "file" /\ legacy.prefs # NoPreferences THEN legacy.prefs
            ELSE newDefaultPreferences

\* Nothing can be loaded: usm.json was truncated and not written again, and
\* there is no chain beside it.  Only stores that truncate usm.json leave this,
\* those of the plain program and an export before the first version.
Unreadable == chain = <<>> /\ legacy.is = "cut"

\* Wherever the migration, the store of a version or an export beside a chain
\* is cut off, the next start finds the user's last choice, or the one being
\* stored, and an export holds it: as long as no read of the chain failed (an
\* error counts as no chain) and the plain program has not gone its own way
\* since.  It does not hold of a store of the plain program: one that dies
\* between truncating usm.json and writing it loses every preference, and that
\* state is left out here.
LastChoiceKept ==
    ~misread /\ ~downgraded /\ ~Unreadable
        => NextLoad \in known /\ (exported => legacy.prefs \in known)

\* A consumer that keeps receiving learns the newest version, however many
\* were stored while it was busy with an older one.
WatchSeesLatest ==
    Watching ~> watch.got = Len(chain) \/ watch.cancel \/ ~Watching \/ misread

=============================================================================
