----------------------------- MODULE CatalogueSync -----------------------------
(***************************************************************************)
(* The life of one vault on two paired peers over many sync sessions: how  *)
(* creating, editing and unlocking it move its catalogue entries, and what *)
(* the negotiation of the next session makes of them.                      *)
(*                                                                         *)
(* A peer keeps two catalogues: VaultCatalogue of usm.json, and the chain  *)
(* of config.CatalogueManager.  A program that starts with sync on has the *)
(* manager: its service reads the chain, and its storage updates it as an  *)
(* observer.  The chain begins as a copy of VaultCatalogue.  A service     *)
(* that the user starts in the preferences, or one whose manager could not *)
(* be created, has none and reads usm.json.  A session is one step here;   *)
(* SyncSession has its messages.                                           *)
(*                                                                         *)
(* The vault is the set of edits it contains, the Modified time stored in  *)
(* vault.age and its key.  Every instant of the clock is used once, so     *)
(* that times also serve as names of edits, keys and chain checksums; the   *)
(* key of a vault is named by the time it was created.                     *)
(***************************************************************************)
EXTENDS Integers, FiniteSets

CONSTANTS
    A, B,         \* the two peers
    Modes,        \* their modes: whether both are strict
    MaxClock,     \* bound: operations that read the clock
    MaxSwitches,  \* bound: restarts and changes of the sync mode
    NoVault, NoEntry

Peers == {A, B}
Other(p) == IF p = A THEN B ELSE A
Catalogues == Peers \X {"json", "chain"}
Never == 0       \* the zero time
NoSum == 0       \* no ChainCS
NoPrint == -1    \* no KeyFingerprint

Times == 0 .. MaxClock
VaultStates == [edits : SUBSET Times, modified : Times, key : Times]
EntryStates == [version : Nat \ {0}, modified : Times, chainCS : Times,
                keyFingerprint : Times \cup {NoPrint}, itemCount : {0, 1},
                created : Times, lastUnlocked : Times]

ASSUME CatalogueSyncAssumption ==
    /\ A # B /\ "none" \notin Peers
    /\ Modes \subseteq BOOLEAN /\ MaxClock \in Nat /\ MaxSwitches \in Nat
    /\ NoVault \notin VaultStates /\ NoEntry \notin EntryStates

VARIABLES
    strict,   \* whether both peers are in Strict mode
    vault,    \* the vault directory of each peer
    json,     \* its entry in usm.json
    chain,    \* its entry in the catalogue chain
    open,     \* whether its GUI has the vault unlocked in memory
    service,  \* its sync service: "none", one on usm.json, one on the chain
    observed, \* whether its GUI's storage updates the chain
    clock,
    switches,
    last,     \* history: the last session
    missed,   \* history: the catalogues <<p, c>> that some change of the vault of
              \* p, or of the peer their entry came from, did not reach
    kept      \* history: the last session left a receiver its own entry, or one
              \* did and no session has copied an entry since

told == <<missed, kept>>
vars == <<strict, vault, json, chain, open, service, observed, clock,
          switches, last, told>>

N == INSTANCE Negotiation WITH Names <- {"v"}

TypeOK ==
    /\ strict \in BOOLEAN
    /\ vault \in [Peers -> VaultStates \cup {NoVault}]
    /\ json \in [Peers -> EntryStates \cup {NoEntry}]
    /\ chain \in [Peers -> EntryStates \cup {NoEntry}]
    /\ open \in [Peers -> BOOLEAN] /\ clock \in Times
    /\ service \in [Peers -> {"none", "json", "chain"}] /\ observed \in [Peers -> BOOLEAN]
    /\ last \in [from : Peers \cup {"none"}, lost : SUBSET Times, new : SUBSET Times,
                 told : BOOLEAN]
    /\ switches \in 0 .. MaxSwitches
    /\ missed \subseteq Catalogues /\ kept \in BOOLEAN

NoSession == [from |-> "none", lost |-> {}, new |-> {}, told |-> FALSE]

Init ==
    /\ strict \in Modes
    /\ vault = [p \in Peers |-> NoVault]
    /\ json = [p \in Peers |-> NoEntry] /\ chain = [p \in Peers |-> NoEntry]
    /\ open = [p \in Peers |-> FALSE] /\ clock = 0 /\ last = NoSession
    /\ service \in [Peers -> {"none", "json", "chain"}] /\ switches = 0
    /\ observed = [p \in Peers |-> service[p] = "chain"]
    /\ missed = {} /\ kept = FALSE

--------------------------------------------------------------------------------
Tick == clock < MaxClock /\ clock' = clock + 1
Switch == switches < MaxSwitches /\ switches' = switches + 1

NewEntry(v) ==
    [version |-> 1, modified |-> v.modified, chainCS |-> NoSum, keyFingerprint |-> v.key,
     itemCount |-> 1, created |-> v.key, lastUnlocked |-> Never]

\* Mutants of UpdateVaultCatalogue: Modified is not updated; every call counts
\* as a modification.
UpdateVaultCatalogueKeepsTime(e, v) ==
    IF e = NoEntry THEN NewEntry(v)
    ELSE [e EXCEPT !.version = IF e.modified # v.modified THEN @ + 1 ELSE @]
UpdateVaultCatalogueAlwaysBumps(e, v) ==
    IF e = NoEntry THEN NewEntry(v)
    ELSE [e EXCEPT !.version = @ + 1, !.modified = v.modified]

\* usm.UpdateVaultCatalogue: a new entry is version 1; an existing one gets a
\* new version when the Modified time of the vault is not the recorded one.
\* Edits are taken to change items, so that the vault keeps its size, 1.
UpdateVaultCatalogue(e, v) ==
    IF e = NoEntry
      THEN NewEntry(v)
      ELSE [e EXCEPT !.version = IF e.modified # v.modified THEN @ + 1 ELSE @,
                     !.modified = v.modified, !.keyFingerprint = v.key, !.itemCount = 1]

\* CatalogueManager.UpdateVaultEntry: the same, then the checksum of the chain
\* just stored is stamped into the entry, whether or not the vault changed.
UpdateVaultEntry(e, v, now) == [UpdateVaultCatalogue(e, v) EXCEPT !.chainCS = now]

\* catalogueEntryRecency and mergeCatalogueEntries: what is on disk wins over
\* the entry to be stored when it is strictly more recent.
Recency(e) == LET ts == {e.modified, e.created, e.lastUnlocked}
              IN CHOOSE t \in ts : \A u \in ts : u <= t
mergeCatalogueEntries(current, incoming) ==
    IF current # NoEntry /\ Recency(current) > Recency(incoming)
      THEN current ELSE incoming

\* persistVaultCatalogue on usm.json: from StoreVault, and from LoadVault,
\* which also sets LastUnlocked.
persistVaultCatalogue(e, v, unlocked, now) ==
    LET u == UpdateVaultCatalogue(e, v)
    IN mergeCatalogueEntries(e, IF unlocked THEN [u EXCEPT !.lastUnlocked = now] ELSE u)

\* The same with the observer that the GUI may have: usm.json, then the chain.
Persist(p, v, unlocked) ==
    /\ json' = [json EXCEPT ![p] = persistVaultCatalogue(@, v, unlocked, clock')]
    /\ chain' = IF observed[p]
                  THEN [chain EXCEPT ![p] = UpdateVaultEntry(@, v, clock')] ELSE chain

\* A change of the vault of p reaches usm.json and, if observed, the chain.
Tells(p, observer) ==
    /\ missed' = IF observer THEN missed ELSE missed \cup {<<p, "chain">>}
    /\ kept' = kept

\* A vault of that name is created in the GUI, with a key of its own.
CreateVault(p) ==
    /\ vault[p] = NoVault
    /\ Tick
    /\ LET v == [edits |-> {clock'}, modified |-> clock', key |-> clock']
       IN vault' = [vault EXCEPT ![p] = v] /\ Persist(p, v, FALSE)
    /\ open' = [open EXCEPT ![p] = TRUE] /\ Tells(p, observed[p]) /\ last' = NoSession

Edited(v, now) == [v EXCEPT !.edits = @ \cup {now}, !.modified = now]

\* An item is added, edited or removed in the GUI: StoreVault with the observer.
\* The StoreAppState of the older in-memory state that follows keeps, by
\* mergeCatalogueEntries, the entry StoreVault just wrote.
EditInGUI(p) ==
    /\ open[p]
    /\ Tick
    /\ LET v == Edited(vault[p], clock')
       IN vault' = [vault EXCEPT ![p] = v] /\ Persist(p, v, FALSE)
    /\ UNCHANGED open /\ Tells(p, observed[p]) /\ last' = NoSession

\* The same on the command line: LoadVault and StoreVault of a process that has
\* no observer.  A GUI that has the vault open does not see it; that case is
\* left out.
EditInCLI(p) ==
    /\ vault[p] # NoVault /\ ~open[p]
    /\ Tick
    /\ vault' = [vault EXCEPT ![p] = Edited(@, clock')]
    /\ json' = [json EXCEPT ![p] =
                  persistVaultCatalogue(
                     persistVaultCatalogue(@, vault[p], TRUE, clock'),
                     Edited(vault[p], clock'), FALSE, clock')]
    /\ UNCHANGED <<chain, open>> /\ Tells(p, FALSE) /\ last' = NoSession

\* LoadVault in the GUI writes the catalogues too.
UnlockInGUI(p) ==
    /\ vault[p] # NoVault /\ ~open[p]
    /\ Tick
    /\ Persist(p, vault[p], TRUE)
    /\ open' = [open EXCEPT ![p] = TRUE]
    /\ UNCHANGED <<vault, told>> /\ last' = NoSession

\* lockVault forgets the decrypted vault.
LockInGUI(p) ==
    /\ open[p]
    /\ open' = [open EXCEPT ![p] = FALSE]
    /\ UNCHANGED <<vault, json, chain, clock, told>> /\ last' = NoSession

--------------------------------------------------------------------------------
\* loadCatalogue: from the chain with a manager, else from usm.json.
loadCatalogue(p) == IF service[p] = "chain" THEN chain[p] ELSE json[p]
Source(p) == <<p, IF service[p] = "chain" THEN "chain" ELSE "json">>

Going(p) == N!Direction(loadCatalogue(p), loadCatalogue(Other(p)), strict)
Conflict(p) == N!InConflict(loadCatalogue(p), loadCatalogue(Other(p)), strict)

\* Mutant of Copied: ChainCS is not copied.
CopiedWithoutSum(e, r) ==
    IF e = NoEntry THEN [r EXCEPT !.lastUnlocked = Never, !.chainCS = NoSum]
    ELSE [r EXCEPT !.created = e.created, !.lastUnlocked = e.lastUnlocked,
                   !.chainCS = e.chainCS]

\* The entry of the receiver with the announced fields of the sender's.
Copied(e, r) ==
    IF e = NoEntry THEN [r EXCEPT !.lastUnlocked = Never]
    ELSE [r EXCEPT !.created = e.created, !.lastUnlocked = e.lastUnlocked]

\* updateCatalogueAfterReceive on the entry that q syncs from.  The legacy path
\* leaves ChainCS alone and goes through StoreAppState, which merges.
AfterReceive(q, e, r) ==
    IF service[q] = "chain" THEN Copied(e, r)
    ELSE mergeCatalogueEntries(e, [Copied(e, r) EXCEPT !.chainCS = NoSum])

\* applySyncMode: a service on usm.json starts at once, or the service stops.
\* The observer stays what it was when the program started.
ApplySyncMode(p) ==
    /\ Switch
    /\ service' = [service EXCEPT ![p] = IF @ = "none" THEN "json" ELSE "none"]
    /\ UNCHANGED <<vault, json, chain, open, observed, clock, told>> /\ last' = NoSession

\* A new chain begins with the catalogue of usm.json, no entry of which has a
\* checksum; a chain that exists stays as it is.
MigrateFromLegacy(p) == IF chain[p] = NoEntry THEN json[p] ELSE chain[p]

\* The program is started again, with the vault locked: with sync on main creates
\* the manager, unless that fails, migrates, and registers the observer.
Restart(p) ==
    \E managed \in BOOLEAN :
       /\ Switch /\ (managed => service[p] # "none")
       /\ service' = [service EXCEPT ![p] = IF managed THEN "chain"
                                            ELSE IF @ = "none" THEN "none" ELSE "json"]
       /\ observed' = [observed EXCEPT ![p] = managed]
       /\ chain' = IF managed THEN [chain EXCEPT ![p] = MigrateFromLegacy(p)] ELSE chain
       /\ missed' = IF managed /\ chain[p] = NoEntry
                      THEN (missed \ {<<p, "chain">>}) \cup
                           (IF <<p, "json">> \in missed THEN {<<p, "chain">>} ELSE {})
                      ELSE missed
       /\ open' = [open EXCEPT ![p] = FALSE]
       /\ UNCHANGED <<vault, json, clock, kept>> /\ last' = NoSession

EditsOf(v) == IF v = NoVault THEN {} ELSE v.edits

\* migrateVaultCatalogueEntries: a directory that usm.json does not list gets a
\* bare entry.
Migrate(e, v, now) ==
    IF e # NoEntry \/ v = NoVault THEN e
    ELSE [version |-> 1, modified |-> now, chainCS |-> NoSum, keyFingerprint |-> NoPrint,
          itemCount |-> 0, created |-> now, lastUnlocked |-> Never]

\* A session in which p sends the vault to the other peer.  When it is over,
\* reloadStateFromDisk forgets the decrypted vaults on both sides and migrates
\* the entries of usm.json.
Send(p) ==
    LET q == Other(p)
        received == AfterReceive(q, loadCatalogue(q), loadCatalogue(p))
    IN
    /\ \A r \in Peers : service[r] # "none"
    /\ vault[p] # NoVault
    /\ Going(p) = "push"
    /\ Tick
    /\ vault' = [vault EXCEPT ![q] = vault[p]]
    /\ chain' = IF service[q] = "chain" THEN [chain EXCEPT ![q] = received] ELSE chain
    /\ json' = [r \in Peers |->
                  Migrate(IF r = q /\ service[q] # "chain" THEN received ELSE json[r],
                          vault'[r], clock')]
    /\ last' = [from |-> p, lost |-> EditsOf(vault[q]) \ EditsOf(vault[p]),
                new |-> EditsOf(vault[p]) \ EditsOf(vault[q]),
                told |-> ~kept /\ Source(p) \notin missed /\ Source(q) \notin missed]
    /\ missed' = (missed \cup {<<q, "json">>, <<q, "chain">>}) \
                    (IF Source(p) \in missed THEN {} ELSE {Source(q)})
    /\ kept' = (service[q] # "chain" /\ received = json[q])
    /\ open' = [r \in Peers |-> FALSE]

Local(p) ==
    CreateVault(p) \/ EditInGUI(p) \/ EditInCLI(p) \/ UnlockInGUI(p) \/ LockInGUI(p)

\* The bound on the clock is reached.
Exhausted == clock = MaxClock /\ (\A p \in Peers : ~open[p]) /\ UNCHANGED vars

Next ==
    \/ \E p \in Peers : (Local(p) \/ Send(p)) /\ UNCHANGED <<strict, service, observed, switches>>
    \/ \E p \in Peers : (ApplySyncMode(p) \/ Restart(p)) /\ UNCHANGED strict
    \/ Exhausted

Spec == Init /\ [][Next]_vars

--------------------------------------------------------------------------------
(* Properties *)

BothHave == vault[A] # NoVault /\ vault[B] # NoVault

\* The catalogues that a session would compare were told of every change.
Told == \A p \in Peers : Source(p) \notin missed

\* Two different vaults are never mistaken for the same one: the next session
\* moves one of them or reports a conflict, unless one of the catalogues it
\* compares missed a change (of the command line, of a program that was started
\* with sync off, or of a session on the other catalogue).
NoSilentDivergence ==
    Told /\ BothHave /\ vault[A] # vault[B] =>
       \E p \in Peers : Going(p) = "push" \/ Conflict(p)

\* A session never replaces a vault by one of its own ancestors, whichever services
\* the two peers run: if edits are lost, the sender had edits the receiver lacked.
\* Two cases are left out: a catalogue that missed a change, and a receiver that
\* kept its old entry beside the new files (mergeCatalogueEntries), whose next
\* edit then has a lower version than the vault it is an edit of.
NeverGoesBack == last.told /\ last.lost # {} => last.new # {}

\* Right after a session that moved the vault the two peers agree: the next one
\* has nothing to move and no conflict to report, unless the receiver kept its
\* old entry beside the new files.
SessionConverges ==
    last.from # "none" /\ ~kept => \A p \in Peers : Going(p) = "skip" /\ ~Conflict(p)

================================================================================
