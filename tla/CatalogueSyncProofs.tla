------------------------ MODULE CatalogueSyncProofs ------------------------
(***************************************************************************)
(* Proofs about CatalogueSync for any number of operations, restarts and   *)
(* changes of the sync mode.                                               *)
(*                                                                         *)
(* Sync looks at entries only, so what it promises rests on how far an     *)
(* entry follows the vault beside it.  The invariant compares any two      *)
(* catalogues that were told of every change (Good), of one peer or of     *)
(* two.  Each operation is one of three steps on them (Written, Touched,   *)
(* Sent), and those keep it.                                               *)
(***************************************************************************)
EXTENDS CatalogueSync, TLAPS

Kinds == {"json", "chain"}
Has(p) == vault[p] # NoVault
At(p, k) == IF k = "json" THEN json[p] ELSE chain[p]
Good(p, k) == Has(p) /\ <<p, k>> \notin missed

\* What was recorded up to the time t.
VaultsBy(t) == [edits : SUBSET (0 .. t), modified : 0 .. t, key : 0 .. t]
EntriesBy(t) == [version : Nat \ {0}, modified : 0 .. t, chainCS : 0 .. t,
                 keyFingerprint : (0 .. t) \cup {NoPrint}, itemCount : {0, 1},
                 created : 0 .. t, lastUnlocked : 0 .. t]

LastTypes == last \in [from : Peers \cup {"none"}, lost : SUBSET Times, new : SUBSET Times,
                       told : BOOLEAN]
StoreTypes == /\ vault \in [Peers -> VaultsBy(clock) \cup {NoVault}]
              /\ json \in [Peers -> EntriesBy(clock) \cup {NoEntry}]
              /\ chain \in [Peers -> EntriesBy(clock) \cup {NoEntry}]
ModeTypes == /\ strict \in BOOLEAN /\ switches \in 0 .. MaxSwitches
             /\ service \in [Peers -> {"none", "json", "chain"}]
             /\ observed \in [Peers -> BOOLEAN]
Types == /\ clock \in Times /\ open \in [Peers -> BOOLEAN]
         /\ missed \subseteq Catalogues /\ kept \in BOOLEAN
         /\ ModeTypes /\ LastTypes /\ StoreTypes

\* A vault that is there has a time, a catalogue that was told of it an entry,
\* and usm.json no checksums; what is unlocked is up to date in the catalogues
\* that the unlocking wrote.
Listed(p) ==
    /\ Has(p) => vault[p].modified \in vault[p].edits
    /\ ~Has(p) => json[p] = NoEntry /\ chain[p] = NoEntry
    /\ json[p] # NoEntry => json[p].chainCS = NoSum
    /\ \A k \in Kinds : Good(p, k) => At(p, k) # NoEntry
    /\ open[p] => /\ Has(p) /\ json[p] # NoEntry /\ json[p].modified = vault[p].modified
                  /\ observed[p] => /\ chain[p] # NoEntry
                                    /\ chain[p].modified = vault[p].modified
ListedInv == \A p \in Peers : Listed(p)

\* An entry that does not tell the time of its vault was kept by a merge or was
\* made from one that was; Reach is its version once the vault is unlocked.
Current(p, k) == At(p, k).modified = vault[p].modified
Reach(p, k) == IF Current(p, k) THEN At(p, k).version ELSE At(p, k).version + 1

\* Times and checksums name vaults, the time of an entry that is not current names
\* none, and a vault has a lower version than one with more edits.
Pair(p, k, q, l) ==
    /\ vault[p].modified = vault[q].modified => vault[p] = vault[q]
    /\ N!sameChain(At(p, k), At(q, l)) => vault[p] = vault[q]
    /\ ~Current(p, k) => At(p, k).modified # vault[q].modified
    /\ ~Current(p, k) /\ ~Current(q, l) => vault[p] = vault[q]
    /\ (p = q \/ ~kept) /\ vault[p].edits \subseteq vault[q].edits =>
          /\ Reach(p, k) <= Reach(q, l)
          /\ vault[p].edits # vault[q].edits => Reach(p, k) < Reach(q, l)
PairsInv == \A p, q \in Peers : \A k, l \in Kinds :
               Good(p, k) /\ Good(q, l) => Pair(p, k, q, l)

IInv == Types /\ ListedInv /\ PairsInv /\ NeverGoesBack /\ SessionConverges

-----------------------------------------------------------------------------
(* The operators *)

LEMMA Grows ==
    ASSUME NEW t \in Nat, NEW u \in Nat, t <= u
    PROVE  EntriesBy(t) \subseteq EntriesBy(u) /\ VaultsBy(t) \subseteq VaultsBy(u)
  <1>1. 0 .. t \subseteq 0 .. u
    OBVIOUS
  <1>2. EntriesBy(t) \subseteq EntriesBy(u)
    BY <1>1 DEF EntriesBy
  <1>3. VaultsBy(t) \subseteq VaultsBy(u)
    BY <1>1 DEF VaultsBy
  <1> QED
    BY <1>2, <1>3

\* Neither placeholder is a vault or an entry.
LEMMA Placeholders ==
    ASSUME NEW t \in Times PROVE NoVault \notin VaultsBy(t) /\ NoEntry \notin EntriesBy(t)
  <1>1. t \in Nat /\ MaxClock \in Nat /\ t <= MaxClock
    BY CatalogueSyncAssumption DEF Times
  <1>2. EntriesBy(MaxClock) = EntryStates /\ VaultsBy(MaxClock) = VaultStates
    BY DEF EntriesBy, VaultsBy, EntryStates, VaultStates, Times
  <1> QED
    BY <1>1, <1>2, Grows, CatalogueSyncAssumption

\* The recency of an entry is the last of its times.
LEMMA RecencyIsLast ==
    ASSUME NEW t \in Nat, NEW e \in EntriesBy(t)
    PROVE  /\ Recency(e) \in 0 .. t /\ e.modified <= Recency(e)
           /\ e.lastUnlocked <= Recency(e)
           /\ Recency(e) \in {e.modified, e.created, e.lastUnlocked}
  <1> DEFINE ts == {e.modified, e.created, e.lastUnlocked}
  <1>1. e.modified \in 0 .. t /\ e.created \in 0 .. t /\ e.lastUnlocked \in 0 .. t
    BY DEF EntriesBy
  <1>2. \E x \in ts : \A u \in ts : u <= x
    <2>1. CASE e.modified >= e.created /\ e.modified >= e.lastUnlocked
      BY <2>1, <1>1
    <2>2. CASE e.created >= e.modified /\ e.created >= e.lastUnlocked
      BY <2>2, <1>1
    <2>3. CASE e.lastUnlocked >= e.modified /\ e.lastUnlocked >= e.created
      BY <2>3, <1>1
    <2> QED
      BY <2>1, <2>2, <2>3, <1>1
  <1>3. Recency(e) \in ts /\ \A u \in ts : u <= Recency(e)
    BY <1>2 DEF Recency
  <1> QED
    BY <1>1, <1>3

\* UpdateVaultCatalogue makes the entry that of the vault.
LEMMA Updated ==
    ASSUME NEW t \in Nat, NEW e \in EntriesBy(t) \cup {NoEntry}, NoEntry \notin EntriesBy(t),
           NEW v \in VaultsBy(t)
    PROVE  LET u == UpdateVaultCatalogue(e, v) IN
           /\ u \in EntriesBy(t) /\ u.modified = v.modified
           /\ u.chainCS = (IF e = NoEntry THEN NoSum ELSE e.chainCS)
           /\ u.version = IF e = NoEntry THEN 1
                          ELSE IF e.modified = v.modified THEN e.version ELSE e.version + 1
  <1>1. v.modified \in 0 .. t /\ v.key \in 0 .. t
    BY DEF VaultsBy
  <1>2. CASE e = NoEntry
    BY <1>1, <1>2 DEF UpdateVaultCatalogue, NewEntry, EntriesBy, NoSum, Never
  <1>3. CASE e # NoEntry
    <2> DEFINE n == IF e.modified # v.modified THEN e.version + 1 ELSE e.version
               u == [e EXCEPT !.version = n, !.modified = v.modified,
                              !.keyFingerprint = v.key, !.itemCount = 1]
    <2>1. e \in EntriesBy(t)
      BY <1>3
    <2>2. n \in Nat \ {0}
      BY <2>1 DEF EntriesBy
    <2> HIDE DEF n
    <2>3. /\ u \in EntriesBy(t) /\ u.modified = v.modified /\ u.version = n
          /\ u.chainCS = e.chainCS
      BY <1>1, <2>1, <2>2 DEF EntriesBy
    <2>4. UpdateVaultCatalogue(e, v) = u
      BY <1>3 DEF UpdateVaultCatalogue, n
    <2> QED
      BY <1>3, <2>3, <2>4 DEF n
  <1> QED
    BY <1>2, <1>3

\* An entry that was touched now is never held back by a merge.
LEMMA MergeTakesNew ==
    ASSUME NEW t \in Nat, NEW e \in EntriesBy(t) \cup {NoEntry}, NEW u \in EntriesBy(t),
           u.modified = t \/ u.lastUnlocked = t
    PROVE  mergeCatalogueEntries(e, u) = u
  <1>1. Recency(u) = t
    <2>1. u.modified \in 0 .. t /\ u.lastUnlocked \in 0 .. t
      BY DEF EntriesBy
    <2> QED
      BY <2>1, RecencyIsLast
  <1>2. CASE e = NoEntry
    BY <1>2 DEF mergeCatalogueEntries
  <1>3. CASE e \in EntriesBy(t)
    <2>1. Recency(e) \in 0 .. t
      BY <1>3, RecencyIsLast
    <2>2. ~(Recency(e) > Recency(u))
      BY <1>1, <2>1
    <2> QED
      BY <2>2 DEF mergeCatalogueEntries
  <1> QED
    BY <1>2, <1>3

\* A store or an unlock leaves the updated entry.
LEMMA Persisted ==
    ASSUME NEW t \in Nat, NEW e \in EntriesBy(t) \cup {NoEntry}, NoEntry \notin EntriesBy(t),
           NEW v \in VaultsBy(t), NEW b \in BOOLEAN, b \/ v.modified = t
    PROVE  LET u == UpdateVaultCatalogue(e, v)
               x == persistVaultCatalogue(e, v, b, t) IN
           /\ x \in EntriesBy(t) /\ x.modified = v.modified /\ x.version = u.version
           /\ x.chainCS = u.chainCS
  <1> DEFINE u == UpdateVaultCatalogue(e, v)
             w == IF b THEN [u EXCEPT !.lastUnlocked = t] ELSE u
  <1>1. u \in EntriesBy(t) /\ u.modified = v.modified
    BY Updated
  <1>2. /\ w \in EntriesBy(t) /\ w.modified = v.modified /\ w.version = u.version
        /\ w.chainCS = u.chainCS /\ (b => w.lastUnlocked = t)
    <2> HIDE DEF u
    <2> QED
      BY <1>1 DEF EntriesBy
  <1>3. mergeCatalogueEntries(e, w) = w
    <2> HIDE DEF w
    <2> QED
      BY <1>2, MergeTakesNew
  <1>4. persistVaultCatalogue(e, v, b, t) = mergeCatalogueEntries(e, w)
    BY DEF persistVaultCatalogue
  <1> QED
    BY <1>2, <1>3, <1>4

-----------------------------------------------------------------------------
(* What the steps of a peer do to its entries *)

LEMMA TwoPeers ==
    ASSUME NEW p \in Peers
    PROVE  /\ Other(p) \in Peers /\ Other(Other(p)) = p /\ Other(p) # p
           /\ \A r \in Peers : r = p \/ r = Other(p)
  BY CatalogueSyncAssumption DEF Peers, Other

\* A tick keeps what was recorded before it.
LEMMA TickTypes ==
    ASSUME Types, Tick
    PROVE  /\ clock \in Nat /\ clock' \in Times /\ clock' \in Nat /\ clock' = clock + 1
           /\ clock' \in 0 .. clock' /\ clock' \notin 0 .. clock
           /\ vault \in [Peers -> VaultsBy(clock') \cup {NoVault}]
           /\ json \in [Peers -> EntriesBy(clock') \cup {NoEntry}]
           /\ chain \in [Peers -> EntriesBy(clock') \cup {NoEntry}]
           /\ NoEntry \notin EntriesBy(clock') /\ NoVault \notin VaultsBy(clock')
           /\ NoEntry \notin EntriesBy(clock) /\ NoVault \notin VaultsBy(clock)
  <1>1. /\ clock \in Nat /\ clock' \in Times /\ clock \in Times /\ clock' = clock + 1
        /\ clock' \in Nat
    BY CatalogueSyncAssumption DEF Types, Tick, Times
  <1>2. EntriesBy(clock) \subseteq EntriesBy(clock') /\ VaultsBy(clock) \subseteq VaultsBy(clock')
    BY <1>1, Grows
  <1>3. /\ NoEntry \notin EntriesBy(clock') /\ NoVault \notin VaultsBy(clock')
        /\ NoEntry \notin EntriesBy(clock) /\ NoVault \notin VaultsBy(clock)
    BY <1>1, Placeholders
  <1>4. clock' \in 0 .. clock' /\ clock' \notin 0 .. clock
    BY <1>1
  <1> QED
    BY <1>1, <1>2, <1>3, <1>4 DEF Types, StoreTypes

LEMMA EntryType ==
    ASSUME Types, NEW p \in Peers, NEW k \in Kinds
    PROVE  At(p, k) \in EntriesBy(clock) \cup {NoEntry}
  BY DEF Types, StoreTypes, At

LEMMA EntryFields ==
    ASSUME Types, NEW p \in Peers, NEW k \in Kinds, At(p, k) # NoEntry
    PROVE  /\ At(p, k).version \in Nat /\ At(p, k).modified \in 0 .. clock
           /\ At(p, k).chainCS \in 0 .. clock /\ At(p, k) \in EntriesBy(clock)
  <1>1. At(p, k) \in EntriesBy(clock)
    BY EntryType
  <1> QED
    BY <1>1 DEF EntriesBy

LEMMA VaultFields ==
    ASSUME Types, NEW p \in Peers, Has(p)
    PROVE  /\ vault[p].modified \in 0 .. clock /\ vault[p].edits \subseteq 0 .. clock
           /\ vault[p] \in VaultsBy(clock)
  <1>1. vault[p] \in VaultsBy(clock)
    BY DEF Types, StoreTypes, Has
  <1> QED
    BY <1>1 DEF VaultsBy

\* f is the entry e after a store or an unlock of the vault v.
Follows(f, e, v) ==
    /\ f \in EntriesBy(clock') /\ f.modified = v.modified /\ f.chainCS \in {NoSum, clock'}
    /\ f.version = IF e = NoEntry THEN 1
                   ELSE IF e.modified = v.modified THEN e.version ELSE e.version + 1

EntriesElse(p) == \A q \in Peers \ {p} : json'[q] = json[q] /\ chain'[q] = chain[q]

EntryTypes == /\ json' \in [Peers -> EntriesBy(clock') \cup {NoEntry}]
              /\ chain' \in [Peers -> EntriesBy(clock') \cup {NoEntry}]

LEMMA StoredEntry ==
    ASSUME NEW t \in Nat, t = clock', NEW e \in EntriesBy(t) \cup {NoEntry},
           NoEntry \notin EntriesBy(t), e # NoEntry => e.chainCS = NoSum,
           NEW v \in VaultsBy(t), NEW b \in BOOLEAN, b \/ v.modified = t
    PROVE  LET j == persistVaultCatalogue(e, v, b, t) IN
           Follows(j, e, v) /\ j.chainCS = NoSum
  <1> DEFINE w == UpdateVaultCatalogue(e, v)
             j == persistVaultCatalogue(e, v, b, t)
  <1>1. /\ w.chainCS = (IF e = NoEntry THEN NoSum ELSE e.chainCS)
        /\ w.version = IF e = NoEntry THEN 1
                       ELSE IF e.modified = v.modified THEN e.version ELSE e.version + 1
    BY Updated
  <1>2. /\ j \in EntriesBy(t) /\ j.modified = v.modified /\ j.version = w.version
        /\ j.chainCS = w.chainCS
    BY Persisted
  <1> HIDE DEF j, w
  <1>3. Follows(j, e, v) /\ j.chainCS = NoSum
    BY <1>1, <1>2 DEF Follows
  <1> QED
    BY <1>3 DEF j

LEMMA ChainedEntry ==
    ASSUME NEW t \in Nat, t = clock', NEW e \in EntriesBy(t) \cup {NoEntry},
           NoEntry \notin EntriesBy(t), NEW v \in VaultsBy(t)
    PROVE  Follows(UpdateVaultEntry(e, v, t), e, v)
  <1> DEFINE u == UpdateVaultCatalogue(e, v)
             c == UpdateVaultEntry(e, v, t)
  <1>1. /\ u \in EntriesBy(t) /\ u.modified = v.modified
        /\ u.version = IF e = NoEntry THEN 1
                       ELSE IF e.modified = v.modified THEN e.version ELSE e.version + 1
    BY Updated
  <1>2. c = [u EXCEPT !.chainCS = t]
    BY DEF UpdateVaultEntry
  <1>3. t \in 0 .. t
    OBVIOUS
  <1> HIDE DEF u, c
  <1>4. c \in EntriesBy(t) /\ c.modified = u.modified /\ c.chainCS = t /\ c.version = u.version
    BY <1>1, <1>2, <1>3 DEF EntriesBy
  <1>5. Follows(c, e, v)
    BY <1>1, <1>4 DEF Follows
  <1> QED
    BY <1>5 DEF c

LEMMA PersistStep ==
    ASSUME Types, ListedInv, Tick, NEW p \in Peers, NEW v \in VaultsBy(clock'),
           NEW b \in BOOLEAN, b \/ v.modified = clock', Persist(p, v, b)
    PROVE  /\ EntryTypes /\ EntriesElse(p)
           /\ Follows(json'[p], json[p], v) /\ json'[p].chainCS = NoSum
           /\ json'[p] # NoEntry
           /\ observed[p] => Follows(chain'[p], chain[p], v) /\ chain'[p] # NoEntry
           /\ ~observed[p] => chain'[p] = chain[p]
  <1> DEFINE t == clock'
             j == persistVaultCatalogue(json[p], v, b, t)
             c == UpdateVaultEntry(chain[p], v, t)
  <1>1. /\ t \in Nat /\ NoEntry \notin EntriesBy(t)
        /\ json \in [Peers -> EntriesBy(t) \cup {NoEntry}]
        /\ chain \in [Peers -> EntriesBy(t) \cup {NoEntry}]
    BY TickTypes
  <1>2. Follows(j, json[p], v) /\ j.chainCS = NoSum
    <2>1. json[p] # NoEntry => json[p].chainCS = NoSum
      BY DEF ListedInv, Listed
    <2> QED
      BY <1>1, <2>1, StoredEntry
  <1>3. Follows(c, chain[p], v)
    BY <1>1, ChainedEntry
  <1>4. /\ json' = [json EXCEPT ![p] = j]
        /\ chain' = IF observed[p] THEN [chain EXCEPT ![p] = c] ELSE chain
    BY DEF Persist
  <1>5. j \in EntriesBy(t) /\ c \in EntriesBy(t)
    BY <1>2, <1>3 DEF Follows
  <1> HIDE DEF j, c, t
  <1>6. EntryTypes
    BY <1>1, <1>4, <1>5 DEF EntryTypes, t
  <1>7. EntriesElse(p)
    BY <1>1, <1>4 DEF EntriesElse
  <1>8. /\ json'[p] = j /\ (observed[p] => chain'[p] = c)
        /\ (~observed[p] => chain'[p] = chain[p])
    BY <1>1, <1>4
  <1> QED
    BY <1>1, <1>2, <1>3, <1>5, <1>6, <1>7, <1>8

-----------------------------------------------------------------------------
(* What the steps of the system are to the invariant *)

Untouched(q) ==
    /\ vault'[q] = vault[q] /\ json'[q] = json[q] /\ chain'[q] = chain[q]
    /\ open'[q] = open[q] /\ observed'[q] = observed[q]
    /\ \A k \in Kinds : <<q, k>> \in missed' <=> <<q, k>> \in missed

\* The vault of p is created or edited.
Written(p) ==
    /\ Untouched(Other(p)) /\ kept' = kept
    /\ vault'[p] \in VaultsBy(clock') /\ vault'[p].modified = clock'
    /\ vault'[p].edits = EditsOf(vault[p]) \cup {clock'}
    /\ \A k \in Kinds : <<p, k>> \notin missed' =>
          /\ <<p, k>> \notin missed
          /\ At(p, k)'.modified = clock' /\ At(p, k)'.chainCS \in {NoSum, clock'}
          /\ At(p, k)'.version = IF Has(p) THEN Reach(p, k) + 1 ELSE 1

\* It stays as it is, and each catalogue that was told of it has an entry of one
\* that was, or one that an unlock updated.
Refreshed(f, p, l) ==
    /\ f.modified = vault[p].modified /\ f.version = Reach(p, l)
    /\ f.chainCS = NoSum \/ (Tick /\ f.chainCS = clock')
Touched(p) ==
    /\ Untouched(Other(p)) /\ UNCHANGED <<vault, kept>>
    /\ \A k \in Kinds : <<p, k>> \notin missed' =>
          \E l \in Kinds : /\ <<p, l>> \notin missed
                           /\ At(p, k)' = At(p, l) \/ Refreshed(At(p, k)', p, l)

\* It is sent, and at most one catalogue of the other peer is told: with the
\* version and the time of the sender, or else it is kept.
Sent(p) ==
    LET q == Other(p) IN
    /\ Has(p) /\ vault'[p] = vault[p] /\ vault'[q] = vault[p]
    /\ \A k \in Kinds : <<p, k>> \notin missed' => <<p, k>> \notin missed /\ At(p, k)' = At(p, k)
    /\ \A k, l \in Kinds : <<q, k>> \notin missed' /\ <<q, l>> \notin missed' => k = l
    /\ \A l \in Kinds : <<q, l>> \notin missed' /\ ~kept' =>
          \E k \in Kinds : /\ <<p, k>> \notin missed'
                           /\ At(q, l)'.version = At(p, k).version
                           /\ At(q, l)'.modified = At(p, k).modified

LEMMA UntouchedPeer ==
    ASSUME NEW q, Untouched(q)
    PROVE  /\ Has(q)' <=> Has(q)
           /\ Listed(q) => Listed(q)'
           /\ \A k \in Kinds : /\ Good(q, k)' <=> Good(q, k)
                               /\ At(q, k)' = At(q, k)
                               /\ Current(q, k)' <=> Current(q, k)
                               /\ Reach(q, k)' = Reach(q, k)
  <1>1. Has(q)' <=> Has(q)
    BY DEF Untouched, Has
  <1>2. ASSUME NEW k \in Kinds
        PROVE  /\ Good(q, k)' <=> Good(q, k)
               /\ At(q, k)' = At(q, k)
               /\ Current(q, k)' <=> Current(q, k)
               /\ Reach(q, k)' = Reach(q, k)
    <2>1. At(q, k)' = At(q, k)
      BY DEF Untouched, At
    <2>2. Good(q, k)' <=> Good(q, k)
      BY <1>1 DEF Untouched, Good
    <2>3. Current(q, k)' <=> Current(q, k)
      BY <2>1 DEF Untouched, Current
    <2>4. Reach(q, k)' = Reach(q, k)
      BY <2>1, <2>3 DEF Reach
    <2> QED
      BY <2>1, <2>2, <2>3, <2>4
  <1>3. Listed(q) => Listed(q)'
    BY <1>1, <1>2 DEF Listed, Untouched
  <1> QED
    BY <1>1, <1>2, <1>3

\* A catalogue that was told has an entry of its type.
LEMMA GoodEntry ==
    ASSUME Types, ListedInv, NEW p \in Peers, NEW k \in Kinds, Good(p, k)
    PROVE  /\ Has(p) /\ At(p, k) # NoEntry /\ At(p, k).version \in Nat
           /\ At(p, k).modified \in 0 .. clock /\ At(p, k).chainCS \in 0 .. clock
           /\ Reach(p, k) \in Nat
           /\ vault[p].modified \in 0 .. clock /\ vault[p].edits \subseteq 0 .. clock
           /\ vault[p].modified \in vault[p].edits
  <1>1. Has(p) /\ At(p, k) # NoEntry /\ vault[p].modified \in vault[p].edits
    BY DEF ListedInv, Listed, Good
  <1>2. At(p, k).version \in Nat
    BY <1>1, EntryFields
  <1>3. Reach(p, k) \in Nat
    BY <1>2 DEF Reach
  <1> QED
    BY <1>1, <1>3, EntryFields, VaultFields

\* Two entries, one of them without a checksum or with one of its own.
LEMMA NewSums ==
    ASSUME NEW e, NEW f, NEW t \in Nat, e.chainCS \in 0 .. t,
           f.chainCS \in {NoSum, t + 1}
    PROVE  ~N!sameChain(e, f) /\ ~N!sameChain(f, e)
  BY DEF N!sameChain, N!bothStamped

LEMMA WrittenKeeps ==
    ASSUME Types, ListedInv, Tick, PairsInv, NEW p \in Peers, Written(p)
    PROVE  PairsInv'
  <1> DEFINE q == Other(p)
  <1>1. q \in Peers /\ p # q /\ \A r \in Peers : r = p \/ r = q
    BY TwoPeers
  <1>2. clock \in Nat /\ clock' = clock + 1 /\ clock' \notin 0 .. clock
    BY TickTypes
  <1>3. /\ Untouched(q) /\ kept' = kept /\ vault'[p].modified = clock'
        /\ vault'[p].edits = EditsOf(vault[p]) \cup {clock'}
        /\ vault'[q] = vault[q]
    BY DEF Written, Untouched
  <1> HIDE DEF q
  <1>4. ASSUME NEW k \in Kinds, Good(q, k)'
        PROVE  /\ Good(q, k) /\ At(q, k)' = At(q, k)
               /\ Current(q, k)' <=> Current(q, k)
               /\ Reach(q, k)' = Reach(q, k)
    BY <1>3, <1>4, UntouchedPeer
  <1>5. ASSUME NEW k \in Kinds, Good(p, k)'
        PROVE  /\ At(p, k)'.modified = clock' /\ At(p, k)'.chainCS \in {NoSum, clock'}
               /\ Current(p, k)'
               /\ Has(p) => Good(p, k) /\ Reach(p, k)' = Reach(p, k) + 1
               /\ ~Has(p) => Reach(p, k)' = 1
    <2>1. <<p, k>> \notin missed'
      BY <1>5 DEF Good
    <2>2. /\ <<p, k>> \notin missed
          /\ At(p, k)'.modified = clock' /\ At(p, k)'.chainCS \in {NoSum, clock'}
          /\ At(p, k)'.version = IF Has(p) THEN Reach(p, k) + 1 ELSE 1
      BY <2>1 DEF Written
    <2>3. Current(p, k)'
      BY <2>2, <1>3 DEF Current
    <2>4. Reach(p, k)' = At(p, k)'.version
      BY <2>3 DEF Reach
    <2> QED
      BY <2>2, <2>3, <2>4 DEF Good
  <1> SUFFICES ASSUME NEW r \in Peers, NEW s \in Peers, NEW k \in Kinds, NEW l \in Kinds,
                      Good(r, k)', Good(s, l)'
               PROVE  Pair(r, k, s, l)'
    BY DEF PairsInv
  <1>6. CASE r = p /\ s = p
    <2>1. Reach(p, k)' <= Reach(p, l)'
      <3>1. CASE Has(p)
        <4>1. /\ Good(p, k) /\ Good(p, l) /\ Reach(p, k)' = Reach(p, k) + 1
              /\ Reach(p, l)' = Reach(p, l) + 1
          BY <3>1, <1>5, <1>6
        <4>2. Reach(p, k) <= Reach(p, l)
          BY <4>1 DEF PairsInv, Pair
        <4> QED
          BY <4>1, <4>2, GoodEntry
      <3>2. CASE ~Has(p)
        BY <3>2, <1>5, <1>6
      <3> QED
        BY <3>1, <3>2
    <2>2. Current(p, k)'
      BY <1>5, <1>6
    <2> QED
      BY <2>1, <2>2, <1>6 DEF Pair
  <1>7. CASE r = q /\ s = q
    <2>1. Good(q, k) /\ Good(q, l) /\ Reach(q, k)' = Reach(q, k) /\ Reach(q, l)' = Reach(q, l)
      BY <1>4, <1>7
    <2>2. Reach(q, k) <= Reach(q, l)
      BY <1>1, <2>1 DEF PairsInv, Pair
    <2>3. (~Current(q, k) => At(q, k).modified # vault[q].modified)'
      BY DEF Current
    <2> QED
      BY <2>1, <2>2, <2>3, <1>7 DEF Pair
  <1>8. CASE r = p /\ s = q
    <2>1. /\ Good(q, l) /\ At(q, l)' = At(q, l) /\ Current(p, k)'
          /\ At(p, k)'.chainCS \in {NoSum, clock'}
      BY <1>4, <1>5, <1>8
    <2>2. /\ At(q, l).chainCS \in 0 .. clock /\ vault[q].modified \in 0 .. clock
          /\ vault[q].edits \subseteq 0 .. clock
      BY <1>1, <2>1, GoodEntry
    <2>3. vault'[p].modified # vault'[q].modified
      BY <1>2, <1>3, <2>2
    <2>4. ~N!sameChain(At(p, k), At(q, l))'
      <3>1. ~N!sameChain(At(p, k)', At(q, l)')
        BY <1>2, <2>1, <2>2, NewSums
      <3> QED
        BY <3>1
    <2>5. ~(vault'[p].edits \subseteq vault'[q].edits)
      BY <1>2, <1>3, <2>2
    <2> QED
      BY <2>1, <2>3, <2>4, <2>5, <1>8 DEF Pair
  <1>9. CASE r = q /\ s = p
    <2>1. /\ Good(q, k) /\ At(q, k)' = At(q, k) /\ Current(p, l)' /\ Reach(q, k)' = Reach(q, k)
          /\ At(p, l)'.chainCS \in {NoSum, clock'}
      BY <1>4, <1>5, <1>9
    <2>2. /\ At(q, k).chainCS \in 0 .. clock /\ vault[q].modified \in 0 .. clock
          /\ vault[q].edits \subseteq 0 .. clock /\ At(q, k).modified \in 0 .. clock
          /\ vault[q].modified \in vault[q].edits /\ Reach(q, k) \in Nat
      BY <1>1, <2>1, GoodEntry
    <2>3. /\ vault'[p].modified # vault'[q].modified
          /\ At(q, k)'.modified # vault'[p].modified
      BY <1>2, <1>3, <2>1, <2>2
    <2>4. ~N!sameChain(At(q, k), At(p, l))'
      <3>1. ~N!sameChain(At(q, k)', At(p, l)')
        BY <1>2, <2>1, <2>2, NewSums
      <3> QED
        BY <3>1
    <2>5. ASSUME ~kept, vault[q].edits \subseteq vault'[p].edits
          PROVE  Reach(q, k)' < Reach(p, l)'
      <3>1. vault[q].edits \subseteq EditsOf(vault[p])
        BY <1>2, <1>3, <2>2, <2>5
      <3>2. Has(p) /\ EditsOf(vault[p]) = vault[p].edits
        BY <3>1, <2>2 DEF EditsOf, Has
      <3>3. Good(p, l) /\ Reach(p, l)' = Reach(p, l) + 1
        BY <3>2, <1>5, <1>9
      <3>4. Reach(q, k) <= Reach(p, l)
        BY <1>1, <2>1, <2>5, <3>1, <3>2, <3>3 DEF PairsInv, Pair
      <3> QED
        BY <2>1, <2>2, <3>3, <3>4, GoodEntry
    <2>6. (~kept /\ vault[q].edits \subseteq vault[p].edits => Reach(q, k) < Reach(p, l))'
      BY <2>5, <1>3
    <2>7. Reach(q, k)' \in Nat /\ (~kept' /\ vault'[q].edits \subseteq vault'[p].edits
                                    => Reach(q, k)' <= Reach(p, l)')
      <3>1. ASSUME ~kept', vault'[q].edits \subseteq vault'[p].edits
            PROVE  Reach(q, k)' <= Reach(p, l)'
        <4>1. Reach(p, l)' \in Nat
          BY <1>5, <1>9, GoodEntry
        <4>2. Reach(q, k)' < Reach(p, l)'
          BY <2>6, <3>1
        <4> QED
          BY <4>1, <4>2, <2>1, <2>2
      <3> QED
        BY <3>1, <2>1, <2>2
    <2> QED
      BY <1>1, <2>1, <2>3, <2>4, <2>6, <2>7, <1>9 DEF Pair
  <1> QED
    BY <1>1, <1>6, <1>7, <1>8, <1>9

LEMMA TouchedKeeps ==
    ASSUME Types, ListedInv, PairsInv, NEW p \in Peers, Touched(p)
    PROVE  PairsInv'
  <1> DEFINE q == Other(p)
             From(r, k, l) == At(r, k)' = At(r, l) \/ (r = p /\ Refreshed(At(r, k)', p, l))
  <1>1. q \in Peers /\ p # q /\ \A r \in Peers : r = p \/ r = q
    BY TwoPeers
  <1>2. Untouched(q) /\ kept' = kept /\ vault' = vault
    BY DEF Touched
  <1> HIDE DEF q
  <1>3. ASSUME NEW r \in Peers, NEW k \in Kinds, Good(r, k)'
        PROVE  \E l \in Kinds : Good(r, l) /\ From(r, k, l)
    <2>1. CASE r = p
      <3>1. \E l \in Kinds : /\ <<p, l>> \notin missed
                             /\ At(p, k)' = At(p, l) \/ Refreshed(At(p, k)', p, l)
        BY <1>3, <2>1 DEF Touched, Good
      <3>2. Has(p)
        BY <1>2, <1>3, <2>1 DEF Good, Has
      <3> QED
        BY <3>1, <3>2, <2>1 DEF Good
    <2>2. CASE r = q
      BY <1>2, <1>3, <2>2, UntouchedPeer
    <2> QED
      BY <1>1, <2>1, <2>2
  <1>4. ASSUME NEW r \in Peers, NEW k \in Kinds, NEW l \in Kinds, From(r, k, l)
        PROVE  /\ Reach(r, k)' = Reach(r, l)
               /\ ~Current(r, k)' => ~Current(r, l) /\ At(r, k)'.modified = At(r, l).modified
    <2>1. CASE At(r, k)' = At(r, l)
      <3>1. Current(r, k)' <=> Current(r, l)
        BY <2>1, <1>2 DEF Current
      <3> QED
        BY <2>1, <3>1 DEF Reach
    <2>2. CASE r = p /\ Refreshed(At(r, k)', p, l)
      <3>1. At(r, k)'.modified = vault[r].modified /\ At(r, k)'.version = Reach(r, l)
        BY <2>2 DEF Refreshed
      <3>2. Current(r, k)'
        BY <3>1, <1>2 DEF Current
      <3> QED
        BY <3>1, <3>2 DEF Reach
    <2> QED
      BY <1>4, <2>1, <2>2
  <1>5. ASSUME NEW k \in Kinds, NEW l \in Kinds, NEW m \in Kinds, Good(p, m), From(p, k, m),
               Good(q, l), N!sameChain(At(p, k)', At(q, l)) \/ N!sameChain(At(q, l), At(p, k)')
        PROVE  vault[p] = vault[q]
    <2>1. CASE At(p, k)' = At(p, m)
      <3>1. Pair(p, m, q, l) /\ Pair(q, l, p, m)
        BY <1>1, <1>5 DEF PairsInv
      <3> QED
        BY <2>1, <3>1, <1>5 DEF Pair
    <2>2. CASE Refreshed(At(p, k)', p, m)
      <3>1. At(q, l).chainCS \in 0 .. clock
        BY <1>1, <1>5, GoodEntry
      <3>2. clock \in Nat
        BY CatalogueSyncAssumption DEF Types, Times
      <3>3. At(p, k)'.chainCS \in {NoSum, clock + 1}
        BY <2>2 DEF Refreshed, Tick
      <3> QED
        BY <3>1, <3>2, <3>3, <1>5, NewSums
    <2> QED
      BY <1>5, <2>1, <2>2
  <1> SUFFICES ASSUME NEW r \in Peers, NEW s \in Peers, NEW k \in Kinds, NEW l \in Kinds,
                      Good(r, k)', Good(s, l)'
               PROVE  Pair(r, k, s, l)'
    BY DEF PairsInv
  <1>6. PICK m \in Kinds : Good(r, m) /\ From(r, k, m)
    BY <1>3
  <1>7. PICK n \in Kinds : Good(s, n) /\ From(s, l, n)
    BY <1>3
  <1>8. /\ Reach(r, k)' = Reach(r, m) /\ Reach(s, l)' = Reach(s, n)
        /\ ~Current(r, k)' => ~Current(r, m) /\ At(r, k)'.modified = At(r, m).modified
        /\ ~Current(s, l)' => ~Current(s, n)
    BY <1>4, <1>6, <1>7
  <1>9. N!sameChain(At(r, k)', At(s, l)') => vault[r] = vault[s]
    <2>1. CASE r = s
      BY <2>1
    <2>2. CASE r = p /\ s = q
      <3>1. At(q, l)' = At(q, l) /\ Good(q, l)
        BY <1>2, <2>2, UntouchedPeer
      <3> QED
        BY <3>1, <2>2, <1>5, <1>6
    <2>3. CASE r = q /\ s = p
      <3>1. At(q, k)' = At(q, k) /\ Good(q, k)
        BY <1>2, <2>3, UntouchedPeer
      <3> QED
        BY <3>1, <2>3, <1>5, <1>7
    <2> QED
      BY <1>1, <2>1, <2>2, <2>3
  <1> HIDE DEF From
  <1>10. Pair(r, m, s, n)
    BY <1>6, <1>7 DEF PairsInv
  <1>11. N!sameChain(At(r, k), At(s, l))' => vault[r] = vault[s]
    BY <1>9
  <1> QED
    BY <1>2, <1>8, <1>10, <1>11 DEF Pair

LEMMA SentKeeps ==
    ASSUME Types, ListedInv, Types', ListedInv', PairsInv, NEW p \in Peers, Sent(p)
    PROVE  PairsInv'
  <1> DEFINE q == Other(p)
  <1>1. q \in Peers /\ p # q /\ \A r \in Peers : r = p \/ r = q
    BY TwoPeers
  <1>2. \A r \in Peers : vault'[r] = vault[p]
    BY <1>1 DEF Sent
  <1>3. ASSUME NEW k \in Kinds, Good(p, k)'
        PROVE  Good(p, k) /\ Reach(p, k)' = Reach(p, k)
    <2>1. Good(p, k) /\ At(p, k)' = At(p, k)
      BY <1>3 DEF Sent, Good
    <2>2. Current(p, k)' <=> Current(p, k)
      BY <1>2, <2>1 DEF Current
    <2> QED
      BY <2>1, <2>2 DEF Reach
  <1>4. ASSUME NEW l \in Kinds, Good(q, l)', ~kept'
        PROVE  \E k \in Kinds : Good(p, k) /\ Reach(q, l)' = Reach(p, k)
    <2>1. PICK k \in Kinds : /\ <<p, k>> \notin missed'
                             /\ At(q, l)'.version = At(p, k).version
                             /\ At(q, l)'.modified = At(p, k).modified
      BY <1>4 DEF Sent, Good
    <2>2. Good(p, k)
      BY <2>1 DEF Sent, Good
    <2>3. Current(q, l)' <=> Current(p, k)
      BY <1>1, <1>2, <2>1 DEF Current
    <2> QED
      BY <2>1, <2>2, <2>3 DEF Reach
  <1>5. \A k, l \in Kinds : Good(q, k)' /\ Good(q, l)' => k = l
    BY DEF Sent, Good
  <1>6. ASSUME NEW k \in Kinds, NEW l \in Kinds, Good(p, k), Good(p, l)
        PROVE  Reach(p, k) <= Reach(p, l)
    BY <1>6 DEF PairsInv, Pair
  <1> HIDE DEF q
  <1> SUFFICES ASSUME NEW r \in Peers, NEW s \in Peers, NEW k \in Kinds, NEW l \in Kinds,
                      Good(r, k)', Good(s, l)'
               PROVE  Pair(r, k, s, l)'
    BY DEF PairsInv
  <1>7. vault'[r] = vault'[s]
    BY <1>2
  <1>8. r = s \/ ~kept' => Reach(r, k)' <= Reach(s, l)'
    <2>1. CASE r = p /\ s = p
      BY <2>1, <1>3, <1>6
    <2>2. CASE r = q /\ s = q
      <3>1. k = l /\ Reach(q, k)' \in Nat
        <4>1. Reach(q, k)' \in Nat
          <5>1. At(q, k)' \in EntriesBy(clock') \cup {NoEntry}
            BY <1>1 DEF Types, StoreTypes, At
          <5>2. At(q, k)' # NoEntry
            BY <1>1, <2>2 DEF ListedInv, Listed
          <5>3. At(q, k)'.version \in Nat
            BY <5>1, <5>2 DEF EntriesBy
          <5> QED
            BY <5>3 DEF Reach
        <4> QED
          BY <4>1, <2>2, <1>5
      <3> QED
        BY <3>1, <2>2
    <2>3. CASE r = p /\ s = q
      BY <2>3, <1>1, <1>3, <1>4, <1>6
    <2>4. CASE r = q /\ s = p
      BY <2>4, <1>1, <1>3, <1>4, <1>6
    <2> QED
      BY <1>1, <2>1, <2>2, <2>3, <2>4
  <1>9. (~Current(r, k) => At(r, k).modified # vault[s].modified)'
    BY <1>7 DEF Current
  <1> QED
    BY <1>7, <1>8, <1>9 DEF Pair

-----------------------------------------------------------------------------
(* The operations of one peer *)

SameModes == UNCHANGED <<strict, service, observed, switches>>

LEMMA NoSessionType == NoSession \in [from : Peers \cup {"none"}, lost : SUBSET Times,
                                      new : SUBSET Times, told : BOOLEAN]
  BY DEF NoSession

\* A store in the GUI: a new vault, or an edit of one that is unlocked.
LEMMA StoreStep ==
    ASSUME Types, ListedInv, SameModes, Tick, NEW p \in Peers, NEW v \in VaultsBy(clock'),
           v.modified = clock', v.edits = EditsOf(vault[p]) \cup {clock'},
           Has(p) => open[p], vault' = [vault EXCEPT ![p] = v], Persist(p, v, FALSE),
           open' = [open EXCEPT ![p] = TRUE], Tells(p, observed[p]), last' = NoSession
    PROVE  Types' /\ ListedInv' /\ Written(p)
  <1> DEFINE q == Other(p)
  <1>1. q \in Peers /\ p # q /\ \A r \in Peers : r = p \/ r = q
    BY TwoPeers
  <1>2. /\ EntryTypes /\ EntriesElse(p)
        /\ Follows(json'[p], json[p], v) /\ json'[p].chainCS = NoSum /\ json'[p] # NoEntry
        /\ observed[p] => Follows(chain'[p], chain[p], v) /\ chain'[p] # NoEntry
        /\ ~observed[p] => chain'[p] = chain[p]
    BY PersistStep
  <1>3. /\ clock \in Nat /\ clock' \in Times /\ clock' \notin 0 .. clock
        /\ vault \in [Peers -> VaultsBy(clock') \cup {NoVault}] /\ NoVault \notin VaultsBy(clock')
    BY TickTypes
  <1>4. /\ vault' \in [Peers -> VaultsBy(clock') \cup {NoVault}]
        /\ vault'[p] = v /\ vault'[q] = vault[q] /\ v # NoVault
    BY <1>1, <1>3
  <1>5. /\ missed' = IF observed[p] THEN missed ELSE missed \cup {<<p, "chain">>}
        /\ kept' = kept /\ missed' \subseteq Catalogues
    BY DEF Tells, Types, Catalogues
  <1>6. /\ open' \in [Peers -> BOOLEAN] /\ open'[p] = TRUE /\ open'[q] = open[q]
        /\ observed' = observed
    BY <1>1 DEF Types, SameModes
  <1> HIDE DEF q
  <1>7. Types'
    <2>1. StoreTypes'
      BY <1>2, <1>4 DEF StoreTypes, EntryTypes
    <2>2. LastTypes'
      BY NoSessionType DEF LastTypes
    <2>3. ModeTypes'
      BY DEF Types, ModeTypes, SameModes
    <2>4. kept' \in BOOLEAN
      BY <1>5 DEF Types
    <2> QED
      BY <2>1, <2>2, <2>3, <2>4, <1>3, <1>5, <1>6 DEF Types
  <1>8. Untouched(q)
    <2>1. json'[q] = json[q] /\ chain'[q] = chain[q]
      BY <1>1, <1>2 DEF EntriesElse
    <2>2. \A k \in Kinds : <<q, k>> \in missed' <=> <<q, k>> \in missed
      BY <1>1, <1>5
    <2> QED
      BY <2>1, <2>2, <1>4, <1>6 DEF Untouched
  <1>9. Listed(p)'
    <2>1. Has(p)' /\ vault'[p].modified \in vault'[p].edits
      BY <1>4 DEF Has
    <2>2. ASSUME NEW k \in Kinds, <<p, k>> \notin missed' PROVE At(p, k)' # NoEntry
      BY <2>2, <1>2, <1>5 DEF At, Kinds
    <2>3. json'[p].modified = v.modified /\ (observed[p] => chain'[p].modified = v.modified)
      BY <1>2 DEF Follows
    <2> QED
      BY <2>1, <2>2, <2>3, <1>2, <1>4, <1>6 DEF Listed, Good
  <1>10. ListedInv'
    <2>1. Listed(q)'
      BY <1>1, <1>8, UntouchedPeer DEF ListedInv
    <2> QED
      BY <2>1, <1>1, <1>9 DEF ListedInv
  <1>11. ASSUME NEW f, NEW k \in Kinds, Follows(f, At(p, k), v),
                Has(p) => At(p, k) # NoEntry /\ Current(p, k)
         PROVE  /\ f.modified = clock' /\ f.chainCS \in {NoSum, clock'}
                /\ f.version = IF Has(p) THEN Reach(p, k) + 1 ELSE 1
    <2>1. f.modified = clock' /\ f.chainCS \in {NoSum, clock'}
      BY <1>11 DEF Follows
    <2>2. CASE Has(p)
      <3>1. At(p, k).modified \in 0 .. clock
        BY <1>11, <2>2, EntryFields
      <3>2. f.version = At(p, k).version + 1
        BY <1>3, <1>11, <2>2, <3>1 DEF Follows
      <3> QED
        BY <2>1, <2>2, <3>2, <1>11 DEF Reach
    <2>3. CASE ~Has(p)
      <3>1. At(p, k) = NoEntry
        BY <2>3 DEF ListedInv, Listed, At
      <3> QED
        BY <2>1, <2>3, <3>1, <1>11 DEF Follows
    <2> QED
      BY <2>2, <2>3
  <1>12. ASSUME NEW k \in Kinds, <<p, k>> \notin missed'
         PROVE  /\ <<p, k>> \notin missed
                /\ At(p, k)'.modified = clock' /\ At(p, k)'.chainCS \in {NoSum, clock'}
                /\ At(p, k)'.version = IF Has(p) THEN Reach(p, k) + 1 ELSE 1
    <2>1. <<p, k>> \notin missed /\ (k = "chain" => observed[p])
      BY <1>5, <1>12
    <2>2. Follows(At(p, k)', At(p, k), v)
      BY <1>2, <2>1 DEF At, Kinds
    <2>3. Has(p) => At(p, k) # NoEntry /\ Current(p, k)
      BY <2>1 DEF ListedInv, Listed, At, Current, Kinds
    <2> QED
      BY <2>1, <2>2, <2>3, <1>11
  <1>13. Written(p)
    BY <1>4, <1>5, <1>8, <1>12 DEF Written, q
  <1> QED
    BY <1>7, <1>10, <1>13

\* What an edit makes of a vault.
LEMMA EditedVault ==
    ASSUME Types, Tick, NEW p \in Peers, Has(p)
    PROVE  LET v == Edited(vault[p], clock') IN
           /\ v \in VaultsBy(clock') /\ v.modified = clock'
           /\ v.edits = EditsOf(vault[p]) \cup {clock'}
  <1>1. vault[p] \in VaultsBy(clock') /\ clock' \in 0 .. clock'
    BY TickTypes DEF Has
  <1> QED
    BY <1>1 DEF Edited, VaultsBy, EditsOf, Has

LEMMA CreateStep ==
    ASSUME Types, ListedInv, SameModes, NEW p \in Peers, CreateVault(p)
    PROVE  Types' /\ ListedInv' /\ Written(p)
  <1> DEFINE v == [edits |-> {clock'}, modified |-> clock', key |-> clock']
  <1>1. /\ ~Has(p) /\ Tick /\ vault' = [vault EXCEPT ![p] = v] /\ Persist(p, v, FALSE)
        /\ open' = [open EXCEPT ![p] = TRUE] /\ Tells(p, observed[p]) /\ last' = NoSession
    BY DEF CreateVault, Has
  <1>2. clock' \in 0 .. clock'
    BY <1>1, TickTypes
  <1>3. /\ v \in VaultsBy(clock') /\ v.modified = clock'
        /\ v.edits = EditsOf(vault[p]) \cup {clock'}
    BY <1>1, <1>2 DEF VaultsBy, EditsOf, Has
  <1> HIDE DEF v
  <1> QED
    BY <1>1, <1>3, StoreStep

LEMMA EditStep ==
    ASSUME Types, ListedInv, SameModes, NEW p \in Peers, EditInGUI(p)
    PROVE  Types' /\ ListedInv' /\ Written(p)
  <1> DEFINE v == Edited(vault[p], clock')
  <1>1. /\ open[p] /\ Tick /\ vault' = [vault EXCEPT ![p] = v] /\ Persist(p, v, FALSE)
        /\ open' = open /\ Tells(p, observed[p]) /\ last' = NoSession
    BY DEF EditInGUI
  <1>2. Has(p)
    BY <1>1 DEF ListedInv, Listed
  <1>3. /\ v \in VaultsBy(clock') /\ v.modified = clock'
        /\ v.edits = EditsOf(vault[p]) \cup {clock'}
    BY <1>1, <1>2, EditedVault
  <1>4. open' = [open EXCEPT ![p] = TRUE]
    BY <1>1 DEF Types
  <1> HIDE DEF v
  <1> QED
    BY <1>1, <1>3, <1>4, StoreStep

\* The command line loads and stores, and tells usm.json.
LEMMA CLIStep ==
    ASSUME Types, ListedInv, SameModes, NEW p \in Peers, EditInCLI(p)
    PROVE  Types' /\ ListedInv' /\ Written(p)
  <1> DEFINE q == Other(p)
             t == clock'
             v == Edited(vault[p], t)
             d == persistVaultCatalogue(json[p], vault[p], TRUE, t)
             e == persistVaultCatalogue(d, v, FALSE, t)
  <1>1. q \in Peers /\ p # q /\ \A r \in Peers : r = p \/ r = q
    BY TwoPeers
  <1>2. /\ Has(p) /\ ~open[p] /\ Tick /\ vault' = [vault EXCEPT ![p] = v]
        /\ json' = [json EXCEPT ![p] = e] /\ chain' = chain /\ open' = open
        /\ missed' = missed \cup {<<p, "chain">>} /\ kept' = kept /\ last' = NoSession
    BY DEF EditInCLI, Has, Tells
  <1>3. /\ t \in Nat /\ clock \in Nat /\ t \in Times /\ t \notin 0 .. clock
        /\ vault \in [Peers -> VaultsBy(t) \cup {NoVault}] /\ NoVault \notin VaultsBy(t)
        /\ json \in [Peers -> EntriesBy(t) \cup {NoEntry}] /\ NoEntry \notin EntriesBy(t)
        /\ chain \in [Peers -> EntriesBy(t) \cup {NoEntry}]
    BY <1>2, TickTypes
  <1>4. /\ v \in VaultsBy(t) /\ v.modified = t /\ v.edits = EditsOf(vault[p]) \cup {t}
    BY <1>2, EditedVault
  <1>5. Follows(d, json[p], vault[p]) /\ d.chainCS = NoSum
    <2>1. /\ json[p] # NoEntry => json[p].chainCS = NoSum
          /\ vault[p] \in VaultsBy(t) /\ json[p] \in EntriesBy(t) \cup {NoEntry}
      BY <1>2, <1>3 DEF ListedInv, Listed, Has
    <2> HIDE DEF t
    <2> QED
      BY <1>3, <2>1, StoredEntry DEF t
  <1> HIDE DEF d, v
  <1>6. d \in EntriesBy(t) /\ d # NoEntry
    BY <1>3, <1>5 DEF Follows
  <1>7. Follows(e, d, v) /\ e.chainCS = NoSum
    BY <1>3, <1>4, <1>5, <1>6, StoredEntry
  <1> HIDE DEF e, q, t
  <1>8. e \in EntriesBy(t) /\ e # NoEntry
    BY <1>3, <1>7 DEF Follows, t
  <1>9. /\ vault' \in [Peers -> VaultsBy(t) \cup {NoVault}]
        /\ json' \in [Peers -> EntriesBy(t) \cup {NoEntry}]
        /\ vault'[p] = v /\ json'[p] = e /\ vault'[q] = vault[q] /\ json'[q] = json[q]
        /\ observed' = observed
    BY <1>1, <1>2, <1>3, <1>4, <1>8 DEF SameModes
  <1>10. Types'
    <2>1. StoreTypes'
      BY <1>2, <1>3, <1>9 DEF StoreTypes, t
    <2>2. LastTypes'
      BY <1>2, NoSessionType DEF LastTypes
    <2>3. ModeTypes'
      BY DEF Types, ModeTypes, SameModes
    <2>4. missed' \subseteq Catalogues /\ open' \in [Peers -> BOOLEAN] /\ kept' \in BOOLEAN
      BY <1>2 DEF Types, Catalogues
    <2> QED
      BY <2>1, <2>2, <2>3, <2>4, <1>3 DEF Types, t
  <1>11. Untouched(q)
    <2>1. \A k \in Kinds : <<q, k>> \in missed' <=> <<q, k>> \in missed
      BY <1>1, <1>2
    <2> QED
      BY <2>1, <1>2, <1>9 DEF Untouched
  <1>12. Listed(p)'
    <2>1. Has(p)' /\ vault'[p].modified \in vault'[p].edits
      BY <1>3, <1>4, <1>9 DEF Has
    <2>2. ASSUME NEW k \in Kinds, <<p, k>> \notin missed' PROVE At(p, k)' # NoEntry
      BY <2>2, <1>2, <1>8, <1>9 DEF At, Kinds
    <2> QED
      BY <2>1, <2>2, <1>2, <1>7, <1>9 DEF Listed, Good
  <1>13. ListedInv'
    <2>1. Listed(q)'
      BY <1>1, <1>11, UntouchedPeer DEF ListedInv
    <2> QED
      BY <2>1, <1>1, <1>12 DEF ListedInv
  <1>14. ASSUME <<p, "json">> \notin missed
         PROVE  e.modified = t /\ e.chainCS = NoSum /\ e.version = Reach(p, "json") + 1
    <2>1. json[p] # NoEntry
      BY <1>2, <1>14 DEF ListedInv, Listed, Good, At, Kinds
    <2>2. d.modified = vault[p].modified /\ d.version = Reach(p, "json")
      BY <2>1, <1>5 DEF Follows, Reach, Current, At
    <2>3. vault[p].modified \in 0 .. clock
      BY <1>2, VaultFields
    <2>4. e.version = d.version + 1
      BY <1>3, <1>4, <1>6, <1>7, <2>2, <2>3 DEF Follows
    <2> QED
      BY <1>4, <1>7, <2>2, <2>4 DEF Follows
  <1>15. ASSUME NEW k \in Kinds, <<p, k>> \notin missed'
         PROVE  /\ <<p, k>> \notin missed
                /\ At(p, k)'.modified = clock' /\ At(p, k)'.chainCS \in {NoSum, clock'}
                /\ At(p, k)'.version = IF Has(p) THEN Reach(p, k) + 1 ELSE 1
    <2>1. k = "json" /\ <<p, k>> \notin missed
      BY <1>2, <1>15 DEF Kinds
    <2>2. At(p, k)' = e
      BY <2>1, <1>9 DEF At
    <2> QED
      BY <2>1, <2>2, <1>2, <1>14 DEF t
  <1>16. Written(p)
    BY <1>2, <1>4, <1>9, <1>11, <1>15 DEF Written, q, t
  <1> QED
    BY <1>10, <1>13, <1>16

LEMMA UnlockStep ==
    ASSUME Types, ListedInv, SameModes, NEW p \in Peers, UnlockInGUI(p)
    PROVE  Types' /\ ListedInv' /\ Touched(p)
  <1> DEFINE q == Other(p)
  <1>1. q \in Peers /\ p # q /\ \A r \in Peers : r = p \/ r = q
    BY TwoPeers
  <1>2. /\ Has(p) /\ Tick /\ Persist(p, vault[p], TRUE) /\ open' = [open EXCEPT ![p] = TRUE]
        /\ vault' = vault /\ missed' = missed /\ kept' = kept /\ last' = NoSession
    BY DEF UnlockInGUI, Has, told
  <1>3. /\ clock' \in Times /\ vault \in [Peers -> VaultsBy(clock') \cup {NoVault}]
        /\ NoVault \notin VaultsBy(clock')
    BY <1>2, TickTypes
  <1>4. vault[p] \in VaultsBy(clock')
    BY <1>2, <1>3 DEF Has
  <1>5. /\ EntryTypes /\ EntriesElse(p)
        /\ Follows(json'[p], json[p], vault[p]) /\ json'[p].chainCS = NoSum
        /\ json'[p] # NoEntry
        /\ observed[p] => Follows(chain'[p], chain[p], vault[p]) /\ chain'[p] # NoEntry
        /\ ~observed[p] => chain'[p] = chain[p]
    BY <1>2, <1>4, PersistStep
  <1>6. /\ open' \in [Peers -> BOOLEAN] /\ open'[p] = TRUE /\ open'[q] = open[q]
        /\ observed' = observed
    BY <1>1, <1>2 DEF Types, SameModes
  <1> HIDE DEF q
  <1>7. Types'
    <2>1. StoreTypes'
      BY <1>2, <1>3, <1>5 DEF StoreTypes, EntryTypes
    <2>2. LastTypes'
      BY <1>2, NoSessionType DEF LastTypes
    <2>3. ModeTypes'
      BY DEF Types, ModeTypes, SameModes
    <2> QED
      BY <2>1, <2>2, <2>3, <1>2, <1>3, <1>6 DEF Types
  <1>8. Untouched(q)
    BY <1>1, <1>2, <1>5, <1>6 DEF Untouched, EntriesElse
  <1>9. Listed(p)'
    <2>1. Has(p)' /\ vault'[p].modified \in vault'[p].edits
      BY <1>2 DEF Has, ListedInv, Listed
    <2>2. ASSUME NEW k \in Kinds, <<p, k>> \notin missed' PROVE At(p, k)' # NoEntry
      <3>1. At(p, k) # NoEntry
        BY <2>2, <1>2 DEF ListedInv, Listed, Good
      <3> QED
        BY <3>1, <1>5 DEF At
    <2>3. /\ json'[p].modified = vault[p].modified
          /\ observed[p] => chain'[p].modified = vault[p].modified
      BY <1>5 DEF Follows
    <2> QED
      BY <2>1, <2>2, <2>3, <1>2, <1>5, <1>6 DEF Listed, Good
  <1>10. ListedInv'
    <2>1. Listed(q)'
      BY <1>1, <1>8, UntouchedPeer DEF ListedInv
    <2> QED
      BY <2>1, <1>1, <1>9 DEF ListedInv
  <1>11. ASSUME NEW k \in Kinds, <<p, k>> \notin missed
         PROVE  At(p, k)' = At(p, k) \/ Refreshed(At(p, k)', p, k)
    <2>1. At(p, k) # NoEntry
      BY <1>2, <1>11 DEF ListedInv, Listed, Good
    <2>2. CASE k = "json" \/ observed[p]
      <3>1. Follows(At(p, k)', At(p, k), vault[p])
        BY <1>5, <2>2 DEF At
      <3> QED
        BY <1>2, <2>1, <3>1 DEF Follows, Refreshed, Reach, Current
    <2>3. CASE k = "chain" /\ ~observed[p]
      BY <1>5, <2>3 DEF At
    <2> QED
      BY <2>2, <2>3 DEF Kinds
  <1>12. Touched(p)
    BY <1>2, <1>8, <1>11 DEF Touched, q
  <1> QED
    BY <1>7, <1>10, <1>12

\* A step that keeps the vaults, the times and what is told leaves the types of
\* what it does not write.
LEMMA QuietTypes ==
    ASSUME Types, clock' = clock, vault' = vault, kept' = kept, ModeTypes',
           open' \in [Peers -> BOOLEAN], missed' \subseteq Catalogues,
           json' = json, chain' \in [Peers -> EntriesBy(clock) \cup {NoEntry}],
           last' = NoSession \/ last' = last
    PROVE  Types'
  <1>1. StoreTypes'
    BY DEF Types, StoreTypes
  <1>2. LastTypes'
    BY NoSessionType DEF Types, LastTypes
  <1> QED
    BY <1>1, <1>2 DEF Types

LEMMA LockStep ==
    ASSUME Types, ListedInv, SameModes, NEW p \in Peers, LockInGUI(p)
    PROVE  Types' /\ ListedInv' /\ Touched(p)
  <1> DEFINE q == Other(p)
  <1>1. q \in Peers /\ p # q /\ \A r \in Peers : r = p \/ r = q
    BY TwoPeers
  <1>2. /\ open' = [open EXCEPT ![p] = FALSE] /\ vault' = vault /\ json' = json
        /\ chain' = chain /\ clock' = clock /\ missed' = missed /\ kept' = kept
        /\ last' = NoSession /\ observed' = observed
    BY DEF LockInGUI, told, SameModes
  <1>3. open' \in [Peers -> BOOLEAN] /\ ~open'[p] /\ open'[q] = open[q]
    BY <1>1, <1>2 DEF Types
  <1> HIDE DEF q
  <1>4. Types'
    <2>1. ModeTypes'
      BY DEF Types, ModeTypes, SameModes
    <2>2. missed' \subseteq Catalogues /\ chain' \in [Peers -> EntriesBy(clock) \cup {NoEntry}]
      BY <1>2 DEF Types, StoreTypes
    <2> QED
      BY <2>1, <2>2, <1>2, <1>3, QuietTypes
  <1>5. Untouched(q)
    BY <1>2, <1>3 DEF Untouched
  <1>6. Listed(p)'
    <2>1. Listed(p)
      BY DEF ListedInv
    <2> QED
      BY <2>1, <1>2, <1>3 DEF Listed, Good, Has, At
  <1>7. ListedInv'
    <2>1. Listed(q)'
      BY <1>1, <1>5, UntouchedPeer DEF ListedInv
    <2> QED
      BY <2>1, <1>1, <1>6 DEF ListedInv
  <1>8. Touched(p)
    <2>1. \A k \in Kinds : At(p, k)' = At(p, k)
      BY <1>2 DEF At
    <2> QED
      BY <2>1, <1>2, <1>5 DEF Touched, q
  <1> QED
    BY <1>4, <1>7, <1>8

LEMMA ModeStep ==
    ASSUME Types, ListedInv, strict' = strict, NEW p \in Peers, ApplySyncMode(p)
    PROVE  Types' /\ ListedInv' /\ Touched(p)
  <1> DEFINE q == Other(p)
  <1>1. q \in Peers /\ p # q /\ \A r \in Peers : r = p \/ r = q
    BY TwoPeers
  <1>2. /\ open' = open /\ vault' = vault /\ json' = json
        /\ chain' = chain /\ clock' = clock /\ missed' = missed /\ kept' = kept
        /\ last' = NoSession /\ observed' = observed
    BY DEF ApplySyncMode, told
  <1> HIDE DEF q
  <1>3. Types'
    <2>1. ModeTypes'
      BY CatalogueSyncAssumption DEF Types, ModeTypes, ApplySyncMode, Switch
    <2>2. /\ missed' \subseteq Catalogues /\ open' \in [Peers -> BOOLEAN]
          /\ chain' \in [Peers -> EntriesBy(clock) \cup {NoEntry}]
      BY <1>2 DEF Types, StoreTypes
    <2> QED
      BY <2>1, <2>2, <1>2, QuietTypes
  <1>4. Untouched(p) /\ Untouched(q)
    BY <1>2 DEF Untouched
  <1>5. ListedInv'
    BY <1>1, <1>4, UntouchedPeer DEF ListedInv
  <1>6. Touched(p)
    <2>1. \A k \in Kinds : At(p, k)' = At(p, k)
      BY <1>2 DEF At
    <2> QED
      BY <2>1, <1>2, <1>4 DEF Touched, q
  <1> QED
    BY <1>3, <1>5, <1>6

\* A new chain is told what usm.json was.
LEMMA RestartStep ==
    ASSUME Types, ListedInv, strict' = strict, NEW p \in Peers, Restart(p)
    PROVE  Types' /\ ListedInv' /\ Touched(p)
  <1> DEFINE q == Other(p)
  <1>1. q \in Peers /\ p # q /\ \A r \in Peers : r = p \/ r = q
    BY TwoPeers
  <1>2. PICK managed \in BOOLEAN :
          /\ Switch /\ (managed => service[p] # "none")
          /\ service' = [service EXCEPT ![p] = IF managed THEN "chain"
                                               ELSE IF @ = "none" THEN "none" ELSE "json"]
          /\ observed' = [observed EXCEPT ![p] = managed]
          /\ chain' = IF managed THEN [chain EXCEPT ![p] = MigrateFromLegacy(p)] ELSE chain
          /\ missed' = IF managed /\ chain[p] = NoEntry
                         THEN (missed \ {<<p, "chain">>}) \cup
                              (IF <<p, "json">> \in missed THEN {<<p, "chain">>} ELSE {})
                         ELSE missed
          /\ open' = [open EXCEPT ![p] = FALSE]
          /\ UNCHANGED <<vault, json, clock, kept>> /\ last' = NoSession
    BY DEF Restart
  <1> DEFINE new == managed /\ chain[p] = NoEntry
  <1>3. /\ chain \in [Peers -> EntriesBy(clock) \cup {NoEntry}]
        /\ json \in [Peers -> EntriesBy(clock) \cup {NoEntry}]
        /\ open \in [Peers -> BOOLEAN]
    BY DEF Types, StoreTypes
  <1>4. /\ chain' \in [Peers -> EntriesBy(clock) \cup {NoEntry}]
        /\ chain'[p] = (IF new THEN json[p] ELSE chain[p]) /\ chain'[q] = chain[q]
    <2>1. CASE managed
      BY <2>1, <1>1, <1>2, <1>3 DEF MigrateFromLegacy
    <2>2. CASE ~managed
      BY <2>2, <1>2, <1>3
    <2> QED
      BY <2>1, <2>2
  <1>5. /\ \A k \in Kinds : <<q, k>> \in missed' <=> <<q, k>> \in missed
        /\ missed' \subseteq Catalogues
        /\ <<p, "json">> \in missed' <=> <<p, "json">> \in missed
        /\ <<p, "chain">> \in missed' <=>
             IF new THEN <<p, "json">> \in missed ELSE <<p, "chain">> \in missed
    <2>1. missed \subseteq Catalogues /\ <<p, "chain">> \in Catalogues
      BY DEF Types, Catalogues
    <2>2. CASE new
      <3>1. missed' = (missed \ {<<p, "chain">>}) \cup
                        (IF <<p, "json">> \in missed THEN {<<p, "chain">>} ELSE {})
        BY <2>2, <1>2
      <3> QED
        BY <2>1, <2>2, <3>1, <1>1
    <2>3. CASE ~new
      BY <2>1, <2>3, <1>2
    <2> QED
      BY <2>2, <2>3
  <1>6. /\ open' \in [Peers -> BOOLEAN] /\ ~open'[p] /\ open'[q] = open[q]
        /\ observed'[q] = observed[q]
    BY <1>1, <1>2, <1>3 DEF Types, ModeTypes
  <1>7. ModeTypes'
    <2>1. switches' \in 0 .. MaxSwitches
      BY <1>2, CatalogueSyncAssumption DEF Types, ModeTypes, Switch
    <2>2. service' \in [Peers -> {"none", "json", "chain"}]
      BY <1>2 DEF Types, ModeTypes
    <2>3. observed' \in [Peers -> BOOLEAN] /\ strict' \in BOOLEAN
      BY <1>2 DEF Types, ModeTypes
    <2> QED
      BY <2>1, <2>2, <2>3 DEF ModeTypes
  <1>8. UNCHANGED <<vault, json, clock, kept>> /\ last' = NoSession
    BY <1>2
  <1> HIDE DEF new, q
  <1>9. Types'
    BY <1>4, <1>5, <1>6, <1>7, <1>8, QuietTypes
  <1>10. Untouched(q)
    BY <1>4, <1>5, <1>6, <1>8 DEF Untouched
  <1>11. Listed(p)'
    <2>1. Listed(p)
      BY DEF ListedInv
    <2>2. Has(p)' <=> Has(p)
      BY <1>8 DEF Has
    <2>3. ASSUME NEW k \in Kinds, Good(p, k)' PROVE At(p, k)' # NoEntry
      <3>1. CASE k = "chain" /\ new
        <4>1. Good(p, "json") /\ At(p, k)' = At(p, "json")
          BY <2>2, <2>3, <3>1, <1>4, <1>5 DEF Good, At
        <4> QED
          BY <4>1, <2>1 DEF Listed, Kinds
      <3>2. CASE ~(k = "chain" /\ new)
        <4>1. Good(p, k) /\ At(p, k)' = At(p, k)
          BY <2>2, <2>3, <3>2, <1>4, <1>5, <1>8 DEF Good, At, Kinds
        <4> QED
          BY <4>1, <2>1 DEF Listed
      <3> QED
        BY <3>1, <3>2
    <2>4. ~Has(p)' => json'[p] = NoEntry /\ chain'[p] = NoEntry
      BY <2>1, <2>2, <1>4, <1>8 DEF Listed
    <2> QED
      BY <2>1, <2>2, <2>3, <2>4, <1>6, <1>8 DEF Listed
  <1>12. ListedInv'
    <2>1. Listed(q)'
      BY <1>1, <1>10, UntouchedPeer DEF ListedInv
    <2> QED
      BY <2>1, <1>1, <1>11 DEF ListedInv
  <1>13. ASSUME NEW k \in Kinds, <<p, k>> \notin missed'
         PROVE  \E l \in Kinds : <<p, l>> \notin missed /\ At(p, k)' = At(p, l)
    <2>1. CASE k = "chain" /\ new
      <3>1. <<p, "json">> \notin missed /\ At(p, k)' = At(p, "json") /\ "json" \in Kinds
        BY <2>1, <1>4, <1>5, <1>13 DEF At, Kinds
      <3> QED
        BY <3>1
    <2>2. CASE ~(k = "chain" /\ new)
      <3>1. <<p, k>> \notin missed /\ At(p, k)' = At(p, k)
        BY <2>2, <1>4, <1>5, <1>8, <1>13 DEF At, Kinds
      <3> QED
        BY <3>1
    <2> QED
      BY <2>1, <2>2
  <1>14. Touched(p)
    BY <1>8, <1>10, <1>13 DEF Touched, q
  <1> QED
    BY <1>9, <1>12, <1>14

LEMMA StutterStep ==
    ASSUME Types, ListedInv, UNCHANGED vars
    PROVE  Types' /\ ListedInv' /\ \A p \in Peers : Touched(p)
  <1>1. /\ open' = open /\ vault' = vault /\ json' = json /\ strict' = strict
        /\ chain' = chain /\ clock' = clock /\ missed' = missed /\ kept' = kept
        /\ last' = last /\ observed' = observed /\ service' = service /\ switches' = switches
    BY DEF vars, told
  <1>2. Types'
    BY <1>1 DEF Types, StoreTypes, LastTypes, ModeTypes
  <1>3. \A p \in Peers : Untouched(p) /\ Untouched(Other(p))
    BY <1>1 DEF Untouched
  <1>4. ListedInv'
    BY <1>3, UntouchedPeer DEF ListedInv
  <1>5. ASSUME NEW p \in Peers PROVE Touched(p)
    <2>1. \A k \in Kinds : At(p, k)' = At(p, k)
      BY <1>1 DEF At
    <2> QED
      BY <2>1, <1>1, <1>3 DEF Touched
  <1> QED
    BY <1>2, <1>4, <1>5

-----------------------------------------------------------------------------
(* A session *)

\* The catalogue that the service of p reads.
Side(p) == IF service[p] = "chain" THEN "chain" ELSE "json"

LEMMA SideEntry ==
    ASSUME NEW p
    PROVE  Side(p) \in Kinds /\ loadCatalogue(p) = At(p, Side(p)) /\ Source(p) = <<p, Side(p)>>
  BY DEF Side, Kinds, loadCatalogue, At, Source

\* What is sent is listed, and its version is above that of the receiver.
LEMMA SenderIsAhead ==
    ASSUME Types, NEW p \in Peers, Going(p) = "push"
    PROVE  LET r == At(p, Side(p))
               e == At(Other(p), Side(Other(p))) IN
           /\ r # NoEntry /\ r.version \in Nat
           /\ e # NoEntry => e.version \in Nat /\ e.version < r.version
  <1> DEFINE r == At(p, Side(p))
             e == At(Other(p), Side(Other(p)))
  <1>1. N!Direction(r, e, strict) = "push"
    BY SideEntry DEF Going
  <1>2. r # NoEntry => r.version \in Nat
    BY SideEntry, EntryFields
  <1>3. e # NoEntry => e.version \in Nat
    BY SideEntry, TwoPeers, EntryFields
  <1> HIDE DEF r, e
  <1>4. r # NoEntry
    BY <1>1 DEF N!Direction
  <1>5. e # NoEntry => N!compareEntries(r, e) = "push"
    BY <1>1, <1>4 DEF N!Direction
  <1>6. e # NoEntry => r.version > e.version
    BY <1>5 DEF N!compareEntries
  <1>7. e # NoEntry => e.version < r.version
    BY <1>2, <1>3, <1>4, <1>6
  <1> QED
    BY <1>2, <1>3, <1>4, <1>7 DEF r, e

\* The copy has the announced fields of the sender's entry.
Announced(c, r) ==
    /\ c.version = r.version /\ c.modified = r.modified /\ c.itemCount = r.itemCount
    /\ c.keyFingerprint = r.keyFingerprint

\* The entry that the receiver computes is its own, kept, or a copy, and only a
\* copy of the chain brings a checksum.
LEMMA ReceivedEntry ==
    ASSUME NEW t \in Nat, NoEntry \notin EntriesBy(t), NEW e \in EntriesBy(t) \cup {NoEntry},
           NEW r \in EntriesBy(t)
    PROVE  LET c == Copied(e, r)
               k == mergeCatalogueEntries(e, [c EXCEPT !.chainCS = NoSum]) IN
           /\ c \in EntriesBy(t) /\ Announced(c, r) /\ c.chainCS = r.chainCS
           /\ k \in EntriesBy(t)
           /\ (k = e /\ e # NoEntry) \/ (Announced(k, r) /\ k.chainCS = NoSum)
  <1> DEFINE c == Copied(e, r)
             d == [c EXCEPT !.chainCS = NoSum]
  <1>1. c \in EntriesBy(t) /\ Announced(c, r) /\ c.chainCS = r.chainCS
    <2>1. CASE e = NoEntry
      <3>1. c = [r EXCEPT !.lastUnlocked = Never] /\ Never \in 0 .. t
        BY <2>1 DEF Copied, Never
      <3> HIDE DEF c
      <3> QED
        BY <3>1 DEF EntriesBy, Announced
    <2>2. CASE e # NoEntry
      <3>1. c = [r EXCEPT !.created = e.created, !.lastUnlocked = e.lastUnlocked]
        BY <2>2 DEF Copied
      <3>2. e.created \in 0 .. t /\ e.lastUnlocked \in 0 .. t
        BY <2>2 DEF EntriesBy
      <3> HIDE DEF c
      <3> QED
        BY <3>1, <3>2 DEF EntriesBy, Announced
    <2> QED
      BY <2>1, <2>2
  <1> HIDE DEF c
  <1>2. d \in EntriesBy(t) /\ Announced(d, r) /\ d.chainCS = NoSum
    <2>1. NoSum \in 0 .. t
      BY DEF NoSum
    <2> QED
      BY <2>1, <1>1 DEF EntriesBy, Announced
  <1> HIDE DEF d
  <1>3. mergeCatalogueEntries(e, d) = d \/ (mergeCatalogueEntries(e, d) = e /\ e # NoEntry)
    BY DEF mergeCatalogueEntries
  <1>4. mergeCatalogueEntries(e, d) \in EntriesBy(t)
    BY <1>2, <1>3
  <1> QED
    BY <1>1, <1>2, <1>3, <1>4 DEF c, d

\* What a session does to the entries: every one that is there stays, but the
\* receiver's, which is a copy or was kept.
LEMMA SendEntries ==
    ASSUME Types, ListedInv, SameModes, NEW p \in Peers, Send(p)
    PROVE  LET q == Other(p)
               r == At(p, Side(p))
               f == At(q, Side(q))' IN
           /\ EntryTypes /\ r # NoEntry /\ f # NoEntry
           /\ \A s \in Peers : json'[s] # NoEntry => json'[s].chainCS = NoSum
           /\ \A m \in Kinds : At(p, m) # NoEntry => At(p, m)' = At(p, m)
           /\ ~kept' => /\ Announced(f, r)
                        /\ f.chainCS = r.chainCS \/ f.chainCS = NoSum
  <1> DEFINE q == Other(p)
             t == clock'
             e == At(q, Side(q))
             r == At(p, Side(p))
             c == Copied(e, r)
             k == mergeCatalogueEntries(e, [c EXCEPT !.chainCS = NoSum])
             m == AfterReceive(q, e, r)
             x(s) == IF s = q /\ service[q] # "chain" THEN m ELSE json[s]
  <1>1. q \in Peers /\ p # q /\ \A s \in Peers : s = p \/ s = q
    BY TwoPeers
  <1>2. /\ Going(p) = "push" /\ Tick /\ vault' = [vault EXCEPT ![q] = vault[p]]
        /\ chain' = IF service[q] = "chain" THEN [chain EXCEPT ![q] = m] ELSE chain
        /\ json' = [s \in Peers |-> Migrate(x(s), vault'[s], t)]
        /\ kept' = (service[q] # "chain" /\ m = json[q])
    <2>1. AfterReceive(q, loadCatalogue(q), loadCatalogue(p)) = m
      BY SideEntry
    <2> HIDE DEF m
    <2>2. Going(p) = "push" /\ Tick /\ vault' = [vault EXCEPT ![q] = vault[p]]
      BY DEF Send
    <2>3. chain' = IF service[q] = "chain" THEN [chain EXCEPT ![q] = m] ELSE chain
      BY <2>1 DEF Send
    <2>4. json' = [s \in Peers |-> Migrate(x(s), vault'[s], t)]
      BY <2>1 DEF Send
    <2>5. kept' = (service[q] # "chain" /\ m = json[q])
      BY <2>1, Zenon DEF Send
    <2> QED
      BY <2>2, <2>3, <2>4, <2>5
  <1>3. /\ t \in Nat /\ NoEntry \notin EntriesBy(t) /\ t \in 0 .. t
        /\ json \in [Peers -> EntriesBy(t) \cup {NoEntry}]
        /\ chain \in [Peers -> EntriesBy(t) \cup {NoEntry}]
    BY <1>2, TickTypes
  <1>4. r # NoEntry /\ r \in EntriesBy(t) /\ e \in EntriesBy(t) \cup {NoEntry}
    <2>1. r # NoEntry
      BY <1>2, SenderIsAhead
    <2> QED
      BY <2>1, <1>1, <1>3 DEF At
  <1>5. /\ c \in EntriesBy(t) /\ Announced(c, r) /\ c.chainCS = r.chainCS
        /\ k \in EntriesBy(t)
        /\ (k = e /\ e # NoEntry) \/ (Announced(k, r) /\ k.chainCS = NoSum)
    <2> HIDE DEF e, r, t
    <2> QED
      BY <1>3, <1>4, ReceivedEntry
  <1>6. m = IF service[q] = "chain" THEN c ELSE k
    BY DEF AfterReceive
  <1>7. service[q] # "chain" => e = json[q]
    BY DEF Side, At
  <1>8. \A s \in Peers : json[s] # NoEntry => json[s].chainCS = NoSum
    BY DEF ListedInv, Listed
  <1> HIDE DEF q, t, e, r, c, k, m
  <1>9. m \in EntriesBy(t) /\ m # NoEntry /\ (service[q] # "chain" => m.chainCS = NoSum)
    BY <1>1, <1>3, <1>5, <1>6, <1>7, <1>8
  <1>10. ASSUME NEW s \in Peers
         PROVE  /\ x(s) \in EntriesBy(t) \cup {NoEntry} /\ (x(s) # NoEntry => x(s).chainCS = NoSum)
    BY <1>3, <1>8, <1>9
  <1>11. ASSUME NEW s \in Peers
         PROVE  /\ json'[s] \in EntriesBy(t) \cup {NoEntry}
                /\ json'[s] # NoEntry => json'[s].chainCS = NoSum
                /\ x(s) # NoEntry => json'[s] = x(s)
    <2> DEFINE n == [version |-> 1, modified |-> t, chainCS |-> NoSum,
                     keyFingerprint |-> NoPrint, itemCount |-> 0, created |-> t,
                     lastUnlocked |-> Never]
    <2>1. n \in EntriesBy(t) /\ n.chainCS = NoSum
      BY <1>3 DEF EntriesBy, NoSum, Never
    <2>2. json'[s] = Migrate(x(s), vault'[s], t)
      BY <1>2
    <2>3. Migrate(x(s), vault'[s], t) = x(s) \/ (x(s) = NoEntry /\ Migrate(x(s), vault'[s], t) = n)
      BY DEF Migrate
    <2> HIDE DEF n, x
    <2> QED
      BY <2>1, <2>2, <2>3, <1>10
  <1>12. EntryTypes
    <2>1. json' = [s \in Peers |-> json'[s]]
      BY <1>2
    <2>2. json' \in [Peers -> EntriesBy(t) \cup {NoEntry}]
      BY <2>1, <1>11
    <2>3. chain' \in [Peers -> EntriesBy(t) \cup {NoEntry}]
      BY <1>2, <1>3, <1>9
    <2> QED
      BY <2>2, <2>3 DEF EntryTypes, t
  <1>13. \A n \in Kinds : At(p, n) # NoEntry => At(p, n)' = At(p, n)
    <2>1. json[p] # NoEntry => json'[p] = json[p]
      BY <1>1, <1>11
    <2>2. chain'[p] = chain[p]
      BY <1>1, <1>2, <1>3
    <2> QED
      BY <2>1, <2>2 DEF At
  <1>14. At(q, Side(q))' = m
    <2>1. Side(q)' = Side(q)
      BY DEF Side, SameModes
    <2>2. CASE service[q] = "chain"
      BY <2>1, <2>2, <1>1, <1>2, <1>3 DEF Side, At
    <2>3. CASE service[q] # "chain"
      <3>1. json'[q] = m
        BY <2>3, <1>1, <1>9, <1>11
      <3> QED
        BY <2>1, <2>3, <3>1 DEF Side, At
    <2> QED
      BY <2>2, <2>3
  <1>15. ~kept' => Announced(m, r) /\ (m.chainCS = r.chainCS \/ m.chainCS = NoSum)
    <2>1. CASE service[q] = "chain"
      BY <2>1, <1>5, <1>6
    <2>2. CASE service[q] # "chain"
      BY <2>2, <1>2, <1>5, <1>6, <1>7
    <2> QED
      BY <2>1, <2>2
  <1> QED
    BY <1>4, <1>9, <1>11, <1>12, <1>13, <1>14, <1>15 DEF q, r

LEMMA SendStep ==
    ASSUME Types, ListedInv, SameModes, NEW p \in Peers, Send(p)
    PROVE  Types' /\ ListedInv' /\ Sent(p)
  <1> DEFINE q == Other(p)
             r == At(p, Side(p))
  <1>1. q \in Peers /\ p # q /\ \A s \in Peers : s = p \/ s = q
    BY TwoPeers
  <1>2. /\ Has(p) /\ Tick /\ vault' = [vault EXCEPT ![q] = vault[p]]
        /\ open' = [s \in Peers |-> FALSE]
        /\ last' = [from |-> p, lost |-> EditsOf(vault[q]) \ EditsOf(vault[p]),
                    new |-> EditsOf(vault[p]) \ EditsOf(vault[q]),
                    told |-> ~kept /\ Source(p) \notin missed /\ Source(q) \notin missed]
        /\ missed' = (missed \cup {<<q, "json">>, <<q, "chain">>}) \
                        (IF Source(p) \in missed THEN {} ELSE {Source(q)})
        /\ kept' \in BOOLEAN
    BY DEF Send, Has
  <1>3. /\ EntryTypes /\ r # NoEntry /\ At(q, Side(q))' # NoEntry
        /\ \A s \in Peers : json'[s] # NoEntry => json'[s].chainCS = NoSum
        /\ \A m \in Kinds : At(p, m) # NoEntry => At(p, m)' = At(p, m)
        /\ ~kept' => /\ At(q, Side(q))'.version = r.version
                     /\ At(q, Side(q))'.modified = r.modified
    BY SendEntries DEF Announced
  <1>4. /\ clock' \in Times /\ vault \in [Peers -> VaultsBy(clock') \cup {NoVault}]
        /\ clock \in Nat
    BY <1>2, TickTypes
  <1>5. /\ Side(p) \in Kinds /\ Side(q) \in Kinds
        /\ Source(p) = <<p, Side(p)>> /\ Source(q) = <<q, Side(q)>>
    BY SideEntry
  <1> HIDE DEF q, r
  <1>6. /\ vault' \in [Peers -> VaultsBy(clock') \cup {NoVault}]
        /\ vault'[p] = vault[p] /\ vault'[q] = vault[p]
    BY <1>1, <1>2, <1>4
  <1>7. /\ missed' \subseteq Catalogues
        /\ \A m \in Kinds : <<p, m>> \in missed' <=> <<p, m>> \in missed
        /\ \A m \in Kinds : <<q, m>> \notin missed' => m = Side(q) /\ <<p, Side(p)>> \notin missed
    <2>1. missed' \subseteq Catalogues
      BY <1>1, <1>2 DEF Types, Catalogues
    <2>2. \A m \in Kinds : <<p, m>> \in missed' <=> <<p, m>> \in missed
      BY <1>1, <1>2, <1>5
    <2>3. ASSUME NEW m \in Kinds, <<q, m>> \notin missed'
          PROVE  m = Side(q) /\ <<p, Side(p)>> \notin missed
      BY <2>3, <1>2, <1>5 DEF Kinds
    <2> QED
      BY <2>1, <2>2, <2>3
  <1>8. LastTypes'
    <2>1. \A s \in Peers : EditsOf(vault[s]) \subseteq Times
      <3> SUFFICES ASSUME NEW s \in Peers PROVE EditsOf(vault[s]) \subseteq Times
        OBVIOUS
      <3>1. 0 .. clock \subseteq Times
        BY CatalogueSyncAssumption DEF Types, Times
      <3> QED
        BY <3>1, VaultFields DEF EditsOf, Has
    <2>2. /\ EditsOf(vault[q]) \ EditsOf(vault[p]) \subseteq Times
          /\ EditsOf(vault[p]) \ EditsOf(vault[q]) \subseteq Times
      BY <2>1, <1>1
    <2>3. (~kept /\ Source(p) \notin missed /\ Source(q) \notin missed) \in BOOLEAN
      OBVIOUS
    <2> QED
      BY <2>2, <2>3, <1>2 DEF LastTypes
  <1>9. Types'
    <2>1. StoreTypes'
      BY <1>3, <1>6 DEF StoreTypes, EntryTypes
    <2>2. open' \in [Peers -> BOOLEAN] /\ ModeTypes'
      BY <1>2 DEF Types, ModeTypes, SameModes
    <2> QED
      BY <2>1, <2>2, <1>2, <1>4, <1>7, <1>8 DEF Types
  <1>10. ASSUME NEW s \in Peers, NEW m \in Kinds, <<s, m>> \notin missed' PROVE At(s, m)' # NoEntry
    <2>1. CASE s = p
      <3>1. At(p, m) # NoEntry
        BY <2>1, <1>2, <1>7, <1>10 DEF ListedInv, Listed, Good
      <3> QED
        BY <2>1, <3>1, <1>3
    <2>2. CASE s = q
      <3>1. m = Side(q) /\ Side(q)' = Side(q)
        BY <2>2, <1>7, <1>10 DEF Side, SameModes
      <3>2. At(q, m)' = At(q, Side(q))'
        BY <3>1 DEF At
      <3> QED
        BY <2>2, <3>2, <1>3
    <2> QED
      BY <1>1, <2>1, <2>2
  <1>11. ListedInv'
    <2> SUFFICES ASSUME NEW s \in Peers PROVE Listed(s)'
      BY DEF ListedInv
    <2>1. vault'[s] = vault[p] /\ ~open'[s]
      BY <1>1, <1>2, <1>6
    <2>2. Has(s)' /\ vault'[s].modified \in vault'[s].edits
      BY <2>1, <1>2 DEF ListedInv, Listed, Has
    <2> QED
      BY <2>1, <2>2, <1>3, <1>10 DEF Listed, Good
  <1>12. ASSUME NEW k \in Kinds, <<p, k>> \notin missed'
         PROVE  <<p, k>> \notin missed /\ At(p, k)' = At(p, k)
    <2>1. <<p, k>> \notin missed
      BY <1>7, <1>12
    <2>2. At(p, k) # NoEntry
      BY <2>1, <1>2 DEF ListedInv, Listed, Good
    <2> QED
      BY <2>1, <2>2, <1>3
  <1>13. ASSUME NEW l \in Kinds, <<q, l>> \notin missed', ~kept'
         PROVE  \E k \in Kinds : /\ <<p, k>> \notin missed'
                                 /\ At(q, l)'.version = At(p, k).version
                                 /\ At(q, l)'.modified = At(p, k).modified
    <2>1. l = Side(q) /\ <<p, Side(p)>> \notin missed' /\ Side(q)' = Side(q)
      BY <1>5, <1>7, <1>13 DEF Side, SameModes
    <2>2. At(q, l)' = At(q, Side(q))'
      BY <2>1 DEF At
    <2>3. At(q, l)'.version = r.version /\ At(q, l)'.modified = r.modified
      BY <2>2, <1>3, <1>13
    <2> QED
      BY <2>1, <2>3, <1>5 DEF r
  <1>14. \A k, l \in Kinds : <<q, k>> \notin missed' /\ <<q, l>> \notin missed' => k = l
    BY <1>7
  <1>15. Sent(p)
    BY <1>2, <1>6, <1>12, <1>13, <1>14 DEF Sent, q
  <1> QED
    BY <1>9, <1>11, <1>15

\* Two entries of the same version, time, key and size need no session, unless both
\* have checksums of their own.
LEMMA NothingToDo ==
    ASSUME NEW l, NEW r, l # NoEntry, r # NoEntry, NEW s \in BOOLEAN,
           l.version \in Nat, l.version = r.version, l.modified = r.modified,
           l.chainCS = r.chainCS \/ l.chainCS = NoSum \/ r.chainCS = NoSum,
           l.itemCount = r.itemCount, l.keyFingerprint = r.keyFingerprint
    PROVE  N!Direction(l, r, s) = "skip" /\ ~N!InConflict(l, r, s)
  <1>1. ~N!fingerprintMismatch(l, r)
    BY DEF N!fingerprintMismatch
  <1>2. ~N!detectConflict(l, r)
    BY DEF N!detectConflict, N!sameChain, N!bothStamped
  <1>3. N!compareEntries(l, r) = "skip"
    BY DEF N!compareEntries
  <1> QED
    BY <1>1, <1>2, <1>3 DEF N!Direction, N!InConflict

\* A session that made a copy leaves nothing for the next one.
LEMMA SendConverges ==
    ASSUME Types, ListedInv, SameModes, NEW p \in Peers, Send(p)
    PROVE  SessionConverges'
  <1> DEFINE q == Other(p)
             r == At(p, Side(p))
             f == At(q, Side(q))'
  <1>1. q \in Peers /\ Other(q) = p /\ p # q /\ \A s \in Peers : s = p \/ s = q
    BY TwoPeers
  <1> SUFFICES ASSUME ~kept'
               PROVE  \A s \in Peers : Going(s)' = "skip" /\ ~Conflict(s)'
    BY DEF SessionConverges
  <1>2. /\ r # NoEntry /\ f # NoEntry /\ At(p, Side(p))' = r
        /\ Announced(f, r) /\ (f.chainCS = r.chainCS \/ f.chainCS = NoSum)
    <2>1. Side(p) \in Kinds /\ Side(p)' = Side(p)
      BY SideEntry DEF Side, SameModes
    <2>2. /\ r # NoEntry /\ f # NoEntry
          /\ \A m \in Kinds : At(p, m) # NoEntry => At(p, m)' = At(p, m)
          /\ Announced(f, r) /\ (f.chainCS = r.chainCS \/ f.chainCS = NoSum)
      BY SendEntries
    <2>3. At(p, Side(p))' = r
      <3>1. json'[p] = json[p] \/ Side(p) = "chain"
        BY <2>1, <2>2 DEF At, Kinds
      <3>2. chain'[p] = chain[p] \/ Side(p) = "json"
        BY <2>1, <2>2 DEF At, Kinds
      <3> QED
        BY <2>1, <3>1, <3>2 DEF At, Side
    <2> QED
      BY <2>2, <2>3
  <1>3. r.version \in Nat /\ strict' \in BOOLEAN
    BY <1>2, SideEntry, EntryFields DEF Types, ModeTypes, SameModes
  <1>4. loadCatalogue(p)' = r /\ loadCatalogue(q)' = f
    BY <1>2 DEF loadCatalogue, Side, At
  <1> HIDE DEF q, r, f
  <1>5. /\ N!Direction(r, f, strict') = "skip" /\ ~N!InConflict(r, f, strict')
        /\ N!Direction(f, r, strict') = "skip" /\ ~N!InConflict(f, r, strict')
    BY <1>2, <1>3, NothingToDo DEF Announced
  <1>6. Going(p)' = "skip" /\ ~Conflict(p)' /\ Going(q)' = "skip" /\ ~Conflict(q)'
    BY <1>1, <1>4, <1>5 DEF Going, Conflict, q
  <1> QED
    BY <1>1, <1>6

\* A vault that has lost to the sender had a lower version.
LEMMA SendKeepsEdits ==
    ASSUME Types, ListedInv, SameModes, PairsInv, NEW p \in Peers, Send(p)
    PROVE  NeverGoesBack'
  <1> DEFINE q == Other(p)
             r == At(p, Side(p))
             e == At(q, Side(q))
  <1>1. q \in Peers /\ Other(q) = p /\ p # q
    BY TwoPeers
  <1>2. /\ Has(p) /\ Going(p) = "push"
        /\ last' = [from |-> p, lost |-> EditsOf(vault[q]) \ EditsOf(vault[p]),
                    new |-> EditsOf(vault[p]) \ EditsOf(vault[q]),
                    told |-> ~kept /\ Source(p) \notin missed /\ Source(q) \notin missed]
    BY DEF Send, Has
  <1>3. /\ r # NoEntry /\ r.version \in Nat
        /\ e # NoEntry => e.version \in Nat /\ e.version < r.version
    BY <1>2, SenderIsAhead
  <1>4. /\ Side(p) \in Kinds /\ Side(q) \in Kinds
        /\ Source(p) = <<p, Side(p)>> /\ Source(q) = <<q, Side(q)>>
    BY SideEntry
  <1> HIDE DEF q, r, e
  <1> SUFFICES ASSUME ~kept, Source(p) \notin missed, Source(q) \notin missed,
                      EditsOf(vault[p]) \subseteq EditsOf(vault[q]),
                      EditsOf(vault[q]) \ EditsOf(vault[p]) # {}
               PROVE  FALSE
    BY <1>2 DEF NeverGoesBack
  <1>5. Has(q) /\ vault[p].edits \subseteq vault[q].edits /\ vault[p].edits # vault[q].edits
    BY <1>2 DEF EditsOf, Has
  <1>6. Good(p, Side(p)) /\ Good(q, Side(q))
    BY <1>2, <1>4, <1>5 DEF Good
  <1>7. Reach(p, Side(p)) < Reach(q, Side(q))
    BY <1>1, <1>4, <1>5, <1>6 DEF PairsInv, Pair
  <1>8. e # NoEntry /\ e.version \in Nat /\ e.version < r.version
    BY <1>1, <1>3, <1>4, <1>6, GoodEntry DEF e
  <1>9. /\ Reach(p, Side(p)) \in {r.version, r.version + 1}
        /\ Reach(q, Side(q)) \in {e.version, e.version + 1}
    BY DEF Reach, r, e
  <1> QED
    BY <1>3, <1>7, <1>8, <1>9

-----------------------------------------------------------------------------
(* The theorems *)

\* What a step that is no session keeps.
LEMMA QuietStep ==
    ASSUME Types', ListedInv', PairsInv', last' = NoSession
    PROVE  IInv'
  BY DEF IInv, NeverGoesBack, SessionConverges, NoSession

\* IInv is inductive.
THEOREM Inductive ==
    /\ Init => IInv
    /\ IInv /\ [Next]_vars => IInv'
  <1>1. Init => IInv
    <2> SUFFICES ASSUME Init PROVE IInv
      OBVIOUS
    <2>1. /\ clock = 0 /\ last = NoSession /\ missed = {} /\ kept = FALSE /\ switches = 0
          /\ strict \in BOOLEAN
          /\ \A p \in Peers : vault[p] = NoVault /\ json[p] = NoEntry /\ chain[p] = NoEntry
                              /\ open[p] = FALSE
      BY CatalogueSyncAssumption DEF Init
    <2>2. ListedInv
      BY <2>1 DEF ListedInv, Listed, Has, Good
    <2>3. Types
      <3>1. ModeTypes
        BY <2>1, CatalogueSyncAssumption DEF Init, ModeTypes
      <3>2. StoreTypes
        BY DEF Init, StoreTypes
      <3>3. LastTypes
        BY <2>1, NoSessionType DEF LastTypes
      <3>4. clock \in Times /\ open \in [Peers -> BOOLEAN]
        BY <2>1, CatalogueSyncAssumption DEF Init, Times
      <3> QED
        BY <2>1, <3>1, <3>2, <3>3, <3>4 DEF Types
    <2>4. PairsInv
      BY <2>1 DEF PairsInv, Good, Has
    <2>5. NeverGoesBack /\ SessionConverges
      BY <2>1 DEF NeverGoesBack, SessionConverges, NoSession
    <2> QED
      BY <2>2, <2>3, <2>4, <2>5 DEF IInv
  <1>2. IInv /\ [Next]_vars => IInv'
    <2> SUFFICES ASSUME IInv, [Next]_vars PROVE IInv'
      OBVIOUS
    <2>1. Types /\ ListedInv /\ PairsInv
      BY DEF IInv
    <2>2. ASSUME NEW p \in Peers, CreateVault(p), SameModes PROVE IInv'
      <3>1. Types' /\ ListedInv' /\ Written(p)
        BY <2>1, <2>2, CreateStep
      <3>2. last' = NoSession /\ Tick
        BY <2>2 DEF CreateVault
      <3> QED
        BY <3>1, <3>2, <2>1, WrittenKeeps, QuietStep
    <2>3. ASSUME NEW p \in Peers, EditInGUI(p), SameModes PROVE IInv'
      <3>1. Types' /\ ListedInv' /\ Written(p)
        BY <2>1, <2>3, EditStep
      <3>2. last' = NoSession /\ Tick
        BY <2>3 DEF EditInGUI
      <3> QED
        BY <3>1, <3>2, <2>1, WrittenKeeps, QuietStep
    <2>4. ASSUME NEW p \in Peers, EditInCLI(p), SameModes PROVE IInv'
      <3>1. Types' /\ ListedInv' /\ Written(p)
        BY <2>1, <2>4, CLIStep
      <3>2. last' = NoSession /\ Tick
        BY <2>4 DEF EditInCLI
      <3> QED
        BY <3>1, <3>2, <2>1, WrittenKeeps, QuietStep
    <2>5. ASSUME NEW p \in Peers, UnlockInGUI(p), SameModes PROVE IInv'
      <3>1. Types' /\ ListedInv' /\ Touched(p)
        BY <2>1, <2>5, UnlockStep
      <3>2. last' = NoSession
        BY <2>5 DEF UnlockInGUI
      <3> QED
        BY <3>1, <3>2, <2>1, TouchedKeeps, QuietStep
    <2>6. ASSUME NEW p \in Peers, LockInGUI(p), SameModes PROVE IInv'
      <3>1. Types' /\ ListedInv' /\ Touched(p)
        BY <2>1, <2>6, LockStep
      <3>2. last' = NoSession
        BY <2>6 DEF LockInGUI
      <3> QED
        BY <3>1, <3>2, <2>1, TouchedKeeps, QuietStep
    <2>7. ASSUME NEW p \in Peers, ApplySyncMode(p), strict' = strict PROVE IInv'
      <3>1. Types' /\ ListedInv' /\ Touched(p)
        BY <2>1, <2>7, ModeStep
      <3>2. last' = NoSession
        BY <2>7 DEF ApplySyncMode
      <3> QED
        BY <3>1, <3>2, <2>1, TouchedKeeps, QuietStep
    <2>8. ASSUME NEW p \in Peers, Restart(p), strict' = strict PROVE IInv'
      <3>1. Types' /\ ListedInv' /\ Touched(p)
        BY <2>1, <2>8, RestartStep
      <3>2. last' = NoSession
        BY <2>8 DEF Restart
      <3> QED
        BY <3>1, <3>2, <2>1, TouchedKeeps, QuietStep
    <2>9. ASSUME NEW p \in Peers, Send(p), SameModes PROVE IInv'
      <3>1. Types' /\ ListedInv' /\ Sent(p)
        BY <2>1, <2>9, SendStep
      <3>2. NeverGoesBack' /\ SessionConverges'
        BY <2>1, <2>9, SendKeepsEdits, SendConverges
      <3>3. PairsInv'
        BY <3>1, <2>1, SentKeeps
      <3> QED
        BY <3>1, <3>2, <3>3 DEF IInv
    <2>10. CASE UNCHANGED vars
      <3>1. Types' /\ ListedInv' /\ \A p \in Peers : Touched(p)
        BY <2>1, <2>10, StutterStep
      <3>2. PairsInv'
        BY <3>1, <2>1, TouchedKeeps DEF Peers
      <3>3. NeverGoesBack'
        BY <2>10 DEF IInv, NeverGoesBack, vars
      <3>4. SessionConverges'
        <4>1. /\ last' = last /\ kept' = kept /\ strict' = strict /\ service' = service
              /\ json' = json /\ chain' = chain
          BY <2>10 DEF vars, told
        <4>2. \A p : loadCatalogue(p)' = loadCatalogue(p)
          BY <4>1 DEF loadCatalogue
        <4>3. \A p : Going(p)' = Going(p) /\ (Conflict(p)' <=> Conflict(p))
          BY <4>1, <4>2 DEF Going, Conflict
        <4> QED
          BY <4>1, <4>3 DEF IInv, SessionConverges
      <3> QED
        BY <3>1, <3>2, <3>3, <3>4 DEF IInv
    <2>11. CASE \E p \in Peers : /\ Local(p) \/ Send(p)
                                 /\ UNCHANGED <<strict, service, observed, switches>>
      BY <2>11, <2>2, <2>3, <2>4, <2>5, <2>6, <2>9 DEF Local, SameModes
    <2>12. CASE \E p \in Peers : (ApplySyncMode(p) \/ Restart(p)) /\ UNCHANGED strict
      BY <2>12, <2>7, <2>8
    <2>13. CASE Exhausted
      BY <2>10, <2>13 DEF Exhausted
    <2> QED
      BY <2>10, <2>11, <2>12, <2>13 DEF Next
  <1> QED
    BY <1>1, <1>2

LEMMA Always == Spec => []IInv
  BY Inductive, PTL DEF Spec

\* The catalogues hold vaults and entries of their types, whatever the peers do.
THEOREM TypeCorrect == Spec => []TypeOK
  <1>1. IInv => TypeOK
    <2> SUFFICES ASSUME IInv PROVE TypeOK
      OBVIOUS
    <2>1. clock \in Nat /\ MaxClock \in Nat /\ clock <= MaxClock
      BY CatalogueSyncAssumption DEF IInv, Types, Times
    <2>2. /\ EntriesBy(clock) \subseteq EntriesBy(MaxClock)
          /\ VaultsBy(clock) \subseteq VaultsBy(MaxClock)
      BY <2>1, Grows
    <2>3. EntriesBy(MaxClock) = EntryStates /\ VaultsBy(MaxClock) = VaultStates
      BY DEF EntriesBy, VaultsBy, EntryStates, VaultStates, Times
    <2>4. EntriesBy(clock) \subseteq EntryStates /\ VaultsBy(clock) \subseteq VaultStates
      BY <2>2, <2>3
    <2> QED
      BY <2>4 DEF IInv, Types, StoreTypes, LastTypes, ModeTypes, TypeOK
  <1> QED
    BY <1>1, Always, PTL

\* Two vaults that differ are never taken for one by catalogues that were told of
\* every change: Negotiate moves one of them or reports a conflict.
THEOREM DivergenceIsSeen == Spec => []NoSilentDivergence
  <1>1. IInv => NoSilentDivergence
    <2> SUFFICES ASSUME IInv, Told, BothHave, vault[A] # vault[B],
                        \A p \in Peers : Going(p) # "push" /\ ~Conflict(p)
                 PROVE  FALSE
      BY DEF NoSilentDivergence
    <2> DEFINE k == Side(A)
               m == Side(B)
               l == At(A, k)
               r == At(B, m)
    <2>1. /\ A \in Peers /\ B \in Peers /\ Other(A) = B /\ Other(B) = A
          /\ k \in Kinds /\ m \in Kinds
      BY SideEntry, CatalogueSyncAssumption DEF Peers, Other
    <2>2. Good(A, k) /\ Good(B, m)
      BY <2>1, SideEntry DEF Told, Good, Has, BothHave
    <2>3. /\ l # NoEntry /\ r # NoEntry /\ l.version \in Nat /\ r.version \in Nat
      BY <2>1, <2>2, GoodEntry DEF IInv
    <2>4. Pair(A, k, B, m) /\ Pair(B, m, A, k)
      BY <2>1, <2>2 DEF IInv, PairsInv
    <2>5. ~N!sameChain(l, r) /\ ~N!sameChain(r, l) /\ l.modified # r.modified
      BY <2>4 DEF Pair, Current
    <2>6. /\ N!Direction(l, r, strict) # "push" /\ ~N!InConflict(l, r, strict)
          /\ N!Direction(r, l, strict) # "push"
      BY <2>1, SideEntry DEF Going, Conflict
    <2> HIDE DEF l, r, k, m
    <2>7. ~(strict /\ N!fingerprintMismatch(l, r)) /\ ~N!detectConflict(l, r)
      BY <2>3, <2>6 DEF N!InConflict
    <2>8. ~(strict /\ N!fingerprintMismatch(r, l))
      BY <2>7 DEF N!fingerprintMismatch
    <2>9. N!compareEntries(l, r) # "push" /\ N!compareEntries(r, l) # "push"
      BY <2>3, <2>6, <2>7, <2>8 DEF N!Direction
    <2>10. l.version = r.version
      BY <2>3, <2>5, <2>9 DEF N!compareEntries
    <2> QED
      BY <2>5, <2>7, <2>10 DEF N!detectConflict
  <1> QED
    BY <1>1, Always, PTL

\* A session replaces no vault by one of its ancestors, whatever services the peers
\* run, if both catalogues were told of every change and no entry was kept.
THEOREM SessionsKeepEdits == Spec => []NeverGoesBack
  <1>1. IInv => NeverGoesBack
    BY DEF IInv
  <1> QED
    BY <1>1, Always, PTL

\* Right after a session that copied the entry two peers have nothing to move or to
\* report.
THEOREM SessionsConverge == Spec => []SessionConverges
  <1>1. IInv => SessionConverges
    BY DEF IInv
  <1> QED
    BY <1>1, Always, PTL

============================================================================
