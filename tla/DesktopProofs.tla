---------------------------- MODULE DesktopProofs ----------------------------
(***************************************************************************)
(* Proofs about Desktop for any number of vaults, items and clicks, jobs,  *)
(* sessions and password changes in whatever order.                        *)
(*                                                                         *)
(* The callbacks read a.vault when they run, so what they do is right only *)
(* as long as a.vault, the cache and the content of the window stay        *)
(* together: OpenInv and ShowInv say how, and a password change that ends  *)
(* under the view of another vault is the one step that parts them.        *)
(***************************************************************************)
EXTENDS Desktop, SequenceTheorems, TLAPS

Names == Vaults \cup {None}
Shows(kinds) == [kind : kinds, vault : Names, obj : Nat, item : Items \cup {None}]
Views == {"select", "unlock", "vault"}
DialogKinds == {"destroy", "delete", "drop", "import", "export", "audit", "rekey",
                "saveas", "settings", "receiving", "syncing", "complete"}
AuditPage == [kind : {"audit"}, vault : Names, obj : {0}, item : {None},
              list : SUBSET Items]
DiskRec == [there : BOOLEAN, key : Nat, sealed : Nat, index : SUBSET Items,
            files : [Items -> Nat], age : Nat]
Obj == [vault : Vaults, items : SUBSET Items, key : Nat, age : Nat]
JobRec == [kind : Jobs, vault : Names, items : SUBSET Items, todo : SUBSET Items,
           busy : SUBSET (Items \X {"act", "append"}), at : [Items -> SUBSET Items],
           done : SUBSET Items, bad : BOOLEAN, raced : BOOLEAN, moved : BOOLEAN]
RekeyRec == [kind : {"rekey"}, obj : Nat]

StoreTypes == disk \in [Vaults -> DiskRec] /\ objs \in Seq(Obj)
OpenTypes == open \in [Vaults -> Nat] /\ cur \in Nat
ShowTypes == /\ screen \in Shows(Views \cup {"edit"}) \cup AuditPage
             /\ main \in Shows(Views)
             /\ screen.kind # "select" => screen.vault \in Vaults
             /\ main.kind # "select" => main.vault \in Vaults
DialogTypes == dialogs \in Seq(Shows(DialogKinds))
JobTypes == /\ job \in JobRec \cup RekeyRec \cup {NoJob}
            /\ job.kind = "audit" => job.vault \in Vaults
            /\ job.kind = "rekey" => job.obj \in 1 .. Len(objs)
RestTypes == /\ sync \in {"idle", "running", "committed", "reported"}
             /\ adrift \in BOOLEAN
Types == /\ StoreTypes /\ OpenTypes /\ ShowTypes /\ DialogTypes /\ JobTypes /\ RestTypes

\* The cache holds the objects of the vaults that are there, and the current
\* object is the one the cache has of its vault.
OpenInv == /\ \A v \in Vaults : open[v] # 0 =>
                 open[v] \in 1 .. Len(objs) /\ objs[open[v]].vault = v /\ disk[v].there
           /\ cur # 0 => cur \in 1 .. Len(objs) /\ open[objs[cur].vault] = cur

\* No object has a key its vault has not had yet.
KeyInv == /\ \A v \in Vaults : disk[v].sealed <= disk[v].key
          /\ \A i \in 1 .. Len(objs) : objs[i].key <= disk[objs[i].vault].key

\* The view of a vault is made from one of its objects ...
Made(s) == s.kind = "vault" => s.obj \in 1 .. Len(objs) /\ objs[s.obj].vault = s.vault
\* ... and unless a password change came between, from the current one.
Shown(s) == s.kind \in {"vault", "edit", "audit"} => cur # 0 /\ open[s.vault] = cur
ShowInv == /\ Made(screen) /\ Made(main)
           /\ main.kind = "vault" => screen.kind \in {"vault", "edit", "audit"}
           /\ ~adrift => Shown(screen) /\ Shown(main)

\* What a dialog was opened for.
Meant(d) == /\ d.kind = "drop" => d.obj \in 1 .. Len(objs) /\ objs[d.obj].vault = d.vault
            /\ d.kind \in {"delete", "drop"} => d.item \in Items
            /\ d.kind = "destroy" /\ ~adrift => d.vault = asked
DialogInv == \A i \in 1 .. Len(dialogs) : Meant(dialogs[i])

\* Every item of a job that goes well waits, is with a worker or is done.
Handled(x) == \/ x \in job.todo \/ x \in job.done
              \/ <<x, "act">> \in job.busy \/ <<x, "append">> \in job.busy
JobInv == job.kind \in Jobs =>
            /\ ~job.bad /\ ~job.raced => \A x \in Items : x \in job.items <=> Handled(x)
            /\ job.kind = "export" => \A x \in Items : <<x, "append">> \notin job.busy

IInv == /\ Types /\ OpenInv /\ KeyInv /\ ShowInv /\ DialogInv /\ JobInv
        /\ CacheAgrees /\ SaveGoesToItsVault

\* The steps that touch a vault, an object, the cache or the content of the
\* window, and the others.
Loud ==
    \/ Unlock \/ LockVault \/ DestroyVault \/ AddItem \/ Back \/ OnDelete \/
       DropItem \/ ImportEnds \/ AuditEnds \/ SaveSettings \/ AdoptVault \/
       Dismiss \/ SyncFails
    \/ \E v \in Vaults : SetVaultViewByName(v) \/ CreateVault(v) \/ Commit(v)
    \/ \E x \in Items : SelectItem(x) \/ OnSave(x) \/ WorkerStore(x) \/
       EditAudited(x)
Quiet == UNCHANGED <<disk, objs, open, cur, screen, main, saved, upset, adrift>>

LEMMA Steps == [Next]_vars => Quiet \/ Loud
  <1> SUFFICES ASSUME [Next]_vars PROVE Quiet \/ Loud
    OBVIOUS
  <1>1. CASE AskDestroy
    BY <1>1 DEF AskDestroy, Quiet, history
  <1>2. CASE Cancel
    BY <1>2 DEF Cancel, Quiet, history
  <1>3. CASE AskDelete
    BY <1>3 DEF AskDelete, Quiet, history
  <1>4. CASE ImportFromFile
    BY <1>4 DEF ImportFromFile, Quiet, history
  <1>5. CASE AskExport
    BY <1>5 DEF AskExport, Quiet, history
  <1>6. CASE ExportToFile
    BY <1>6 DEF ExportToFile, Crash, window, Quiet, history
  <1>7. CASE AuditPasswords
    BY <1>7 DEF AuditPasswords, Quiet, history
  <1>8. CASE CancelJob
    BY <1>8 DEF CancelJob, window, Quiet, history
  <1>9. ASSUME NEW x \in Items, Acquire(x) PROVE Quiet \/ Loud
    BY <1>9 DEF Acquire, window, Quiet, history
  <1>10. ASSUME NEW x \in Items, WorkerLoad(x) PROVE Quiet \/ Loud
    BY <1>10 DEF WorkerLoad, Crash, window, Quiet, history
  <1>11. ASSUME NEW x \in Items, WorkerFails(x) PROVE Quiet \/ Loud
    BY <1>11 DEF WorkerFails, window, Quiet, history
  <1>12. ASSUME NEW x \in Items, WorkerAppend(x) PROVE Quiet \/ Loud
    BY <1>12 DEF WorkerAppend, window, Quiet, history
  <1>13. CASE ExportEnds
    BY <1>13 DEF ExportEnds, Quiet, history
  <1>14. CASE AskSettings
    BY <1>14 DEF AskSettings, Quiet, history
  <1>15. CASE ChangePassword
    BY <1>15 DEF ChangePassword, Quiet, history
  <1>16. CASE HandleIncomingSync
    BY <1>16 DEF HandleIncomingSync, Quiet, history
  <1>17. CASE StartSync
    BY <1>17 DEF StartSync, Quiet, history
  <1>18. CASE Report
    BY <1>18 DEF Report, Quiet, history
  <1>19. CASE UNCHANGED vars
    BY <1>19 DEF vars, history, window, Quiet
  <1> QED
    BY <1>1, <1>2, <1>3, <1>4, <1>5, <1>6, <1>7, <1>8, <1>9, <1>10, <1>11, <1>12, <1>13,
       <1>14, <1>15, <1>16, <1>17, <1>18, <1>19 DEF Next, Workers, JobEnds, Loud

-----------------------------------------------------------------------------
(* Types *)

LEMMA ObjsPut ==
    ASSUME objs \in Seq(Obj), NEW o \in 1 .. Len(objs), NEW S \in SUBSET Items,
           objs' = [objs EXCEPT ![o].items = S]
    PROVE  /\ objs' \in Seq(Obj) /\ Len(objs') = Len(objs)
           /\ \A i \in 1 .. Len(objs) : /\ objs'[i].vault = objs[i].vault
                                        /\ objs'[i].key = objs[i].key
                                        /\ i # o => objs'[i].items = objs[i].items
           /\ objs'[o].items = S
  <1> DEFINE b == [objs[o] EXCEPT !.items = S]
  <1>1. objs[o] \in Obj
    OBVIOUS
  <1>2. /\ b \in Obj /\ b.vault = objs[o].vault /\ b.key = objs[o].key
        /\ b.items = S
    BY <1>1 DEF Obj
  <1>3. objs' = [objs EXCEPT ![o] = b]
    OBVIOUS
  <1> HIDE DEF b
  <1>4. objs' \in Seq(Obj) /\ Len(objs') = Len(objs)
    BY <1>2, <1>3
  <1>5. \A i \in 1 .. Len(objs) : objs'[i] = IF i = o THEN b ELSE objs[i]
    BY <1>3
  <1> QED
    BY <1>2, <1>4, <1>5

LEMMA ObjsAppend ==
    ASSUME objs \in Seq(Obj), NEW b \in Obj, objs' = Append(objs, b)
    PROVE  /\ objs' \in Seq(Obj) /\ Len(objs') = Len(objs) + 1 /\ objs'[Len(objs')] = b
           /\ \A i \in 1 .. Len(objs) : objs'[i] = objs[i]
  OBVIOUS

LEMMA ObjAt ==
    ASSUME StoreTypes, NEW o \in 1 .. Len(objs)
    PROVE  /\ objs[o] \in Obj /\ objs[o].vault \in Vaults /\ objs[o].items \subseteq Items
           /\ objs[o].key \in Nat /\ objs[o].age \in Nat
  <1>1. objs[o] \in Obj
    BY DEF StoreTypes
  <1> QED
    BY <1>1 DEF Obj

LEMMA DiskAt ==
    ASSUME StoreTypes, NEW v \in Vaults
    PROVE  /\ disk[v] \in DiskRec /\ disk[v].there \in BOOLEAN
           /\ disk[v].index \subseteq Items
           /\ disk[v].key \in Nat /\ disk[v].sealed \in Nat /\ disk[v].age \in Nat
           /\ disk[v].files \in [Items -> Nat]
  <1>1. disk[v] \in DiskRec
    BY DEF StoreTypes
  <1> QED
    BY <1>1 DEF DiskRec

\* The vault whose password was changed is that of an object.
LEMMA RekeyObj ==
    ASSUME Types, AdoptVault
    PROVE  /\ job.obj \in 1 .. Len(objs) /\ objs[job.obj] \in Obj
           /\ objs[job.obj].vault \in Vaults /\ disk[objs[job.obj].vault].key + 1 \in Nat
  <1>1. job.kind = "rekey"
    BY DEF AdoptVault
  <1>2. job.obj \in 1 .. Len(objs) /\ StoreTypes
    BY <1>1 DEF Types, JobTypes
  <1>3. objs[job.obj] \in Obj /\ objs[job.obj].vault \in Vaults
    BY <1>2, ObjAt
  <1>4. disk[objs[job.obj].vault].key \in Nat
    BY <1>2, <1>3, DiskAt
  <1> QED
    BY <1>2, <1>3, <1>4

LEMMA JobAt ==
    ASSUME JobTypes, job.kind \in Jobs
    PROVE  /\ job \in JobRec /\ job.items \subseteq Items /\ job.todo \subseteq Items
           /\ job.done \subseteq Items /\ job.busy \subseteq Items \X {"act", "append"}
           /\ job.at \in [Items -> SUBSET Items] /\ job.bad \in BOOLEAN
           /\ job.raced \in BOOLEAN /\ job.moved \in BOOLEAN /\ job.vault \in Names
  <1>1. job \in JobRec
    BY DEF JobTypes, Jobs, RekeyRec, NoJob
  <1> QED
    BY <1>1 DEF JobRec

\* Objects are only added, and keep their vault and their key.
ObjsKept == /\ objs' \in Seq(Obj) /\ Len(objs) <= Len(objs')
            /\ \A i \in 1 .. Len(objs) : /\ objs'[i].vault = objs[i].vault
                                         /\ objs'[i].key = objs[i].key

LEMMA PutKept ==
    ASSUME objs \in Seq(Obj),
           objs' = objs \/ \E o \in 1 .. Len(objs), S \in SUBSET Items :
                             objs' = [objs EXCEPT ![o].items = S]
    PROVE  ObjsKept /\ Len(objs') = Len(objs)
  <1>1. CASE objs' = objs
    BY <1>1 DEF ObjsKept
  <1>2. ASSUME NEW o \in 1 .. Len(objs), NEW S \in SUBSET Items,
               objs' = [objs EXCEPT ![o].items = S]
        PROVE  ObjsKept /\ Len(objs') = Len(objs)
    <2>1. objs' \in Seq(Obj) /\ Len(objs') = Len(objs)
      BY <1>2, ObjsPut
    <2>2. \A i \in 1 .. Len(objs) : objs'[i].vault = objs[i].vault
                /\ objs'[i].key = objs[i].key
      BY <1>2, ObjsPut
    <2> QED
      BY <2>1, <2>2 DEF ObjsKept
  <1> QED
    BY <1>1, <1>2

LEMMA AppendKept ==
    ASSUME objs \in Seq(Obj), NEW b \in Obj, objs' = Append(objs, b) PROVE ObjsKept
  BY ObjsAppend DEF ObjsKept

\* The steps that make an object.
Adds == Unlock \/ AdoptVault \/ \E v \in Vaults : CreateVault(v)

\* No step takes an object away, or changes its vault or its key.
LEMMA ObjsNext ==
    Types /\ OpenInv /\ DialogInv /\ [Next]_vars
      => ObjsKept /\ (Adds \/ Len(objs') = Len(objs))
  <1> SUFFICES ASSUME Types, OpenInv, DialogInv, [Next]_vars
               PROVE  ObjsKept /\ (Adds \/ Len(objs') = Len(objs))
    OBVIOUS
  <1>o. StoreTypes /\ objs \in Seq(Obj)
    BY DEF Types, StoreTypes
  <1>1. ASSUME NEW v \in Vaults, SetVaultViewByName(v)
        PROVE  ObjsKept /\ (Adds \/ Len(objs') = Len(objs))
    BY <1>1, <1>o DEF SetVaultViewByName, ShowMain, ObjsKept
  <1>2. CASE Unlock
    <2> DEFINE v == screen.vault
               b == [vault |-> v, items |-> disk[v].index, key |-> disk[v].key,
                     age |-> disk[v].age]
    <2>1. v \in Vaults
      BY <1>2 DEF Unlock, Types, ShowTypes
    <2>2. b \in Obj
      BY <2>1, <1>o, DiskAt DEF Obj
    <2>3. objs' = Append(objs, b)
      BY <1>2 DEF Unlock, SetVaultView
    <2> HIDE DEF b
    <2> QED
      BY <1>2, <1>o, <2>2, <2>3, AppendKept DEF Adds
  <1>3. ASSUME NEW v \in Vaults, CreateVault(v)
        PROVE  ObjsKept /\ (Adds \/ Len(objs') = Len(objs))
    <2> DEFINE b == [vault |-> v, items |-> {}, key |-> disk[v].key + 1,
                     age |-> disk[v].age]
    <2>1. b \in Obj
      BY <1>o, DiskAt DEF Obj
    <2>2. objs' = Append(objs, b)
      BY <1>3 DEF CreateVault, SetVaultView
    <2> HIDE DEF b
    <2> QED
      BY <1>3, <1>o, <2>1, <2>2, AppendKept DEF Adds
  <1>4. CASE LockVault
    BY <1>4, <1>o DEF LockVault, ShowMain, ObjsKept
  <1>5. CASE DestroyVault
    BY <1>5, <1>o DEF DestroyVault, ShowMain, ObjsKept
  <1>6. ASSUME NEW x \in Items, SelectItem(x)
        PROVE  ObjsKept /\ (Adds \/ Len(objs') = Len(objs))
    BY <1>6, <1>o DEF SelectItem, ObjsKept
  <1>7. CASE AddItem
    BY <1>7, <1>o DEF AddItem, ObjsKept
  <1>8. CASE Back
    BY <1>8, <1>o DEF Back, ObjsKept
  <1>9. ASSUME NEW x \in Items, OnSave(x)
        PROVE  ObjsKept /\ (Adds \/ Len(objs') = Len(objs))
    <2>1. ASSUME objs' # objs
          PROVE  \E o \in 1 .. Len(objs), S \in SUBSET Items :
                    objs' = [objs EXCEPT ![o].items = S]
      <3>1. cur \in 1 .. Len(objs)
        BY <1>9, <2>1 DEF OnSave, Crash, window, OpenInv
      <3>2. objs[cur].items \subseteq Items
        BY <3>1, <1>o, ObjAt
      <3> QED
        BY <1>9, <2>1, <3>1, <3>2 DEF OnSave, Crash, window
    <2> QED
      BY <1>o, <2>1, PutKept
  <1>10. CASE OnDelete
    <2>1. ASSUME objs' # objs
          PROVE  \E o \in 1 .. Len(objs), S \in SUBSET Items :
                    objs' = [objs EXCEPT ![o].items = S]
      <3>1. cur \in 1 .. Len(objs)
        BY <1>10, <2>1 DEF OnDelete, Crash, window, OpenInv
      <3>2. objs[cur].items \subseteq Items
        BY <3>1, <1>o, ObjAt
      <3> QED
        BY <1>10, <2>1, <3>1, <3>2 DEF OnDelete, Crash, window
    <2> QED
      BY <1>o, <2>1, PutKept
  <1>11. CASE DropItem
    <2>1. ASSUME objs' # objs
          PROVE  \E o \in 1 .. Len(objs), S \in SUBSET Items :
                    objs' = [objs EXCEPT ![o].items = S]
      <3>1. Last(dialogs).obj \in 1 .. Len(objs)
        BY <1>11, <2>1 DEF DropItem, Top, Last, DialogInv, Meant, Types, DialogTypes
      <3>2. objs[Last(dialogs).obj].items \subseteq Items
        BY <3>1, <1>o, ObjAt
      <3> QED
        BY <1>11, <2>1, <3>1, <3>2 DEF DropItem
    <2> QED
      BY <1>o, <2>1, PutKept
  <1>12. ASSUME NEW x \in Items, WorkerStore(x)
        PROVE  ObjsKept /\ (Adds \/ Len(objs') = Len(objs))
    BY <1>12, <1>o DEF WorkerStore, Crash, window, ObjsKept
  <1>13. CASE ImportEnds
    <2>1. ASSUME objs' # objs
          PROVE  \E o \in 1 .. Len(objs), S \in SUBSET Items :
                    objs' = [objs EXCEPT ![o].items = S]
      <3>1. cur \in 1 .. Len(objs)
        BY <1>13, <2>1 DEF ImportEnds, Crash, window, OpenInv
      <3>2. objs[cur].items \subseteq Items
        BY <3>1, <1>o, ObjAt
      <3>3. job.done \subseteq Items
        BY <1>13, JobAt DEF ImportEnds, Working, Types
      <3> QED
        BY <1>13, <2>1, <3>1, <3>2, <3>3 DEF ImportEnds, Crash, window
    <2> QED
      BY <1>o, <2>1, PutKept
  <1>14. CASE AuditEnds
    BY <1>14, <1>o DEF AuditEnds, ObjsKept
  <1>15. ASSUME NEW x \in Items, EditAudited(x)
        PROVE  ObjsKept /\ (Adds \/ Len(objs') = Len(objs))
    BY <1>15, <1>o DEF EditAudited, ObjsKept
  <1>16. CASE SaveSettings
    BY <1>16, <1>o DEF SaveSettings, Crash, window, ObjsKept
  <1>17. CASE AdoptVault
    <2> DEFINE k == disk[objs[job.obj].vault].key + 1
               b == [objs[job.obj] EXCEPT !.key = k]
    <2>1. job.obj \in 1 .. Len(objs)
      BY <1>17 DEF AdoptVault, Types, JobTypes
    <2>2. objs[job.obj] \in Obj /\ k \in Nat
      BY <2>1, <1>o, ObjAt, DiskAt
    <2> HIDE DEF k
    <2>3. b \in Obj
      BY <2>2 DEF Obj
    <2>4. objs' = objs \/ objs' = Append(objs, b)
      BY <1>17 DEF AdoptVault, k
    <2> HIDE DEF b
    <2> QED
      BY <1>17, <1>o, <2>3, <2>4, AppendKept, PutKept DEF Adds
  <1>18. ASSUME NEW v \in Vaults, Commit(v)
        PROVE  ObjsKept /\ (Adds \/ Len(objs') = Len(objs))
    BY <1>18, <1>o DEF Commit, window, ObjsKept
  <1>19. CASE Dismiss
    BY <1>19, <1>o DEF Dismiss, ReloadStateFromDisk, ShowMain, ObjsKept
  <1>20. CASE SyncFails
    BY <1>20, <1>o DEF SyncFails, ReloadStateFromDisk, ShowMain, ObjsKept
  <1>21. CASE Quiet
    BY <1>21, <1>o DEF Quiet, ObjsKept
  <1> QED
    BY Steps, <1>1, <1>2, <1>3, <1>4, <1>5, <1>6, <1>7, <1>8, <1>9, <1>10, <1>11, <1>12,
       <1>13, <1>14, <1>15, <1>16, <1>17, <1>18, <1>19, <1>20, <1>21 DEF Loud

\* Two states of the disk that differ in files only.
SameBut(d, e) == /\ d \in [Vaults -> DiskRec] /\ e \in [Vaults -> DiskRec]
                 /\ \A v \in Vaults : /\ e[v].there = d[v].there /\ e[v].key = d[v].key
                                      /\ e[v].sealed = d[v].sealed
                                      /\ e[v].index = d[v].index

LEMMA PutFileAt ==
    ASSUME NEW d \in [Vaults -> DiskRec], NEW w \in Vaults, NEW x \in Items, NEW k \in Nat
    PROVE  SameBut(d, PutFile(d, w, x, k))
  <1> DEFINE r == [d[w] EXCEPT !.files[x] = k]
             e == [d EXCEPT ![w] = r]
  <1>1. d[w] \in DiskRec
    OBVIOUS
  <1>2. /\ r \in DiskRec /\ r.there = d[w].there /\ r.key = d[w].key
        /\ r.sealed = d[w].sealed /\ r.index = d[w].index
    BY <1>1 DEF DiskRec
  <1>3. PutFile(d, w, x, k) = IF d[w].there THEN e ELSE d
    BY DEF PutFile
  <1> HIDE DEF r
  <1>4. SameBut(d, e)
    BY <1>2 DEF SameBut
  <1>5. SameBut(d, d)
    BY DEF SameBut
  <1> HIDE DEF e
  <1> QED
    BY <1>3, <1>4, <1>5

LEMMA SameTwice ==
    ASSUME NEW c, NEW d, NEW e, SameBut(c, d), SameBut(d, e) PROVE SameBut(c, e)
  BY DEF SameBut

\* The object's list and key become those of its vault, if that is there.
Stores(o) == \E d : SameBut(disk, d) /\ disk' = StoreVault(d, o)

LEMMA StoresAt ==
    ASSUME StoreTypes, objs' \in Seq(Obj), NEW o \in 1 .. Len(objs'), Stores(o)
    PROVE  /\ disk' \in [Vaults -> DiskRec]
           /\ \A v \in Vaults :
                 /\ disk'[v].there = disk[v].there /\ disk'[v].key = disk[v].key
                 /\ v = objs'[o].vault /\ disk[v].there =>
                       disk'[v].index = objs'[o].items /\ disk'[v].sealed = objs'[o].key
                 /\ v # objs'[o].vault \/ ~disk[v].there =>
                       disk'[v].index = disk[v].index /\ disk'[v].sealed = disk[v].sealed
  <1> DEFINE b == objs'[o]
             w == b.vault
  <1>1. b \in Obj /\ w \in Vaults /\ b.items \subseteq Items /\ b.key \in Nat
    <2>1. b \in Obj
      OBVIOUS
    <2> QED
      BY <2>1 DEF Obj
  <1>2. PICK d : SameBut(disk, d) /\ disk' = StoreVault(d, o)
    BY DEF Stores
  <1> DEFINE r == [d[w] EXCEPT !.index = b.items, !.sealed = b.key]
  <1>3. d \in [Vaults -> DiskRec] /\ d[w] \in DiskRec
    BY <1>1, <1>2 DEF SameBut
  <1>4. disk' = IF ~d[w].there THEN d ELSE [d EXCEPT ![w] = r]
    BY <1>2, <1>3 DEF StoreVault
  <1> HIDE DEF b
  <1>5. /\ r \in DiskRec /\ r.there = d[w].there /\ r.key = d[w].key
        /\ r.sealed = b.key /\ r.index = b.items
    BY <1>1, <1>3 DEF DiskRec
  <1> HIDE DEF w, r
  <1>6. CASE ~d[w].there
    BY <1>1, <1>2, <1>4, <1>6 DEF SameBut, b, w
  <1>7. CASE d[w].there
    <2>1. disk' = [d EXCEPT ![w] = r]
      BY <1>4, <1>7
    <2>2. disk' \in [Vaults -> DiskRec]
      BY <1>3, <1>5, <2>1
    <2>3. \A v \in Vaults : disk'[v] = IF v = w THEN r ELSE d[v]
      BY <1>3, <2>1
    <2>4. ASSUME NEW v \in Vaults
          PROVE  /\ disk'[v].there = disk[v].there /\ disk'[v].key = disk[v].key
                 /\ v = w => disk'[v].index = b.items /\ disk'[v].sealed = b.key
                 /\ v # w => /\ disk'[v].index = disk[v].index
                             /\ disk'[v].sealed = disk[v].sealed
      <3>1. /\ d[v].there = disk[v].there /\ d[v].key = disk[v].key
            /\ d[v].index = disk[v].index /\ d[v].sealed = disk[v].sealed
        BY <1>2 DEF SameBut
      <3>2. CASE v = w
        BY <1>5, <2>3, <3>1, <3>2
      <3>3. CASE v # w
        BY <2>3, <3>1, <3>3
      <3> QED
        BY <3>2, <3>3
    <2>5. disk[w].there
      BY <1>1, <1>2, <1>7 DEF SameBut
    <2> QED
      BY <2>2, <2>4, <2>5 DEF b, w
  <1> QED
    BY <1>6, <1>7

\* The steps that store an object: what they do to the disk.
LEMMA OnSaveStores ==
    ASSUME Types, OpenInv, NEW y \in Items, OnSave(y), cur # 0
    PROVE  cur \in 1 .. Len(objs) /\ Stores(cur)
  <1> DEFINE x == screen.item
             v == objs[cur].vault
             one == PutFile(disk, v, y, objs[cur].key)
             two == PutFile(one, v, x, 0)
  <1>1. cur \in 1 .. Len(objs) /\ disk \in [Vaults -> DiskRec]
    BY DEF OpenInv, Types, StoreTypes
  <1>2. v \in Vaults /\ objs[cur].key \in Nat
    BY <1>1, ObjAt DEF Types
  <1>3. x \in Items \/ x = None
    BY DEF Types, ShowTypes, Shows, AuditPage
  <1>4. SameBut(disk, one)
    BY <1>1, <1>2, PutFileAt
  <1> HIDE DEF one
  <1>5. x \in Items => SameBut(disk, two)
    <2>1. one \in [Vaults -> DiskRec]
      BY <1>4 DEF SameBut
    <2> SUFFICES ASSUME x \in Items PROVE SameBut(disk, two)
      OBVIOUS
    <2>2. SameBut(one, two)
      BY <1>2, <2>1, PutFileAt
    <2> QED
      BY <1>4, <2>2, SameTwice
  <1>6. disk' = StoreVault(one, cur) \/ (x \in Items /\ disk' = StoreVault(two, cur))
    BY <1>3 DEF OnSave, one
  <1> HIDE DEF two
  <1> QED
    BY <1>1, <1>4, <1>5, <1>6 DEF Stores

LEMMA OnDeleteStores ==
    ASSUME Types, OpenInv, DialogInv, OnDelete, disk' # disk
    PROVE  cur \in 1 .. Len(objs) /\ Stores(cur)
  <1> DEFINE x == Last(dialogs).item
             v == objs[cur].vault
             one == PutFile(disk, v, x, 0)
  <1>1. cur \in 1 .. Len(objs) /\ disk \in [Vaults -> DiskRec]
    BY DEF OnDelete, Crash, OpenInv, Types, StoreTypes
  <1>2. v \in Vaults
    BY <1>1, ObjAt DEF Types
  <1>3. disk' = StoreVault(one, cur)
    BY <1>1 DEF OnDelete, Crash
  <1>4. x \in Items
    BY DEF OnDelete, Top, Last, Types, DialogTypes, DialogInv, Meant
  <1>5. SameBut(disk, one)
    BY <1>1, <1>2, <1>4, PutFileAt
  <1> HIDE DEF one
  <1> QED
    BY <1>1, <1>3, <1>5 DEF Stores

LEMMA DropItemStores ==
    ASSUME Types, DialogInv, DropItem
    PROVE  Last(dialogs).obj \in 1 .. Len(objs) /\ Stores(Last(dialogs).obj)
  <1> DEFINE d == Last(dialogs)
             one == PutFile(disk, d.vault, d.item, 0)
  <1>1. Meant(d) /\ d.kind = "drop"
    BY DEF DropItem, Top, Last, DialogInv, Types, DialogTypes
  <1>2. d.obj \in 1 .. Len(objs) /\ d.vault \in Vaults /\ d.item \in Items
    BY <1>1, ObjAt DEF Meant, Types
  <1>3. SameBut(disk, one)
    BY <1>2, PutFileAt DEF Types, StoreTypes
  <1>4. disk' = StoreVault(one, d.obj)
    BY DEF DropItem
  <1> HIDE DEF one
  <1> QED
    BY <1>2, <1>3, <1>4 DEF Stores

LEMMA SaveSettingsStores ==
    ASSUME Types, OpenInv, SaveSettings, disk' # disk
    PROVE  cur \in 1 .. Len(objs) /\ Stores(cur)
  <1>1. cur \in 1 .. Len(objs) /\ disk' = StoreVault(disk, cur)
    BY DEF SaveSettings, Crash, OpenInv
  <1>2. SameBut(disk, disk)
    BY DEF SameBut, Types, StoreTypes
  <1> QED
    BY <1>1, <1>2 DEF Stores

LEMMA ImportEndsStores ==
    ASSUME Types, OpenInv, ImportEnds, disk' # disk
    PROVE  /\ cur \in 1 .. Len(objs)
           /\ job.bad => SameBut(disk, disk')
           /\ ~job.bad => Stores(cur)
  <1> DEFINE v == objs[cur].vault
             r == [disk[v] EXCEPT !.files = [x \in Items |-> IF x \in job.done THEN 0 ELSE @[x]]]
  <1>1. cur \in 1 .. Len(objs)
    BY DEF ImportEnds, Crash, OpenInv
  <1>2. disk \in [Vaults -> DiskRec] /\ v \in Vaults /\ disk[v] \in DiskRec
    BY <1>1, ObjAt DEF Types, StoreTypes
  <1>3. ASSUME job.bad PROVE SameBut(disk, disk')
    <2>1. disk' = [disk EXCEPT ![v] = r]
      BY <1>1, <1>3 DEF ImportEnds
    <2>2. r \in DiskRec /\ r.there = disk[v].there /\ r.key = disk[v].key
          /\ r.sealed = disk[v].sealed /\ r.index = disk[v].index
      BY <1>2 DEF DiskRec
    <2> HIDE DEF r
    <2> QED
      BY <1>2, <2>1, <2>2 DEF SameBut
  <1>4. ASSUME ~job.bad PROVE Stores(cur)
    <2>1. disk' = StoreVault(disk, cur)
      BY <1>1, <1>4 DEF ImportEnds
    <2>2. SameBut(disk, disk)
      BY <1>2 DEF SameBut
    <2> QED
      BY <2>1, <2>2 DEF Stores
  <1> QED
    BY <1>1, <1>3, <1>4

\* The vault of the confirmation the user said Yes to.
Doomed(v) == open'[v] = 0 /\ Top("destroy") /\ v = Last(dialogs).vault
\* Vaults keep their number of keys or get a new one, and none goes away that the
\* cache still has.
DiskKept == /\ disk' \in [Vaults -> DiskRec]
            /\ \A v \in Vaults : /\ disk[v].key <= disk'[v].key
                                 /\ disk[v].there => disk'[v].there \/ Doomed(v)

LEMMA SameKept ==
    ASSUME StoreTypes, SameBut(disk, disk') PROVE DiskKept
  <1>1. \A v \in Vaults : disk[v].key \in Nat
    BY DiskAt
  <1> QED
    BY <1>1 DEF SameBut, DiskKept

LEMMA StoredKept ==
    ASSUME StoreTypes, ObjsKept, NEW o \in 1 .. Len(objs), Stores(o) PROVE DiskKept
  <1>1. objs' \in Seq(Obj) /\ o \in 1 .. Len(objs')
    BY DEF ObjsKept, StoreTypes
  <1>2. \A v \in Vaults : disk[v].key \in Nat
    BY DiskAt
  <1>3. /\ disk' \in [Vaults -> DiskRec]
        /\ \A v \in Vaults : /\ disk'[v].key = disk[v].key
                             /\ disk'[v].there = disk[v].there
    BY <1>1, StoresAt
  <1> QED
    BY <1>2, <1>3 DEF DiskKept

\* One vault's directory changes, as a whole.
LEMMA OneKept ==
    ASSUME StoreTypes, NEW w \in Vaults, NEW r \in DiskRec, r.key >= disk[w].key,
           disk[w].there => r.there \/ Doomed(w), disk' = [disk EXCEPT ![w] = r]
    PROVE  DiskKept
  <1>1. \A v \in Vaults : disk[v].key \in Nat
    BY DiskAt
  <1>2. disk \in [Vaults -> DiskRec] /\ r.key \in Nat
    BY DEF StoreTypes, DiskRec
  <1>3. disk' \in [Vaults -> DiskRec]
    BY <1>2
  <1>4. \A v \in Vaults : disk'[v] = IF v = w THEN r ELSE disk[v]
    BY <1>2
  <1> QED
    BY <1>1, <1>2, <1>3, <1>4 DEF DiskKept

\* Only the vault of a confirmation goes away, and no vault gets an older key.
LEMMA DiskNext == Types /\ OpenInv /\ DialogInv /\ ObjsKept /\ [Next]_vars => DiskKept
  <1> SUFFICES ASSUME Types, OpenInv, DialogInv, ObjsKept, [Next]_vars PROVE DiskKept
    OBVIOUS
  <1>o. StoreTypes
    BY DEF Types
  <1>s. disk' = disk => SameBut(disk, disk')
    BY <1>o DEF StoreTypes, SameBut
  <1>k. ObjsKept
    OBVIOUS
  <1>1. ASSUME NEW v \in Vaults, SetVaultViewByName(v) PROVE DiskKept
    BY <1>1, <1>o, <1>s, SameKept DEF SetVaultViewByName, ShowMain
  <1>2. CASE Unlock
    BY <1>2, <1>o, <1>s, SameKept DEF Unlock, SetVaultView, ShowMain
  <1>3. ASSUME NEW v \in Vaults, CreateVault(v) PROVE DiskKept
    <2> DEFINE r == [there |-> TRUE, key |-> disk[v].key + 1, sealed |-> disk[v].key + 1,
                     index |-> {}, files |-> [x \in Items |-> 0], age |-> disk[v].age]
    <2>1. disk[v].key \in Nat /\ disk[v].age \in Nat
      BY <1>o, DiskAt
    <2>2. r \in DiskRec /\ r.key >= disk[v].key /\ r.there
      BY <2>1 DEF DiskRec
    <2>3. disk' = [disk EXCEPT ![v] = r]
      BY <1>3 DEF CreateVault
    <2> HIDE DEF r
    <2> QED
      BY <1>o, <2>1, <2>2, <2>3, OneKept
  <1>4. CASE LockVault
    BY <1>4, <1>o, <1>s, SameKept DEF LockVault, ShowMain
  <1>5. CASE DestroyVault
    <2> DEFINE v == Last(dialogs).vault
               r == [disk[v] EXCEPT !.there = FALSE]
    <2>1. disk' = [disk EXCEPT ![v] = r]
      BY <1>5 DEF DestroyVault
    <2>2. CASE v \in Vaults
      <3>1. disk[v] \in DiskRec /\ disk[v].key \in Nat
        BY <1>o, <2>2, DiskAt
      <3>2. r \in DiskRec /\ r.key = disk[v].key
        BY <3>1 DEF DiskRec
      <3> HIDE DEF v, r
      <3>3. r.key >= disk[v].key
        BY <3>1, <3>2
      <3>4. Doomed(v)
        BY <1>5, <2>2 DEF DestroyVault, Types, OpenTypes, Doomed, v
      <3> QED
        BY <1>o, <2>1, <2>2, <3>2, <3>3, <3>4, OneKept
    <2>3. CASE v \notin Vaults
      <3>1. disk' = disk
        BY <2>1, <2>3 DEF Types, StoreTypes
      <3> QED
        BY <1>o, <1>s, <3>1, SameKept
    <2> QED
      BY <2>2, <2>3
  <1>6. ASSUME NEW x \in Items, SelectItem(x) PROVE DiskKept
    BY <1>6, <1>o, <1>s, SameKept DEF SelectItem
  <1>7. CASE AddItem
    BY <1>7, <1>o, <1>s, SameKept DEF AddItem
  <1>8. CASE Back
    BY <1>8, <1>o, <1>s, SameKept DEF Back
  <1>9. ASSUME NEW x \in Items, OnSave(x) PROVE DiskKept
    <2>1. CASE cur = 0
      <3>1. disk' = disk
        BY <1>9, <2>1 DEF OnSave, Crash
      <3> QED
        BY <3>1, <1>o, <1>s, SameKept
    <2>2. CASE cur # 0
      BY <1>9, <2>2, <1>o, <1>k, OnSaveStores, StoredKept
    <2> QED
      BY <2>1, <2>2
  <1>10. CASE OnDelete
    <2>1. CASE disk' = disk
      BY <2>1, <1>o, <1>s, SameKept
    <2>2. CASE disk' # disk
      BY <1>10, <2>2, <1>o, <1>k, OnDeleteStores, StoredKept
    <2> QED
      BY <2>1, <2>2
  <1>11. CASE DropItem
    BY <1>11, <1>o, <1>k, DropItemStores, StoredKept DEF DropItem
  <1>12. ASSUME NEW x \in Items, WorkerStore(x) PROVE DiskKept
    <2>1. CASE disk' = disk
      BY <2>1, <1>o, <1>s, SameKept
    <2>2. CASE disk' # disk
      <3>1. /\ cur \in 1 .. Len(objs)
            /\ disk' = PutFile(disk, objs[cur].vault, x, objs[cur].key)
        BY <1>12, <2>2 DEF WorkerStore, Crash, OpenInv
      <3>2. SameBut(disk, disk')
        BY <1>o, <3>1, ObjAt, PutFileAt DEF StoreTypes
      <3> QED
        BY <1>o, <3>2, SameKept
    <2> QED
      BY <2>1, <2>2
  <1>13. CASE ImportEnds
    <2>1. CASE disk' = disk
      BY <2>1, <1>o, <1>s, SameKept
    <2>2. CASE disk' # disk
      BY <1>13, <2>2, <1>o, <1>k, ImportEndsStores, StoredKept, SameKept
    <2> QED
      BY <2>1, <2>2
  <1>14. CASE AuditEnds
    BY <1>14, <1>o, <1>s, SameKept DEF AuditEnds
  <1>15. ASSUME NEW x \in Items, EditAudited(x) PROVE DiskKept
    BY <1>15, <1>o, <1>s, SameKept DEF EditAudited
  <1>16. CASE SaveSettings
    <2>1. CASE disk' = disk
      BY <2>1, <1>o, <1>s, SameKept
    <2>2. CASE disk' # disk
      BY <1>16, <2>2, <1>o, <1>k, SaveSettingsStores, StoredKept
    <2> QED
      BY <2>1, <2>2
  <1>17. CASE AdoptVault
    <2> DEFINE b == objs[job.obj]
               v == b.vault
               k == disk[v].key + 1
               f == [x \in Items |-> IF x \in b.items THEN k ELSE 0]
               r == [disk[v] EXCEPT !.key = k, !.sealed = k, !.index = b.items, !.files = f]
    <2>1. job.obj \in 1 .. Len(objs)
      BY <1>17 DEF AdoptVault, Types, JobTypes
    <2>2. v \in Vaults /\ b.items \subseteq Items
      BY <1>o, <2>1, ObjAt
    <2>3. disk[v] \in DiskRec /\ disk[v].key \in Nat
      BY <1>o, <2>2, DiskAt
    <2>4. disk' = disk \/ disk' = [disk EXCEPT ![v] = r]
      BY <1>17 DEF AdoptVault
    <2>5. k \in Nat /\ k >= disk[v].key /\ f \in [Items -> Nat]
      BY <2>3
    <2> HIDE DEF b, k, f
    <2>6. r \in DiskRec /\ r.key >= disk[v].key /\ r.there = disk[v].there
      BY <2>2, <2>3, <2>5 DEF DiskRec
    <2> HIDE DEF v, r
    <2> QED
      BY <1>o, <1>s, <2>2, <2>3, <2>4, <2>6, OneKept, SameKept
  <1>18. ASSUME NEW v \in Vaults, Commit(v) PROVE DiskKept
    <2> DEFINE f == [disk[v].files EXCEPT ![PeerItem] = disk[v].key]
               i == disk[v].index \cup {PeerItem}
               a == disk[v].age + 1
               r == [disk[v] EXCEPT !.index = i, !.files = f, !.age = a]
    <2>1. disk' = [disk EXCEPT ![v] = r]
      BY <1>18 DEF Commit
    <2>2. disk[v] \in DiskRec /\ disk[v].key \in Nat /\ PeerItem \in Items
      BY <1>o, DiskAt, DesktopAssumption
    <2>4. f \in [Items -> Nat] /\ i \subseteq Items /\ a \in Nat
      BY <1>o, <2>2, DiskAt
    <2> HIDE DEF f, i, a
    <2>3. r \in DiskRec /\ r.key = disk[v].key /\ r.there = disk[v].there
      BY <2>2, <2>4 DEF DiskRec
    <2> HIDE DEF r
    <2>5. r.key >= disk[v].key
      BY <2>2, <2>3
    <2> QED
      BY <1>o, <2>1, <2>3, <2>5, OneKept
  <1>19. CASE Dismiss
    BY <1>19, <1>o, <1>s, SameKept DEF Dismiss, ReloadStateFromDisk, ShowMain
  <1>20. CASE SyncFails
    BY <1>20, <1>o, <1>s, SameKept DEF SyncFails, ReloadStateFromDisk, ShowMain
  <1>21. CASE Quiet
    BY <1>21, <1>o, <1>s, SameKept DEF Quiet
  <1> QED
    BY Steps, <1>1, <1>2, <1>3, <1>4, <1>5, <1>6, <1>7, <1>8, <1>9, <1>10, <1>11, <1>12,
       <1>13, <1>14, <1>15, <1>16, <1>17, <1>18, <1>19, <1>20, <1>21 DEF Loud

-----------------------------------------------------------------------------
(* The cache and the current object *)

LEMMA OpenStays ==
    ASSUME Types, OpenInv, ObjsKept, DiskKept, open' = open, cur' = cur
    PROVE  OpenTypes' /\ OpenInv'
  <1>1. \A i \in 1 .. Len(objs) : i \in 1 .. Len(objs') /\ objs'[i].vault = objs[i].vault
    BY DEF ObjsKept, Types, StoreTypes
  <1>2. \A v \in Vaults : open[v] # 0 =>
           open[v] \in 1 .. Len(objs') /\ objs'[open[v]].vault = v /\ disk'[v].there
    BY <1>1 DEF OpenInv, DiskKept, Doomed
  <1> QED
    BY <1>1, <1>2 DEF OpenInv, OpenTypes, Types

\* A vault that was just loaded or made.
LEMMA OpenNew ==
    ASSUME Types, OpenInv, ObjsKept, DiskKept, NEW b \in Obj, objs' = Append(objs, b),
           disk'[b.vault].there, open' = [open EXCEPT ![b.vault] = Len(objs')],
           cur' = Len(objs')
    PROVE  OpenTypes' /\ OpenInv'
  <1>1. \A i \in 1 .. Len(objs) : i \in 1 .. Len(objs') /\ objs'[i].vault = objs[i].vault
    BY DEF ObjsKept, Types, StoreTypes
  <1>2. Len(objs') \in Nat /\ Len(objs') \in 1 .. Len(objs') /\ objs'[Len(objs')] = b
    BY ObjsAppend DEF Types, StoreTypes
  <1>3. b.vault \in Vaults
    BY DEF Obj
  <1>4. \A v \in Vaults : open'[v] = IF v = b.vault THEN Len(objs') ELSE open[v]
    BY <1>3 DEF Types, OpenTypes
  <1>5. \A v \in Vaults : open'[v] # 0 =>
           open'[v] \in 1 .. Len(objs') /\ objs'[open'[v]].vault = v /\ disk'[v].there
    BY <1>1, <1>2, <1>4 DEF OpenInv, DiskKept, Doomed
  <1>6. OpenTypes'
    BY <1>2 DEF Types, OpenTypes
  <1> QED
    BY <1>2, <1>3, <1>4, <1>5, <1>6 DEF OpenInv

\* The cache and a.vault stay together.
LEMMA OpenNext ==
    Types /\ OpenInv /\ ObjsKept /\ DiskKept /\ [Next]_vars => OpenTypes' /\ OpenInv'
  <1> SUFFICES ASSUME Types, OpenInv, ObjsKept, DiskKept, [Next]_vars
               PROVE  OpenTypes' /\ OpenInv'
    OBVIOUS
  <1>1. ASSUME NEW v \in Vaults, SetVaultViewByName(v) PROVE OpenTypes' /\ OpenInv'
    <2>1. cur' = open[v] /\ UNCHANGED <<disk, objs, open>>
      BY <1>1 DEF SetVaultViewByName
    <2> QED
      BY <2>1 DEF OpenInv, OpenTypes, Types
  <1>2. CASE Unlock
    <2> DEFINE v == screen.vault
               b == [vault |-> v, items |-> disk[v].index, key |-> disk[v].key,
                     age |-> disk[v].age]
    <2>1. v \in Vaults
      BY <1>2 DEF Unlock, Types, ShowTypes
    <2>2. b \in Obj /\ b.vault = v
      BY <2>1, DiskAt DEF Obj, Types
    <2>3. /\ objs' = Append(objs, b) /\ disk' = disk /\ disk[b.vault].there
          /\ open' = [open EXCEPT ![b.vault] = Len(objs')] /\ cur' = Len(objs')
      BY <1>2 DEF Unlock, SetVaultView
    <2> HIDE DEF b
    <2> QED
      BY <2>2, <2>3, OpenNew
  <1>3. ASSUME NEW v \in Vaults, CreateVault(v) PROVE OpenTypes' /\ OpenInv'
    <2> DEFINE b == [vault |-> v, items |-> {}, key |-> disk[v].key + 1,
                     age |-> disk[v].age]
    <2>1. b \in Obj /\ b.vault = v
      BY DiskAt DEF Obj, Types
    <2>2. /\ objs' = Append(objs, b)
          /\ open' = [open EXCEPT ![b.vault] = Len(objs')] /\ cur' = Len(objs')
      BY <1>3 DEF CreateVault, SetVaultView
    <2>3. disk'[v].there
      BY <1>3 DEF CreateVault, Types, StoreTypes
    <2> HIDE DEF b
    <2> QED
      BY <2>1, <2>2, <2>3, OpenNew
  <1>4. CASE LockVault
    <2>1. /\ cur' = 0 /\ open' = [open EXCEPT ![objs[cur].vault] = 0]
          /\ UNCHANGED <<disk, objs>>
      BY <1>4 DEF LockVault
    <2> QED
      BY <2>1 DEF OpenInv, OpenTypes, Types
  <1>5. CASE DestroyVault
    <2>1. /\ cur' = 0 /\ objs' = objs
          /\ open' = [open EXCEPT ![Last(dialogs).vault] = 0]
      BY <1>5 DEF DestroyVault
    <2>2. \A v \in Vaults : open'[v] = 0 \/ open'[v] = open[v]
      BY <2>1 DEF OpenTypes, Types
    <2>3. \A v \in Vaults : disk[v].there => disk'[v].there \/ open'[v] = 0
      BY DEF DiskKept, Doomed
    <2>4. OpenTypes'
      BY <2>1 DEF OpenTypes, Types
    <2> QED
      BY <2>1, <2>2, <2>3, <2>4 DEF OpenInv
  <1>6. ASSUME NEW x \in Items, SelectItem(x) PROVE OpenTypes' /\ OpenInv'
    BY <1>6, OpenStays DEF SelectItem
  <1>7. CASE AddItem
    BY <1>7, OpenStays DEF AddItem
  <1>8. CASE Back
    BY <1>8, OpenStays DEF Back
  <1>9. ASSUME NEW x \in Items, OnSave(x) PROVE OpenTypes' /\ OpenInv'
    BY <1>9, OpenStays DEF OnSave, Crash, ShowMain, window
  <1>10. CASE OnDelete
    BY <1>10, OpenStays DEF OnDelete, Crash, ShowMain, window
  <1>11. CASE DropItem
    BY <1>11, OpenStays DEF DropItem
  <1>12. ASSUME NEW x \in Items, WorkerStore(x) PROVE OpenTypes' /\ OpenInv'
    BY <1>12, OpenStays DEF WorkerStore, Crash, window
  <1>13. CASE ImportEnds
    BY <1>13, OpenStays DEF ImportEnds, Crash, ShowMain, window
  <1>14. CASE AuditEnds
    BY <1>14, OpenStays DEF AuditEnds
  <1>15. ASSUME NEW x \in Items, EditAudited(x) PROVE OpenTypes' /\ OpenInv'
    BY <1>15, OpenStays DEF EditAudited
  <1>16. CASE SaveSettings
    BY <1>16, OpenStays DEF SaveSettings, Crash, window
  <1>17. CASE AdoptVault
    <2>1. CASE UNCHANGED <<disk, objs, cur, open>>
      BY <2>1, OpenStays
    <2>2. CASE ~UNCHANGED <<disk, objs, cur, open>>
      <3> DEFINE v == objs[job.obj].vault
                 k == disk[v].key + 1
                 b == [objs[job.obj] EXCEPT !.key = k]
      <3>1. objs[job.obj] \in Obj /\ v \in Vaults /\ k \in Nat
        BY <1>17, RekeyObj
      <3>2. /\ objs' = Append(objs, b) /\ disk[v].there /\ cur' = Len(objs')
            /\ open' = [open EXCEPT ![v] = Len(objs')]
        BY <1>17, <2>2 DEF AdoptVault
      <3> HIDE DEF k
      <3>3. b \in Obj /\ b.vault = v
        BY <3>1 DEF Obj
      <3>4. open'[v] # 0
        <4>1. Len(objs') = Len(objs) + 1 /\ Len(objs) \in Nat
          BY <3>2, <3>3, ObjsAppend DEF Types, StoreTypes
        <4> QED
          BY <3>1, <3>2, <4>1 DEF Types, OpenTypes
      <3>5. disk'[v].there
        BY <3>1, <3>2, <3>4 DEF DiskKept, Doomed
      <3> HIDE DEF b, v
      <3> QED
        BY <3>2, <3>3, <3>5, OpenNew
    <2> QED
      BY <2>1, <2>2
  <1>18. ASSUME NEW v \in Vaults, Commit(v) PROVE OpenTypes' /\ OpenInv'
    BY <1>18, OpenStays DEF Commit, window
  <1>19. CASE Dismiss
    <2>1. open' = [v \in Vaults |-> 0] /\ cur' = 0
      BY <1>19 DEF Dismiss, ReloadStateFromDisk
    <2> QED
      BY <2>1 DEF OpenInv, OpenTypes
  <1>20. CASE SyncFails
    <2>1. open' = [v \in Vaults |-> 0] /\ cur' = 0
      BY <1>20 DEF SyncFails, ReloadStateFromDisk
    <2> QED
      BY <2>1 DEF OpenInv, OpenTypes
  <1>21. CASE Quiet
    BY <1>21, OpenStays DEF Quiet
  <1> QED
    BY Steps, <1>1, <1>2, <1>3, <1>4, <1>5, <1>6, <1>7, <1>8, <1>9, <1>10, <1>11, <1>12,
       <1>13, <1>14, <1>15, <1>16, <1>17, <1>18, <1>19, <1>20, <1>21 DEF Loud

\* What a password change has parted stays marked.
LEMMA AdriftNext == Types /\ [Next]_vars => adrift' \in BOOLEAN /\ (adrift => adrift')
  <1> SUFFICES ASSUME Types, [Next]_vars
               PROVE  adrift' \in BOOLEAN /\ (adrift => adrift')
    OBVIOUS
  <1>a. adrift \in BOOLEAN
    BY DEF Types, RestTypes
  <1>1. ASSUME NEW v \in Vaults, SetVaultViewByName(v)
        PROVE  adrift' \in BOOLEAN /\ (adrift => adrift')
    BY <1>1, <1>a DEF SetVaultViewByName, ShowMain, history
  <1>2. CASE Unlock
    BY <1>2, <1>a DEF Unlock, SetVaultView, ShowMain
  <1>3. ASSUME NEW v \in Vaults, CreateVault(v)
        PROVE  adrift' \in BOOLEAN /\ (adrift => adrift')
    BY <1>3, <1>a DEF CreateVault, SetVaultView, ShowMain
  <1>4. CASE LockVault
    BY <1>4, <1>a DEF LockVault, ShowMain, history
  <1>5. CASE DestroyVault
    BY <1>5, <1>a DEF DestroyVault, ShowMain, history
  <1>6. ASSUME NEW x \in Items, SelectItem(x)
        PROVE  adrift' \in BOOLEAN /\ (adrift => adrift')
    BY <1>6, <1>a DEF SelectItem, history
  <1>7. CASE AddItem
    BY <1>7, <1>a DEF AddItem, history
  <1>8. CASE Back
    BY <1>8, <1>a DEF Back, history
  <1>9. ASSUME NEW x \in Items, OnSave(x)
        PROVE  adrift' \in BOOLEAN /\ (adrift => adrift')
    BY <1>9, <1>a DEF OnSave, Crash, ShowMain, window, history
  <1>10. CASE OnDelete
    BY <1>10, <1>a DEF OnDelete, Crash, ShowMain, window, history
  <1>11. CASE DropItem
    BY <1>11, <1>a DEF DropItem, history
  <1>12. ASSUME NEW x \in Items, WorkerStore(x)
        PROVE  adrift' \in BOOLEAN /\ (adrift => adrift')
    BY <1>12, <1>a DEF WorkerStore, Crash, window, history
  <1>13. CASE ImportEnds
    BY <1>13, <1>a DEF ImportEnds, Crash, ShowMain, window, history
  <1>14. CASE AuditEnds
    BY <1>14, <1>a DEF AuditEnds
  <1>15. ASSUME NEW x \in Items, EditAudited(x)
        PROVE  adrift' \in BOOLEAN /\ (adrift => adrift')
    BY <1>15, <1>a DEF EditAudited, history
  <1>16. CASE SaveSettings
    BY <1>16, <1>a DEF SaveSettings, Crash, window, history
  <1>17. CASE AdoptVault
    BY <1>17, <1>a DEF AdoptVault
  <1>18. ASSUME NEW v \in Vaults, Commit(v)
        PROVE  adrift' \in BOOLEAN /\ (adrift => adrift')
    BY <1>18, <1>a DEF Commit, window
  <1>19. CASE Dismiss
    BY <1>19, <1>a DEF Dismiss, ReloadStateFromDisk, ShowMain, history
  <1>20. CASE SyncFails
    BY <1>20, <1>a DEF SyncFails, ReloadStateFromDisk, ShowMain, history
  <1>21. CASE Quiet
    BY <1>21, <1>a DEF Quiet, history
  <1> QED
    BY Steps, <1>1, <1>2, <1>3, <1>4, <1>5, <1>6, <1>7, <1>8, <1>9, <1>10, <1>11, <1>12,
       <1>13, <1>14, <1>15, <1>16, <1>17, <1>18, <1>19, <1>20, <1>21 DEF Loud

-----------------------------------------------------------------------------
(* Keys *)

LEMMA StoredSeal ==
    ASSUME Types, KeyInv, ObjsKept, NEW o \in 1 .. Len(objs), Stores(o)
    PROVE  \A v \in Vaults : disk'[v].sealed <= disk'[v].key
  <1>1. StoreTypes /\ objs' \in Seq(Obj) /\ o \in 1 .. Len(objs')
    BY DEF ObjsKept, Types, StoreTypes
  <1>2. objs'[o].key <= disk[objs'[o].vault].key
    BY DEF KeyInv, ObjsKept
  <1>3. \A v \in Vaults :
          /\ disk'[v].key = disk[v].key
          /\ \/ disk'[v].sealed = objs'[o].key /\ v = objs'[o].vault
             \/ disk'[v].sealed = disk[v].sealed
    BY <1>1, StoresAt, DiskAt
  <1> QED
    BY <1>2, <1>3 DEF KeyInv

LEMMA SameSeal ==
    ASSUME KeyInv, SameBut(disk, disk')
    PROVE  \A v \in Vaults : disk'[v].sealed <= disk'[v].key
  BY DEF SameBut, KeyInv

\* A vault is sealed with a key it has had.
LEMMA SealNext ==
    Types /\ OpenInv /\ KeyInv /\ DialogInv /\ ObjsKept /\ [Next]_vars
      => \A w \in Vaults : disk'[w].sealed <= disk'[w].key
  <1> SUFFICES ASSUME Types, OpenInv, KeyInv, DialogInv, ObjsKept, [Next]_vars
               PROVE  \A w \in Vaults : disk'[w].sealed <= disk'[w].key
    OBVIOUS
  <1>o. StoreTypes
    BY DEF Types
  <1>s. disk' = disk => SameBut(disk, disk')
    BY <1>o DEF StoreTypes, SameBut
  <1>1. ASSUME NEW v \in Vaults, SetVaultViewByName(v)
        PROVE  \A w \in Vaults : disk'[w].sealed <= disk'[w].key
    BY <1>1, <1>s, SameSeal DEF SetVaultViewByName, ShowMain
  <1>2. CASE Unlock
    BY <1>2, <1>s, SameSeal DEF Unlock, SetVaultView, ShowMain
  <1>3. ASSUME NEW v \in Vaults, CreateVault(v)
        PROVE  \A w \in Vaults : disk'[w].sealed <= disk'[w].key
    <2>1. disk' = [disk EXCEPT ![v] =
             [there |-> TRUE, key |-> @.key + 1, sealed |-> @.key + 1, index |-> {},
              files |-> [x \in Items |-> 0], age |-> @.age]]
      BY <1>3 DEF CreateVault
    <2>2. \A w \in Vaults : w # v => disk'[w] = disk[w]
      BY <1>o, <2>1 DEF StoreTypes
    <2>3. disk'[v].sealed = disk[v].key + 1 /\ disk'[v].key = disk[v].key + 1
      BY <1>o, <2>1 DEF StoreTypes
    <2>4. disk[v].key \in Nat
      BY <1>o, DiskAt
    <2> QED
      BY <2>2, <2>3, <2>4 DEF KeyInv
  <1>4. CASE LockVault
    BY <1>4, <1>s, SameSeal DEF LockVault, ShowMain
  <1>5. CASE DestroyVault
    <2>1. disk' = [disk EXCEPT ![Last(dialogs).vault].there = FALSE]
      BY <1>5 DEF DestroyVault
    <2>2. \A v \in Vaults : disk'[v].sealed = disk[v].sealed /\ disk'[v].key = disk[v].key
      BY <1>o, <2>1, DiskAt DEF StoreTypes, DiskRec
    <2> QED
      BY <2>2 DEF KeyInv
  <1>6. ASSUME NEW x \in Items, SelectItem(x)
        PROVE  \A w \in Vaults : disk'[w].sealed <= disk'[w].key
    BY <1>6, <1>s, SameSeal DEF SelectItem
  <1>7. CASE AddItem
    BY <1>7, <1>s, SameSeal DEF AddItem
  <1>8. CASE Back
    BY <1>8, <1>s, SameSeal DEF Back
  <1>9. ASSUME NEW x \in Items, OnSave(x)
        PROVE  \A w \in Vaults : disk'[w].sealed <= disk'[w].key
    <2>1. CASE cur = 0
      <3>1. disk' = disk
        BY <1>9, <2>1 DEF OnSave, Crash
      <3> QED
        BY <3>1, <1>s, SameSeal
    <2>2. CASE cur # 0
      BY <1>9, <2>2, OnSaveStores, StoredSeal
    <2> QED
      BY <2>1, <2>2
  <1>10. CASE OnDelete
    <2>1. CASE disk' = disk
      BY <2>1, <1>s, SameSeal
    <2>2. CASE disk' # disk
      BY <1>10, <2>2, OnDeleteStores, StoredSeal
    <2> QED
      BY <2>1, <2>2
  <1>11. CASE DropItem
    BY <1>11, DropItemStores, StoredSeal DEF DropItem
  <1>12. ASSUME NEW x \in Items, WorkerStore(x)
        PROVE  \A w \in Vaults : disk'[w].sealed <= disk'[w].key
    <2>1. CASE disk' = disk
      BY <2>1, <1>s, SameSeal
    <2>2. CASE disk' # disk
      <3>1. /\ cur \in 1 .. Len(objs)
            /\ disk' = PutFile(disk, objs[cur].vault, x, objs[cur].key)
        BY <1>12, <2>2 DEF WorkerStore, Crash, OpenInv
      <3>2. SameBut(disk, disk')
        BY <1>o, <3>1, ObjAt, PutFileAt DEF StoreTypes
      <3> QED
        BY <3>2, SameSeal
    <2> QED
      BY <2>1, <2>2
  <1>13. CASE ImportEnds
    <2>1. CASE disk' = disk
      BY <2>1, <1>s, SameSeal
    <2>2. CASE disk' # disk
      BY <1>13, <2>2, ImportEndsStores, SameSeal, StoredSeal
    <2> QED
      BY <2>1, <2>2
  <1>14. CASE AuditEnds
    BY <1>14, <1>s, SameSeal DEF AuditEnds
  <1>15. ASSUME NEW x \in Items, EditAudited(x)
        PROVE  \A w \in Vaults : disk'[w].sealed <= disk'[w].key
    BY <1>15, <1>s, SameSeal DEF EditAudited
  <1>16. CASE SaveSettings
    <2>1. CASE disk' = disk
      BY <2>1, <1>s, SameSeal
    <2>2. CASE disk' # disk
      BY <1>16, <2>2, SaveSettingsStores, StoredSeal
    <2> QED
      BY <2>1, <2>2
  <1>17. CASE AdoptVault
    <2> DEFINE b == objs[job.obj]
               v == b.vault
               k == disk[v].key + 1
               f == [x \in Items |-> IF x \in b.items THEN k ELSE 0]
               r == [disk[v] EXCEPT !.key = k, !.sealed = k, !.index = b.items, !.files = f]
    <2>1. job.obj \in 1 .. Len(objs)
      BY <1>17 DEF AdoptVault, Types, JobTypes
    <2>2. v \in Vaults
      BY <1>o, <2>1, ObjAt
    <2>3. disk[v] \in DiskRec /\ disk[v].key \in Nat
      BY <1>o, <2>2, DiskAt
    <2>4. disk' = disk \/ disk' = [disk EXCEPT ![v] = r]
      BY <1>17 DEF AdoptVault
    <2>5. k \in Nat
      BY <2>3
    <2> HIDE DEF b, k, f
    <2>6. r.key = k /\ r.sealed = k
      BY <2>3 DEF DiskRec
    <2> HIDE DEF v, r
    <2>7. CASE disk' = [disk EXCEPT ![v] = r]
      <3>1. \A w \in Vaults : disk'[w] = IF w = v THEN r ELSE disk[w]
        BY <1>o, <2>7 DEF StoreTypes
      <3> QED
        BY <2>5, <2>6, <3>1 DEF KeyInv
    <2> QED
      BY <1>s, <2>4, <2>7, SameSeal
  <1>18. ASSUME NEW v \in Vaults, Commit(v)
        PROVE  \A w \in Vaults : disk'[w].sealed <= disk'[w].key
    <2>1. disk' = [disk EXCEPT ![v].index = @ \cup {PeerItem},
                               ![v].files[PeerItem] = disk[v].key, ![v].age = @ + 1]
      BY <1>18 DEF Commit
    <2>2. \A w \in Vaults : w # v => disk'[w] = disk[w]
      BY <1>o, <2>1 DEF StoreTypes
    <2>3. disk'[v].sealed = disk[v].sealed /\ disk'[v].key = disk[v].key
      BY <1>o, <2>1, DiskAt DEF StoreTypes, DiskRec
    <2> QED
      BY <2>2, <2>3 DEF KeyInv
  <1>19. CASE Dismiss
    BY <1>19, <1>s, SameSeal DEF Dismiss, ReloadStateFromDisk, ShowMain
  <1>20. CASE SyncFails
    BY <1>20, <1>s, SameSeal DEF SyncFails, ReloadStateFromDisk, ShowMain
  <1>21. CASE Quiet
    BY <1>21, <1>s, SameSeal DEF Quiet
  <1> QED
    BY Steps, <1>1, <1>2, <1>3, <1>4, <1>5, <1>6, <1>7, <1>8, <1>9, <1>10, <1>11, <1>12,
       <1>13, <1>14, <1>15, <1>16, <1>17, <1>18, <1>19, <1>20, <1>21 DEF Loud

LEMMA KeyStays ==
    ASSUME Types, KeyInv, ObjsKept, DiskKept, NEW i \in 1 .. Len(objs)
    PROVE  objs'[i].key <= disk'[objs'[i].vault].key
  <1>1. StoreTypes
    BY DEF Types
  <1>2. objs[i].vault \in Vaults /\ objs[i].key \in Nat
    BY <1>1, ObjAt
  <1> DEFINE v == objs[i].vault
  <1>3. disk[v].key \in Nat /\ disk'[v] \in DiskRec
    BY <1>1, <1>2, DiskAt DEF DiskKept
  <1>4. disk'[v].key \in Nat
    BY <1>3 DEF DiskRec
  <1>5. objs[i].key <= disk[v].key /\ disk[v].key <= disk'[v].key
    BY <1>2 DEF KeyInv, DiskKept
  <1>6. objs'[i].key = objs[i].key /\ objs'[i].vault = v
    BY DEF ObjsKept
  <1> QED
    BY <1>2, <1>3, <1>4, <1>5, <1>6

\* No object has a key that its vault has not had yet.
LEMMA KeyNext ==
    ASSUME Types, OpenInv, KeyInv, DialogInv, ObjsKept, DiskKept,
           \A v \in Vaults : disk'[v].sealed <= disk'[v].key,
           Adds \/ Len(objs') = Len(objs)
    PROVE  KeyInv'
  <1>o. StoreTypes /\ objs \in Seq(Obj) /\ disk \in [Vaults -> DiskRec]
    BY DEF Types, StoreTypes
  <1>1. CASE Len(objs') = Len(objs)
    BY <1>1, KeyStays DEF KeyInv
  <1>2. ASSUME NEW b \in Obj, objs' = Append(objs, b), b.key <= disk'[b.vault].key
        PROVE  KeyInv'
    <2>1. Len(objs') = Len(objs) + 1 /\ objs'[Len(objs')] = b /\ Len(objs) \in Nat
      BY <1>o, <1>2, ObjsAppend
    <2>2. \A i \in 1 .. Len(objs') : i \in 1 .. Len(objs) \/ i = Len(objs')
      BY <2>1
    <2> QED
      BY <1>2, <2>1, <2>2, KeyStays DEF KeyInv
  <1>3. CASE Unlock
    <2> DEFINE v == screen.vault
               b == [vault |-> v, items |-> disk[v].index, key |-> disk[v].key,
                     age |-> disk[v].age]
    <2>1. v \in Vaults
      BY <1>3 DEF Unlock, Types, ShowTypes
    <2>2. b \in Obj /\ b.vault = v /\ b.key = disk[v].key /\ disk[v].key \in Nat
      BY <2>1, <1>o, DiskAt DEF Obj
    <2>3. objs' = Append(objs, b) /\ disk' = disk
      BY <1>3 DEF Unlock, SetVaultView
    <2> HIDE DEF b
    <2> QED
      BY <1>2, <2>2, <2>3
  <1>4. ASSUME NEW v \in Vaults, CreateVault(v) PROVE KeyInv'
    <2> DEFINE b == [vault |-> v, items |-> {}, key |-> disk[v].key + 1,
                     age |-> disk[v].age]
    <2>1. b \in Obj /\ b.vault = v /\ b.key = disk[v].key + 1 /\ disk[v].key \in Nat
      BY <1>o, DiskAt DEF Obj
    <2>2. objs' = Append(objs, b)
      BY <1>4 DEF CreateVault, SetVaultView
    <2>3. disk'[v].key = disk[v].key + 1
      BY <1>o, <1>4 DEF CreateVault
    <2> HIDE DEF b
    <2> QED
      BY <1>2, <2>1, <2>2, <2>3
  <1>5. CASE AdoptVault
    <2> DEFINE v == objs[job.obj].vault
               k == disk[v].key + 1
               b == [objs[job.obj] EXCEPT !.key = k]
    <2>1. objs[job.obj] \in Obj /\ v \in Vaults
      BY <1>o, <1>5, ObjAt DEF AdoptVault, Types, JobTypes
    <2>2. k \in Nat /\ disk[v] \in DiskRec
      BY <1>o, <2>1, DiskAt
    <2>3. Len(objs') = Len(objs) \/ (objs' = Append(objs, b) /\ disk'[v].key = k)
      <3>1. CASE objs' = objs
        BY <3>1
      <3>2. CASE objs' # objs
        <4>1. disk' = [disk EXCEPT ![v] = [@ EXCEPT !.key = k, !.sealed = k,
                       !.index = objs[job.obj].items,
                       !.files = [x \in Items |-> IF x \in objs[job.obj].items THEN k ELSE 0]]]
          BY <1>5, <3>2 DEF AdoptVault
        <4>2. objs' = Append(objs, b)
          BY <1>5, <3>2 DEF AdoptVault
        <4> HIDE DEF k
        <4>3. disk'[v].key = k
          BY <1>o, <2>1, <2>2, <4>1 DEF DiskRec
        <4> QED
          BY <4>2, <4>3
      <3> QED
        BY <3>1, <3>2
    <2> HIDE DEF k
    <2>4. b \in Obj /\ b.vault = v /\ b.key = k
      BY <2>1, <2>2 DEF Obj
    <2> HIDE DEF b, v
    <2> QED
      BY <1>1, <1>2, <2>2, <2>3, <2>4
  <1> QED
    BY <1>1, <1>3, <1>4, <1>5 DEF Adds

-----------------------------------------------------------------------------
(* What the cache lists *)

\* A vault whose object and whose file list what they did.
Quietly(v) == /\ open'[v] = open[v]
              /\ open[v] # 0 => objs'[open[v]].items = objs[open[v]].items
              /\ disk'[v].index = disk[v].index

LEMMA AgreeStays ==
    ASSUME CacheAgrees, upset \subseteq upset',
           \A v \in Vaults : v \in upset' \/ open'[v] = 0 \/ Quietly(v)
    PROVE  CacheAgrees'
  BY DEF CacheAgrees, Quietly

\* An object is stored and no other one changes.
LEMMA AgreeStored ==
    ASSUME Types, OpenInv, ObjsKept, CacheAgrees, upset \subseteq upset', open' = open,
           NEW o \in 1 .. Len(objs), Stores(o),
           \A i \in 1 .. Len(objs) : i # o => objs'[i].items = objs[i].items,
           open[objs[o].vault] = o \/ objs[o].vault \in upset'
    PROVE  CacheAgrees'
  <1> DEFINE w == objs[o].vault
  <1>1. StoreTypes /\ objs' \in Seq(Obj) /\ o \in 1 .. Len(objs')
    BY DEF ObjsKept, Types, StoreTypes
  <1>2. objs'[o].vault = w /\ w \in Vaults
    BY <1>1, ObjAt DEF ObjsKept
  <1>3. /\ disk[w].there => disk'[w].index = objs'[o].items
        /\ \A v \in Vaults : v # w => disk'[v].index = disk[v].index
    BY <1>1, <1>2, StoresAt
  <1>4. \A v \in Vaults : v # w /\ open[v] # 0 => open[v] \in 1 .. Len(objs) /\ open[v] # o
    BY DEF OpenInv
  <1>5. open[w] = o => disk[w].there
    BY <1>2 DEF OpenInv
  <1> QED
    BY <1>2, <1>3, <1>4, <1>5 DEF CacheAgrees

LEMMA ImportEndsAgree ==
    ASSUME Types, OpenInv, ObjsKept, CacheAgrees, ImportEnds PROVE CacheAgrees'
  <1> DEFINE v == objs[cur].vault
             S == objs[cur].items \ job.done
             T == objs[cur].items \cup job.done
  <1>o. StoreTypes /\ objs \in Seq(Obj)
    BY DEF Types, StoreTypes
  <1>1. open' = open /\ upset \subseteq upset'
    BY DEF ImportEnds, Crash, window, history, MarkOlder
  <1>2. CASE UNCHANGED <<disk, objs>>
    BY <1>1, <1>2, AgreeStays DEF Quietly
  <1>3. CASE ~UNCHANGED <<disk, objs>>
    <2>1. /\ cur # 0
          /\ \/ job.bad /\ objs' = [objs EXCEPT ![cur].items = S] /\ v \in upset'
             \/ ~job.bad /\ objs' = [objs EXCEPT ![cur].items = T] /\ disk' = StoreVault(disk, cur)
      BY <1>3 DEF ImportEnds, Crash, window
    <2>2. /\ cur \in 1 .. Len(objs) /\ v \in Vaults /\ open[v] = cur
          /\ S \subseteq Items
      BY <1>o, <2>1, ObjAt DEF OpenInv
    <2>3. T \subseteq Items
      BY <1>o, <2>2, ObjAt, JobAt DEF ImportEnds, Working, Types
    <2>4. \A i \in 1 .. Len(objs) : i # cur => objs'[i].items = objs[i].items
      BY <1>o, <2>1
    <2>5. CASE job.bad
      <3>1. disk' = disk \/ SameBut(disk, disk')
        BY <2>5, ImportEndsStores
      <3>2. \A w \in Vaults : disk'[w].index = disk[w].index
        BY <3>1 DEF SameBut
      <3>3. \A w \in Vaults : w # v /\ open[w] # 0 =>
               open[w] \in 1 .. Len(objs) /\ open[w] # cur
        BY DEF OpenInv
      <3> QED
        BY <1>1, <2>1, <2>4, <2>5, <3>2, <3>3, AgreeStays DEF Quietly
    <2>6. CASE ~job.bad
      <3>1. SameBut(disk, disk)
        BY <1>o DEF SameBut, StoreTypes
      <3>2. Stores(cur)
        BY <2>1, <2>6, <3>1 DEF Stores
      <3> QED
        BY <1>1, <2>2, <2>4, <3>2, AgreeStored
    <2> QED
      BY <2>5, <2>6
  <1> QED
    BY <1>2, <1>3

LEMMA AdoptVaultAgree ==
    ASSUME Types, OpenInv, ObjsKept, CacheAgrees, AdoptVault PROVE CacheAgrees'
  <1>o. StoreTypes /\ objs \in Seq(Obj)
    BY DEF Types, StoreTypes
  <1>1. upset \subseteq upset'
    BY DEF AdoptVault, MarkOlder
  <1>2. CASE UNCHANGED <<disk, objs, cur, open>>
    BY <1>1, <1>2, AgreeStays DEF Quietly
  <1>3. CASE ~UNCHANGED <<disk, objs, cur, open>>
    <2> DEFINE a == objs[job.obj]
               v == a.vault
               k == disk[v].key + 1
               b == [a EXCEPT !.key = k]
               f == [x \in Items |-> IF x \in a.items THEN k ELSE 0]
               r == [disk[v] EXCEPT !.key = k, !.sealed = k, !.index = a.items, !.files = f]
    <2>1. a \in Obj /\ v \in Vaults /\ k \in Nat
      BY RekeyObj
    <2>2. /\ objs' = Append(objs, b) /\ open' = [open EXCEPT ![v] = Len(objs')]
          /\ disk' = [disk EXCEPT ![v] = r]
      BY <1>3 DEF AdoptVault
    <2>3. disk[v] \in DiskRec
      BY <1>o, <2>1, DiskAt
    <2> HIDE DEF k, f
    <2>4. b \in Obj /\ b.items = a.items
      BY <2>1 DEF Obj
    <2>5. r.index = a.items
      BY <2>3 DEF DiskRec
    <2> HIDE DEF a, b, r, v
    <2>6. /\ objs'[Len(objs')] = b
          /\ \A i \in 1 .. Len(objs) : objs'[i] = objs[i]
      BY <1>o, <2>2, <2>4, ObjsAppend
    <2>7. \A w \in Vaults : open'[w] = IF w = v THEN Len(objs') ELSE open[w]
      BY <2>1, <2>2 DEF Types, OpenTypes
    <2>8. \A w \in Vaults : disk'[w] = IF w = v THEN r ELSE disk[w]
      BY <1>o, <2>1, <2>2 DEF StoreTypes
    <2> QED
      BY <1>1, <2>4, <2>5, <2>6, <2>7, <2>8 DEF CacheAgrees, OpenInv
  <1> QED
    BY <1>2, <1>3

\* The object of a vault lists what the file of the vault lists.
LEMMA AgreeNext ==
    Types /\ OpenInv /\ DialogInv /\ ObjsKept /\ CacheAgrees /\ [Next]_vars
      => CacheAgrees'
  <1> SUFFICES ASSUME Types, OpenInv, DialogInv, ObjsKept, CacheAgrees, [Next]_vars
               PROVE  CacheAgrees'
    OBVIOUS
  <1>o. StoreTypes /\ objs \in Seq(Obj)
    BY DEF Types, StoreTypes
  <1>1. ASSUME NEW v \in Vaults, SetVaultViewByName(v) PROVE CacheAgrees'
    BY <1>1, AgreeStays DEF SetVaultViewByName, ShowMain, Quietly, history
  <1>2. CASE Unlock
    <2> DEFINE v == screen.vault
               b == [vault |-> v, items |-> disk[v].index, key |-> disk[v].key,
                     age |-> disk[v].age]
    <2>1. v \in Vaults
      BY <1>2 DEF Unlock, Types, ShowTypes
    <2>2. b \in Obj /\ b.vault = v /\ b.items = disk[v].index
      BY <2>1, <1>o, DiskAt DEF Obj
    <2>3. /\ objs' = Append(objs, b) /\ disk' = disk
          /\ open' = [open EXCEPT ![b.vault] = Len(objs')] /\ upset' = upset \ {v}
      BY <1>2 DEF Unlock, SetVaultView
    <2> HIDE DEF b, v
    <2>4. /\ objs'[Len(objs')] = b
          /\ \A i \in 1 .. Len(objs) : objs'[i] = objs[i]
      BY <1>o, <2>2, <2>3, ObjsAppend
    <2>5. \A w \in Vaults : open'[w] = IF w = v THEN Len(objs') ELSE open[w]
      BY <2>1, <2>2, <2>3 DEF Types, OpenTypes
    <2> QED
      BY <2>1, <2>2, <2>3, <2>4, <2>5 DEF CacheAgrees, OpenInv
  <1>3. ASSUME NEW v \in Vaults, CreateVault(v) PROVE CacheAgrees'
    <2> DEFINE b == [vault |-> v, items |-> {}, key |-> disk[v].key + 1,
                     age |-> disk[v].age]
    <2>2. b \in Obj /\ b.vault = v /\ b.items = {}
      BY <1>o, DiskAt DEF Obj
    <2>3. /\ objs' = Append(objs, b)
          /\ open' = [open EXCEPT ![b.vault] = Len(objs')] /\ upset' = upset \ {v}
      BY <1>3 DEF CreateVault, SetVaultView
    <2>6. disk'[v].index = {} /\ \A w \in Vaults : w # v => disk'[w] = disk[w]
      BY <1>3, <1>o DEF CreateVault, StoreTypes
    <2> HIDE DEF b
    <2>4. /\ objs'[Len(objs')] = b
          /\ \A i \in 1 .. Len(objs) : objs'[i] = objs[i]
      BY <1>o, <2>2, <2>3, ObjsAppend
    <2>5. \A w \in Vaults : open'[w] = IF w = v THEN Len(objs') ELSE open[w]
      BY <2>2, <2>3 DEF Types, OpenTypes
    <2>7. open'[v] # 0 => objs'[open'[v]].items = disk'[v].index
      BY <2>2, <2>4, <2>5, <2>6
    <2>8. \A w \in Vaults \ upset' : w # v /\ open'[w] # 0 =>
             objs'[open'[w]].items = disk'[w].index
      <3> SUFFICES ASSUME NEW w \in Vaults \ upset', w # v, open'[w] # 0
                   PROVE  objs'[open'[w]].items = disk'[w].index
        OBVIOUS
      <3>1. open'[w] = open[w] /\ disk'[w] = disk[w] /\ w \notin upset
        BY <2>3, <2>5, <2>6
      <3>2. objs'[open[w]] = objs[open[w]]
        BY <2>4, <3>1 DEF OpenInv
      <3> QED
        BY <3>1, <3>2 DEF CacheAgrees
    <2> QED
      BY <2>7, <2>8 DEF CacheAgrees
  <1>4. CASE LockVault
    <2>1. /\ open' = [open EXCEPT ![objs[cur].vault] = 0]
          /\ UNCHANGED <<disk, objs, upset>>
      BY <1>4 DEF LockVault, history
    <2>2. \A v \in Vaults : open'[v] = 0 \/ open'[v] = open[v]
      BY <2>1 DEF Types, OpenTypes
    <2> QED
      BY <2>1, <2>2, AgreeStays DEF Quietly
  <1>5. CASE DestroyVault
    <2>1. /\ disk' = [disk EXCEPT ![Last(dialogs).vault].there = FALSE]
          /\ open' = [open EXCEPT ![Last(dialogs).vault] = 0]
          /\ UNCHANGED <<objs, upset>>
      BY <1>5 DEF DestroyVault, history
    <2>2. \A v \in Vaults : open'[v] = 0 \/ open'[v] = open[v]
      BY <2>1 DEF Types, OpenTypes
    <2>3. \A v \in Vaults : disk'[v].index = disk[v].index
      BY <1>o, <2>1, DiskAt DEF StoreTypes, DiskRec
    <2> QED
      BY <2>1, <2>2, <2>3, AgreeStays DEF Quietly
  <1>6. ASSUME NEW x \in Items, SelectItem(x) PROVE CacheAgrees'
    BY <1>6, AgreeStays DEF SelectItem, Quietly, history, window
  <1>7. CASE AddItem
    BY <1>7, AgreeStays DEF AddItem, Quietly, history, window
  <1>8. CASE Back
    BY <1>8, AgreeStays DEF Back, Quietly, history, window
  <1>9. ASSUME NEW x \in Items, OnSave(x) PROVE CacheAgrees'
    <2>1. CASE cur = 0
      <3>1. UNCHANGED <<disk, objs, open, upset>>
        BY <1>9, <2>1 DEF OnSave, Crash, window, history
      <3> QED
        BY <3>1, AgreeStays DEF Quietly
    <2>2. CASE cur # 0
      <3>1. cur \in 1 .. Len(objs) /\ Stores(cur)
        BY <1>9, <2>2, OnSaveStores
      <3>2. \A i \in 1 .. Len(objs) : i # cur => objs'[i].items = objs[i].items
        BY <1>9, <1>o, <2>2 DEF OnSave
      <3>3. open' = open /\ upset \subseteq upset'
        BY <1>9, <2>2 DEF OnSave, MarkOlder
      <3>4. open[objs[cur].vault] = cur
        BY <2>2 DEF OpenInv
      <3> QED
        BY <3>1, <3>2, <3>3, <3>4, AgreeStored
    <2> QED
      BY <2>1, <2>2
  <1>10. CASE OnDelete
    <2>1. open' = open /\ upset \subseteq upset'
      BY <1>10 DEF OnDelete, Crash, window, history, MarkOlder
    <2>2. CASE disk' # disk
      <3>1. cur \in 1 .. Len(objs) /\ Stores(cur) /\ cur # 0
        BY <1>10, <2>2, OnDeleteStores
      <3>2. \A i \in 1 .. Len(objs) : i # cur => objs'[i].items = objs[i].items
        BY <1>10, <1>o, <3>1 DEF OnDelete
      <3>3. open[objs[cur].vault] = cur
        BY <3>1 DEF OpenInv
      <3> QED
        BY <2>1, <3>1, <3>2, <3>3, AgreeStored
    <2>3. CASE cur = 0
      <3>1. UNCHANGED <<disk, objs>>
        BY <1>10, <2>3 DEF OnDelete, Crash, window
      <3> QED
        BY <2>1, <3>1, AgreeStays DEF Quietly
    <2>4. CASE disk' = disk /\ cur # 0
      <3> DEFINE x == Last(dialogs).item
                 v == objs[cur].vault
                 S == objs[cur].items \ {x}
      <3>1. /\ cur \in 1 .. Len(objs) /\ v \in Vaults /\ S \subseteq Items
            /\ open[v] = cur /\ objs[cur].items \subseteq Items
        BY <1>o, <2>4, ObjAt DEF OpenInv
      <3>2. objs' = [objs EXCEPT ![cur].items = S]
        BY <1>10, <2>4 DEF OnDelete
      <3>3. /\ objs'[cur].items = S
            /\ \A i \in 1 .. Len(objs) : i # cur => objs'[i].items = objs[i].items
        BY <1>o, <3>1, <3>2, ObjsPut
      <3>4. \A w \in Vaults : w # v /\ open[w] # 0 => open[w] \in 1 .. Len(objs) /\ open[w] # cur
        BY DEF OpenInv
      <3>5. CASE x \in objs[cur].items /\ v \in upset'
        BY <2>1, <2>4, <3>1, <3>3, <3>4, <3>5, AgreeStays DEF Quietly
      <3>6. CASE x \notin objs[cur].items
        BY <2>1, <2>4, <3>1, <3>3, <3>4, <3>6, AgreeStays DEF Quietly
      <3>7. ASSUME disk[v].there, disk[v].files[x] # 0 PROVE CacheAgrees'
        <4>1. Stores(cur)
          <5>1. disk' = StoreVault(PutFile(disk, v, x, 0), cur)
            BY <1>10, <2>4, <3>7 DEF OnDelete
          <5>2. x \in Items
            BY <1>10 DEF OnDelete, Top, Last, Types, DialogTypes, DialogInv, Meant
          <5>3. SameBut(disk, PutFile(disk, v, x, 0))
            BY <1>o, <3>1, <5>2, PutFileAt DEF StoreTypes
          <5> QED
            BY <5>1, <5>3 DEF Stores
        <4> QED
          BY <2>1, <3>1, <3>3, <4>1, AgreeStored
      <3> QED
        BY <1>10, <2>4, <3>5, <3>6, <3>7 DEF OnDelete
    <2> QED
      BY <2>2, <2>3, <2>4
  <1>11. CASE DropItem
    <2> DEFINE o == Last(dialogs).obj
    <2>1. o \in 1 .. Len(objs) /\ Stores(o)
      BY <1>11, DropItemStores
    <2>2. objs[o].vault = Last(dialogs).vault
      BY <1>11 DEF DropItem, Top, Last, DialogInv, Meant, Types, DialogTypes
    <2>3. \A i \in 1 .. Len(objs) : i # o => objs'[i].items = objs[i].items
      BY <1>11, <1>o DEF DropItem
    <2>4. /\ open' = open /\ upset \subseteq upset'
          /\ open[objs[o].vault] = o \/ objs[o].vault \in upset'
      BY <1>11, <2>2 DEF DropItem
    <2> HIDE DEF o
    <2> QED
      BY <2>1, <2>3, <2>4, AgreeStored
  <1>12. ASSUME NEW x \in Items, WorkerStore(x) PROVE CacheAgrees'
    <2>1. UNCHANGED <<objs, open, upset>>
      BY <1>12 DEF WorkerStore, Crash, window, history
    <2>2. CASE disk' = disk
      BY <2>1, <2>2, AgreeStays DEF Quietly
    <2>3. CASE disk' # disk
      <3>1. /\ cur \in 1 .. Len(objs)
            /\ disk' = PutFile(disk, objs[cur].vault, x, objs[cur].key)
        BY <1>12, <2>3 DEF WorkerStore, Crash, OpenInv
      <3>2. SameBut(disk, disk')
        BY <1>o, <3>1, ObjAt, PutFileAt DEF StoreTypes
      <3> QED
        BY <2>1, <3>2, AgreeStays DEF Quietly, SameBut
    <2> QED
      BY <2>2, <2>3
  <1>13. CASE ImportEnds
    BY <1>13, ImportEndsAgree DEF ImportEnds, Crash, ShowMain, window
  <1>14. CASE AuditEnds
    BY <1>14, AgreeStays DEF AuditEnds, Quietly
  <1>15. ASSUME NEW x \in Items, EditAudited(x) PROVE CacheAgrees'
    BY <1>15, AgreeStays DEF EditAudited, Quietly, history, window
  <1>16. CASE SaveSettings
    <2>1. CASE disk' = disk
      <3>1. UNCHANGED <<objs, open>> /\ upset \subseteq upset'
        BY <1>16 DEF SaveSettings, Crash, window, history, MarkOlder
      <3> QED
        BY <2>1, <3>1, AgreeStays DEF Quietly
    <2>2. CASE disk' # disk
      <3>1. cur \in 1 .. Len(objs) /\ Stores(cur) /\ cur # 0
        BY <1>16, <2>2, SaveSettingsStores
      <3>2. UNCHANGED <<objs, open>> /\ upset \subseteq upset'
        BY <1>16 DEF SaveSettings, Crash, window, history, MarkOlder
      <3>3. open[objs[cur].vault] = cur
        BY <3>1 DEF OpenInv
      <3> QED
        BY <3>1, <3>2, <3>3, AgreeStored
    <2> QED
      BY <2>1, <2>2
  <1>17. CASE AdoptVault
    BY <1>17, AdoptVaultAgree DEF AdoptVault
  <1>18. ASSUME NEW v \in Vaults, Commit(v) PROVE CacheAgrees'
    <2>1. disk' = [disk EXCEPT ![v].index = @ \cup {PeerItem},
                               ![v].files[PeerItem] = disk[v].key, ![v].age = @ + 1]
      BY <1>18 DEF Commit
    <2>2. \A w \in Vaults : w # v => disk'[w] = disk[w]
      BY <1>o, <2>1 DEF StoreTypes
    <2>3. upset' = upset \cup {v} /\ UNCHANGED <<objs, open>>
      BY <1>18 DEF Commit, window
    <2> QED
      BY <2>2, <2>3, AgreeStays DEF Quietly
  <1>19. CASE Dismiss
    <2>1. open' = [v \in Vaults |-> 0] /\ upset' = upset
      BY <1>19 DEF Dismiss, ReloadStateFromDisk, history
    <2> QED
      BY <2>1, AgreeStays
  <1>20. CASE SyncFails
    <2>1. open' = [v \in Vaults |-> 0] /\ upset' = upset
      BY <1>20 DEF SyncFails, ReloadStateFromDisk, history
    <2> QED
      BY <2>1, AgreeStays
  <1>21. CASE Quiet
    BY <1>21, AgreeStays DEF Quiet, Quietly, history, window
  <1> QED
    BY Steps, <1>1, <1>2, <1>3, <1>4, <1>5, <1>6, <1>7, <1>8, <1>9, <1>10, <1>11, <1>12,
       <1>13, <1>14, <1>15, <1>16, <1>17, <1>18, <1>19, <1>20, <1>21 DEF Loud

-----------------------------------------------------------------------------
(* What the window shows *)

LEMMA ShowAt ==
    ASSUME ShowTypes
    PROVE  /\ screen.kind \in Views \cup {"edit", "audit"} /\ main.kind \in Views
           /\ screen.kind # "select" => screen.vault \in Vaults
           /\ main.kind # "select" => main.vault \in Vaults
           /\ screen.kind = "audit" => screen \in AuditPage
  <1>1. screen \in Shows(Views \cup {"edit"}) \/ screen \in AuditPage
    BY DEF ShowTypes
  <1>2. main \in Shows(Views)
    BY DEF ShowTypes
  <1>3. screen.kind \in Views \cup {"edit", "audit"}
    BY <1>1 DEF Shows, AuditPage
  <1>4. main.kind \in Views
    BY <1>2 DEF Shows
  <1>5. screen.kind = "audit" => screen \in AuditPage
    BY <1>1 DEF Shows, Views
  <1> QED
    BY <1>3, <1>4, <1>5 DEF ShowTypes

\* The vault an item is saved to is the one it was opened in.
LEMMA SavedNext ==
    Types /\ OpenInv /\ ShowInv /\ SaveGoesToItsVault /\ [Next]_vars
      => SaveGoesToItsVault'
  <1> SUFFICES ASSUME Types, OpenInv, ShowInv, SaveGoesToItsVault, [Next]_vars
               PROVE  SaveGoesToItsVault'
    OBVIOUS
  <1>a. adrift => adrift'
    BY AdriftNext
  <1>1. ASSUME NEW v \in Vaults, SetVaultViewByName(v) PROVE SaveGoesToItsVault'
    BY <1>1 DEF SetVaultViewByName, ShowMain, history, SaveGoesToItsVault
  <1>2. CASE Unlock
    BY <1>2 DEF Unlock, SetVaultView, ShowMain, history, SaveGoesToItsVault
  <1>3. ASSUME NEW v \in Vaults, CreateVault(v) PROVE SaveGoesToItsVault'
    BY <1>3 DEF CreateVault, SetVaultView, ShowMain, history, SaveGoesToItsVault
  <1>4. CASE LockVault
    BY <1>4 DEF LockVault, ShowMain, history, SaveGoesToItsVault
  <1>5. CASE DestroyVault
    BY <1>5 DEF DestroyVault, ShowMain, history, SaveGoesToItsVault
  <1>6. ASSUME NEW x \in Items, SelectItem(x) PROVE SaveGoesToItsVault'
    BY <1>6 DEF SelectItem, history, SaveGoesToItsVault
  <1>7. CASE AddItem
    BY <1>7 DEF AddItem, history, SaveGoesToItsVault
  <1>8. CASE Back
    BY <1>8 DEF Back, history, SaveGoesToItsVault
  <1>9. ASSUME NEW x \in Items, OnSave(x) PROVE SaveGoesToItsVault'
    <2>1. CASE cur = 0
      BY <1>9, <2>1 DEF OnSave, Crash, history, SaveGoesToItsVault
    <2>2. CASE cur # 0
      <3>1. saved' = <<screen.vault, objs[cur].vault>> /\ adrift' = adrift
            /\ screen.kind = "edit"
        BY <1>9, <2>2 DEF OnSave
      <3>2. ~adrift => open[screen.vault] = cur
        BY <3>1 DEF ShowInv, Shown
      <3>3. screen.vault \in Vaults
        BY <3>1, ShowAt DEF Types
      <3>4. ~adrift => objs[cur].vault = screen.vault
        BY <2>2, <3>2, <3>3 DEF OpenInv
      <3> QED
        BY <3>1, <3>4 DEF SaveGoesToItsVault
    <2> QED
      BY <2>1, <2>2
  <1>10. CASE OnDelete
    BY <1>10 DEF OnDelete, Crash, ShowMain, window, history, SaveGoesToItsVault
  <1>11. CASE DropItem
    BY <1>11 DEF DropItem, history, SaveGoesToItsVault
  <1>12. ASSUME NEW x \in Items, WorkerStore(x) PROVE SaveGoesToItsVault'
    BY <1>12 DEF WorkerStore, Crash, window, history, SaveGoesToItsVault
  <1>13. CASE ImportEnds
    BY <1>13 DEF ImportEnds, Crash, ShowMain, window, history, SaveGoesToItsVault
  <1>14. CASE AuditEnds
    BY <1>14, <1>a DEF AuditEnds, SaveGoesToItsVault
  <1>15. ASSUME NEW x \in Items, EditAudited(x) PROVE SaveGoesToItsVault'
    BY <1>15 DEF EditAudited, history, SaveGoesToItsVault
  <1>16. CASE SaveSettings
    BY <1>16 DEF SaveSettings, Crash, window, history, SaveGoesToItsVault
  <1>17. CASE AdoptVault
    BY <1>17, <1>a DEF AdoptVault, SaveGoesToItsVault
  <1>18. ASSUME NEW v \in Vaults, Commit(v) PROVE SaveGoesToItsVault'
    BY <1>18 DEF Commit, window, history, SaveGoesToItsVault
  <1>19. CASE Dismiss
    BY <1>19 DEF Dismiss, ReloadStateFromDisk, ShowMain, history, SaveGoesToItsVault
  <1>20. CASE SyncFails
    BY <1>20 DEF SyncFails, ReloadStateFromDisk, ShowMain, history, SaveGoesToItsVault
  <1>21. CASE Quiet
    BY <1>21 DEF Quiet, history, SaveGoesToItsVault
  <1> QED
    BY Steps, <1>1, <1>2, <1>3, <1>4, <1>5, <1>6, <1>7, <1>8, <1>9, <1>10, <1>11, <1>12,
       <1>13, <1>14, <1>15, <1>16, <1>17, <1>18, <1>19, <1>20, <1>21 DEF Loud

LEMMA ShowStays ==
    ASSUME Types, ShowInv, ObjsKept, adrift => adrift', UNCHANGED <<screen, main>>,
           adrift' \/ UNCHANGED <<open, cur>>
    PROVE  ShowTypes' /\ ShowInv'
  <1>1. ShowTypes'
    BY DEF Types, ShowTypes
  <1>2. \A i \in 1 .. Len(objs) : i \in 1 .. Len(objs') /\ objs'[i].vault = objs[i].vault
    BY DEF ObjsKept, Types, StoreTypes
  <1>3. Made(screen)' /\ Made(main)'
    BY <1>2 DEF ShowInv, Made
  <1>4. main'.kind = "vault" => screen'.kind \in {"vault", "edit", "audit"}
    BY DEF ShowInv
  <1>5. ~adrift' => Shown(screen)' /\ Shown(main)'
    BY DEF ShowInv, Shown
  <1> QED
    BY <1>1, <1>3, <1>4, <1>5 DEF ShowInv

\* The content and what the button goes back to are the same view.
LEMMA ShowView ==
    ASSUME NEW w, ShowMain(w), w \in Shows(Views), w.kind # "select" => w.vault \in Vaults,
           w.kind = "vault" => /\ w.obj \in 1 .. Len(objs') /\ objs'[w.obj].vault = w.vault
                               /\ cur' # 0 /\ open'[w.vault] = cur'
    PROVE  ShowTypes' /\ ShowInv'
  <1>1. w.kind \in Views /\ screen' = w /\ main' = w
    BY DEF Shows, ShowMain
  <1>2. w \in Shows(Views \cup {"edit"})
    BY DEF Shows
  <1>3. ShowTypes'
    BY <1>1, <1>2 DEF ShowTypes
  <1>4. Made(screen)' /\ Made(main)' /\ Shown(screen)' /\ Shown(main)'
    BY <1>1 DEF Made, Shown, Views
  <1> QED
    BY <1>1, <1>3, <1>4 DEF ShowInv

LEMMA ShowSelect == ASSUME ShowMain(Select) PROVE ShowTypes' /\ ShowInv'
  <1>1. Select \in Shows(Views) /\ Select.kind = "select"
    BY DEF Select, Show, Shows, Names, Views
  <1> HIDE DEF Select
  <1> QED
    BY <1>1, ShowView

LEMMA ShowUnlock ==
    ASSUME NEW v \in Vaults, ShowMain(UnlockView(v)) PROVE ShowTypes' /\ ShowInv'
  <1>1. /\ UnlockView(v) \in Shows(Views) /\ UnlockView(v).kind = "unlock"
        /\ UnlockView(v).vault = v
    BY DEF UnlockView, Show, Shows, Names, Views
  <1> QED
    BY <1>1, ShowView

LEMMA ShowVault ==
    ASSUME NEW v \in Vaults, NEW o \in 1 .. Len(objs'), ShowMain(VaultView(o, v)),
           objs'[o].vault = v, cur' # 0, open'[v] = cur', objs' \in Seq(Obj)
    PROVE  ShowTypes' /\ ShowInv'
  <1>1. o \in Nat
    OBVIOUS
  <1>2. /\ VaultView(o, v) \in Shows(Views) /\ VaultView(o, v).kind = "vault"
        /\ VaultView(o, v).vault = v /\ VaultView(o, v).obj = o
    BY <1>1 DEF VaultView, Show, Shows, Names, Views
  <1> QED
    BY <1>2, ShowView

\* A page over the view: an item or the list of an audit.
LEMMA ShowPage ==
    ASSUME Types, ShowInv, ObjsKept, adrift => adrift', main' = main,
           screen' \in Shows({"edit"}) \cup AuditPage, screen'.vault \in Vaults,
           UNCHANGED <<open, cur>>, ~adrift' => cur # 0 /\ open[screen'.vault] = cur
    PROVE  ShowTypes' /\ ShowInv'
  <1>1. screen'.kind \in {"edit", "audit"}
    BY DEF Shows, AuditPage
  <1>2. screen' \in Shows(Views \cup {"edit"}) \cup AuditPage
    BY DEF Shows
  <1>3. ShowTypes'
    BY <1>2 DEF Types, ShowTypes
  <1>4. \A i \in 1 .. Len(objs) : i \in 1 .. Len(objs') /\ objs'[i].vault = objs[i].vault
    BY DEF ObjsKept, Types, StoreTypes
  <1>5. Made(screen)' /\ Made(main)'
    BY <1>1, <1>4 DEF ShowInv, Made
  <1>6. ~adrift' => Shown(screen)' /\ Shown(main)'
    BY <1>1 DEF ShowInv, Shown
  <1> QED
    BY <1>1, <1>3, <1>5, <1>6 DEF ShowInv

LEMMA NewView ==
    ASSUME Types, NEW v \in Vaults, NEW b \in Obj, b.vault = v, objs' = Append(objs, b),
           cur' = Len(objs'), open' = [open EXCEPT ![v] = Len(objs')],
           ShowMain(VaultView(Len(objs'), v))
    PROVE  ShowTypes' /\ ShowInv'
  <1>1. /\ objs' \in Seq(Obj) /\ Len(objs') \in 1 .. Len(objs') /\ objs'[Len(objs')] = b
        /\ Len(objs') # 0
    BY ObjsAppend DEF Types, StoreTypes
  <1>2. open'[v] = cur'
    BY DEF Types, OpenTypes
  <1> QED
    BY <1>1, <1>2, ShowVault

LEMMA CurrentView ==
    ASSUME Types, OpenInv, ObjsKept, cur # 0, ShowMain(VaultView(cur, objs[cur].vault)),
           UNCHANGED <<open, cur>>
    PROVE  ShowTypes' /\ ShowInv'
  <1>1. cur \in 1 .. Len(objs) /\ open[objs[cur].vault] = cur
    BY DEF OpenInv
  <1>2. objs[cur].vault \in Vaults
    BY <1>1, ObjAt DEF Types
  <1>3. /\ cur \in 1 .. Len(objs') /\ objs'[cur].vault = objs[cur].vault
        /\ objs' \in Seq(Obj)
    BY <1>1 DEF ObjsKept, Types, StoreTypes
  <1> QED
    BY <1>1, <1>2, <1>3, ShowVault

LEMMA EditPage ==
    ASSUME NEW v \in Vaults, NEW x \in Items \cup {None}
    PROVE  Show("edit", v, 0, x) \in Shows({"edit"}) /\ Show("edit", v, 0, x).vault = v
  BY DEF Show, Shows, Names

\* The content is of the current vault, until a password change parts them.
LEMMA ShowNext ==
    Types /\ OpenInv /\ ShowInv /\ DialogInv /\ ObjsKept /\ DiskKept /\ [Next]_vars
      => ShowTypes' /\ ShowInv'
  <1> SUFFICES ASSUME Types, OpenInv, ShowInv, DialogInv, ObjsKept, DiskKept, [Next]_vars
               PROVE  ShowTypes' /\ ShowInv'
    OBVIOUS
  <1>o. StoreTypes /\ objs \in Seq(Obj) /\ objs' \in Seq(Obj)
    BY DEF Types, StoreTypes, ObjsKept
  <1>a. adrift => adrift'
    BY AdriftNext
  <1>1. ASSUME NEW v \in Vaults, SetVaultViewByName(v) PROVE ShowTypes' /\ ShowInv'
    <2>1. /\ cur' = open[v] /\ UNCHANGED <<objs, open>>
          /\ ShowMain(IF open[v] = 0 THEN UnlockView(v) ELSE VaultView(open[v], v))
      BY <1>1 DEF SetVaultViewByName
    <2>2. CASE open[v] = 0
      BY <2>1, <2>2, ShowUnlock
    <2>3. CASE open[v] # 0
      <3>1. open[v] \in 1 .. Len(objs) /\ objs[open[v]].vault = v
        BY <2>3 DEF OpenInv
      <3> QED
        BY <1>o, <2>1, <2>3, <3>1, ShowVault
    <2> QED
      BY <2>2, <2>3
  <1>2. CASE Unlock
    <2> DEFINE v == screen.vault
               b == [vault |-> v, items |-> disk[v].index, key |-> disk[v].key,
                     age |-> disk[v].age]
    <2>1. v \in Vaults
      BY <1>2 DEF Unlock, Types, ShowTypes
    <2>2. b \in Obj /\ b.vault = v
      BY <2>1, <1>o, DiskAt DEF Obj
    <2>3. /\ objs' = Append(objs, b) /\ cur' = Len(objs')
          /\ open' = [open EXCEPT ![v] = Len(objs')]
          /\ ShowMain(VaultView(Len(objs'), v))
      BY <1>2 DEF Unlock, SetVaultView
    <2> HIDE DEF b, v
    <2> QED
      BY <1>o, <2>1, <2>2, <2>3, NewView
  <1>3. ASSUME NEW v \in Vaults, CreateVault(v) PROVE ShowTypes' /\ ShowInv'
    <2> DEFINE b == [vault |-> v, items |-> {}, key |-> disk[v].key + 1,
                     age |-> disk[v].age]
    <2>1. b \in Obj /\ b.vault = v
      BY <1>o, DiskAt DEF Obj
    <2>2. /\ objs' = Append(objs, b) /\ cur' = Len(objs')
          /\ open' = [open EXCEPT ![v] = Len(objs')]
          /\ ShowMain(VaultView(Len(objs'), v))
      BY <1>3 DEF CreateVault, SetVaultView
    <2> HIDE DEF b
    <2> QED
      BY <1>o, <2>1, <2>2, NewView
  <1>4. CASE LockVault
    <2>1. cur # 0 /\ ShowMain(UnlockView(objs[cur].vault))
      BY <1>4 DEF LockVault
    <2>2. objs[cur].vault \in Vaults
      BY <1>o, <2>1, ObjAt DEF OpenInv
    <2> QED
      BY <2>1, <2>2, ShowUnlock
  <1>5. CASE DestroyVault
    BY <1>5, ShowSelect DEF DestroyVault, ShowMain
  <1>6. ASSUME NEW x \in Items, SelectItem(x) PROVE ShowTypes' /\ ShowInv'
    <2> DEFINE o == screen.obj
               b == objs[o]
    <2>1. /\ screen.kind = "vault" /\ UNCHANGED <<open, cur, main>>
          /\ screen' = screen \/ screen' = Show("edit", b.vault, 0, x)
      BY <1>6 DEF SelectItem
    <2>2. b.vault = screen.vault /\ screen.vault \in Vaults
      BY <2>1, ShowAt DEF ShowInv, Made, Types
    <2>3. ~adrift => cur # 0 /\ open[screen.vault] = cur
      BY <2>1 DEF ShowInv, Shown
    <2>4. CASE screen' = screen
      BY <1>a, <2>1, <2>4, ShowStays
    <2>5. CASE screen' = Show("edit", screen.vault, 0, x)
      <3>1. screen' \in Shows({"edit"}) /\ screen'.vault = screen.vault
        BY <2>2, <2>5, EditPage
      <3> QED
        BY <1>a, <2>1, <2>2, <2>3, <3>1, ShowPage
    <2> QED
      BY <2>1, <2>2, <2>4, <2>5
  <1>7. CASE AddItem
    <2>1. /\ screen.kind = "vault" /\ UNCHANGED <<open, cur, main>>
          /\ screen' = Show("edit", screen.vault, 0, None)
      BY <1>7 DEF AddItem
    <2>2. screen.vault \in Vaults
      BY <2>1, ShowAt DEF Types
    <2>3. ~adrift => cur # 0 /\ open[screen.vault] = cur
      BY <2>1 DEF ShowInv, Shown
    <2>4. screen' \in Shows({"edit"}) /\ screen'.vault = screen.vault
      BY <2>1, <2>2, EditPage
    <2> QED
      BY <1>a, <2>1, <2>2, <2>3, <2>4, ShowPage
  <1>8. CASE Back
    <2>1. screen' = main /\ UNCHANGED <<objs, open, cur, main>>
      BY <1>8 DEF Back
    <2>2. main \in Shows(Views) /\ (main.kind # "select" => main.vault \in Vaults)
      BY DEF Types, ShowTypes
    <2>3. main \in Shows(Views \cup {"edit"})
      BY <2>2 DEF Shows
    <2>4. ShowTypes'
      BY <2>1, <2>2, <2>3 DEF ShowTypes
    <2>5. ShowInv'
      BY <1>a, <2>1 DEF ShowInv, Made, Shown
    <2> QED
      BY <2>4, <2>5
  <1>9. ASSUME NEW x \in Items, OnSave(x) PROVE ShowTypes' /\ ShowInv'
    <2>1. CASE cur = 0
      <3>1. UNCHANGED <<screen, main, open, cur>>
        BY <1>9, <2>1 DEF OnSave, Crash, window
      <3> QED
        BY <1>a, <3>1, ShowStays
    <2>2. CASE cur # 0
      <3>1. ShowMain(VaultView(cur, objs[cur].vault)) /\ UNCHANGED <<open, cur>>
        BY <1>9, <2>2 DEF OnSave
      <3> QED
        BY <1>o, <2>2, <3>1, CurrentView
    <2> QED
      BY <2>1, <2>2
  <1>10. CASE OnDelete
    <2>1. UNCHANGED <<open, cur>>
      BY <1>10 DEF OnDelete, Crash, window
    <2>2. \/ UNCHANGED <<screen, main>>
          \/ cur # 0 /\ ShowMain(VaultView(cur, objs[cur].vault))
      BY <1>10 DEF OnDelete, Crash, window
    <2> QED
      BY <1>a, <1>o, <2>1, <2>2, ShowStays, CurrentView
  <1>11. CASE DropItem
    BY <1>11, <1>a, ShowStays DEF DropItem, history
  <1>12. ASSUME NEW x \in Items, WorkerStore(x) PROVE ShowTypes' /\ ShowInv'
    BY <1>12, <1>a, ShowStays DEF WorkerStore, Crash, window, history
  <1>13. CASE ImportEnds
    <2>1. UNCHANGED <<open, cur>>
      BY <1>13 DEF ImportEnds, Crash, window
    <2>2. \/ UNCHANGED <<screen, main>>
          \/ cur # 0 /\ ShowMain(VaultView(cur, objs[cur].vault))
      BY <1>13 DEF ImportEnds, Crash, window
    <2> QED
      BY <1>a, <1>o, <2>1, <2>2, ShowStays, CurrentView
  <1>14. CASE AuditEnds
    <2>1. UNCHANGED <<objs, open, cur, main>> /\ job.kind = "audit"
      BY <1>14 DEF AuditEnds
    <2>2. CASE screen' = screen
      BY <1>a, <2>1, <2>2, ShowStays
    <2>3. CASE screen' # screen
      <3>1. screen' = [kind |-> "audit", vault |-> job.vault, obj |-> 0,
                       item |-> None, list |-> job.done]
        BY <1>14, <2>3 DEF AuditEnds
      <3>2. job.vault \in Vaults /\ job.done \subseteq Items
        BY <2>1, JobAt DEF Types, JobTypes, Jobs
      <3>3. screen' \in AuditPage /\ screen'.vault = job.vault
        BY <3>1, <3>2 DEF AuditPage, Names
      <3>4. ~adrift' => ~adrift /\ main.kind = "vault" /\ main.vault = job.vault
        BY <1>14, <2>3 DEF AuditEnds
      <3>5. ~adrift' => cur # 0 /\ open[job.vault] = cur
        BY <3>4 DEF ShowInv, Shown
      <3> QED
        BY <1>a, <2>1, <3>2, <3>3, <3>5, ShowPage
    <2> QED
      BY <2>2, <2>3
  <1>15. ASSUME NEW x \in Items, EditAudited(x) PROVE ShowTypes' /\ ShowInv'
    <2>1. /\ screen.kind = "audit" /\ UNCHANGED <<open, cur, main>>
          /\ screen' = Show("edit", screen.vault, 0, x)
      BY <1>15 DEF EditAudited
    <2>2. screen.vault \in Vaults
      BY <2>1, ShowAt DEF Types
    <2>3. ~adrift => cur # 0 /\ open[screen.vault] = cur
      BY <2>1 DEF ShowInv, Shown
    <2>4. screen' \in Shows({"edit"}) /\ screen'.vault = screen.vault
      BY <2>1, <2>2, EditPage
    <2> QED
      BY <1>a, <2>1, <2>2, <2>3, <2>4, ShowPage
  <1>16. CASE SaveSettings
    BY <1>16, <1>a, ShowStays DEF SaveSettings, Crash, window, history
  <1>17. CASE AdoptVault
    <2>1. CASE UNCHANGED <<cur, open>>
      BY <1>17, <1>a, <2>1, ShowStays DEF AdoptVault
    <2>2. CASE ~UNCHANGED <<cur, open>>
      <3> DEFINE v == objs[job.obj].vault
      <3>1. /\ adrift' = (adrift \/ screen.vault \notin {None, v})
            /\ cur' = Len(objs') /\ open' = [open EXCEPT ![v] = Len(objs')]
            /\ UNCHANGED <<screen, main>>
        BY <1>17, <2>2 DEF AdoptVault
      <3>2. v \in Vaults
        BY <1>17, RekeyObj
      <3>3. CASE adrift'
        BY <1>a, <3>1, <3>3, ShowStays
      <3>4. CASE ~adrift'
        <4>1. ShowTypes'
          BY <3>1 DEF Types, ShowTypes
        <4>2. \A i \in 1 .. Len(objs) : i \in 1 .. Len(objs')
                    /\ objs'[i].vault = objs[i].vault
          BY <1>o DEF ObjsKept
        <4>3. Made(screen)' /\ Made(main)'
          BY <3>1, <4>2 DEF ShowInv, Made
        <4>4. screen.vault \in {None, v} /\ ~adrift
          BY <3>1, <3>4
        <4>5. screen.kind \in {"vault", "edit", "audit"} => screen.vault = v
          BY <4>4, ShowAt, DesktopAssumption DEF Types
        <4>6. main.kind = "vault" => main.vault = v
          <5> SUFFICES ASSUME main.kind = "vault" PROVE main.vault = v
            OBVIOUS
          <5>1. screen.kind \in {"vault", "edit", "audit"}
            BY DEF ShowInv
          <5>2. /\ cur # 0 /\ open[screen.vault] = cur /\ open[main.vault] = cur
            BY <4>4, <5>1 DEF ShowInv, Shown
          <5>3. main.vault \in Vaults /\ screen.vault \in Vaults
            BY <5>1, ShowAt DEF Types
          <5>4. main.vault = screen.vault
            BY <5>2, <5>3 DEF OpenInv
          <5> QED
            BY <4>5, <5>1, <5>4
        <4>7. open'[v] = cur' /\ cur' # 0
          <5>1. open'[v] = cur'
            BY <3>1, <3>2 DEF Types, OpenTypes
          <5>2. Len(objs') # 0
            <6>1. job.obj \in 1 .. Len(objs)
              BY <1>17, RekeyObj
            <6> QED
              BY <4>2, <6>1
          <5> QED
            BY <3>1, <5>1, <5>2
        <4>8. Shown(screen)' /\ Shown(main)'
          BY <3>1, <4>5, <4>6, <4>7, ShowAt DEF Shown, Types, Views
        <4> QED
          BY <3>1, <4>1, <4>3, <4>8 DEF ShowInv
      <3> QED
        BY <3>3, <3>4
    <2> QED
      BY <2>1, <2>2
  <1>18. ASSUME NEW v \in Vaults, Commit(v) PROVE ShowTypes' /\ ShowInv'
    BY <1>18, <1>a, ShowStays DEF Commit, window, window
  <1>19. CASE Dismiss
    BY <1>19, ShowSelect DEF Dismiss, ReloadStateFromDisk, ShowMain
  <1>20. CASE SyncFails
    BY <1>20, ShowSelect DEF SyncFails, ReloadStateFromDisk, ShowMain
  <1>21. CASE Quiet
    BY <1>21, <1>a, ShowStays DEF Quiet, history
  <1> QED
    BY Steps, <1>1, <1>2, <1>3, <1>4, <1>5, <1>6, <1>7, <1>8, <1>9, <1>10, <1>11, <1>12,
       <1>13, <1>14, <1>15, <1>16, <1>17, <1>18, <1>19, <1>20, <1>21 DEF Loud

-----------------------------------------------------------------------------
(* Dialogs *)

\* Every one of these dialogs is open already.
Among(ds) == /\ ds \in Seq(Shows(DialogKinds))
             /\ \A i \in 1 .. Len(ds) : \E j \in 1 .. Len(dialogs) : ds[i] = dialogs[j]

LEMMA AmongThem == ASSUME DialogTypes PROVE Among(dialogs)
  BY DEF DialogTypes, Among

LEMMA AmongFront == ASSUME DialogTypes, dialogs # <<>> PROVE Among(Front(dialogs))
  <1> DEFINE S == Shows(DialogKinds)
  <1>1. dialogs \in Seq(S)
    BY DEF DialogTypes
  <1> HIDE DEF S
  <1>2. /\ Front(dialogs) \in Seq(S) /\ Len(Front(dialogs)) = Len(dialogs) - 1
        /\ \A i \in 1 .. Len(dialogs) - 1 : Front(dialogs)[i] = dialogs[i]
    <2>1. /\ Len(dialogs) \in Nat \ {0} /\ 1 \in 1 .. Len(dialogs) + 1
          /\ Len(dialogs) - 1 \in 1 - 1 .. Len(dialogs)
      BY <1>1, EmptySeq
    <2>2. Front(dialogs) = SubSeq(dialogs, 1, Len(dialogs) - 1)
      BY DEF Front
    <2>3. /\ \A i \in 1 .. Len(dialogs) - 1 : 1 + i - 1 = i /\ dialogs[i] \in S
          /\ Len(dialogs) - 1 \in Int /\ (Len(dialogs) - 1) - 1 + 1 = Len(dialogs) - 1
      BY <1>1
    <2> QED
      BY <2>1, <2>2, <2>3, SubSeqProperties
  <1>3. \A i \in 1 .. Len(dialogs) - 1 : i \in 1 .. Len(dialogs)
    BY <1>1
  <1> QED
    BY <1>2, <1>3 DEF Among, S

LEMMA AmongHide == ASSUME DialogTypes, NEW kinds PROVE Among(Hide(kinds))
  <1> DEFINE S == Shows(DialogKinds)
             found == {i \in DOMAIN dialogs : dialogs[i].kind \in kinds}
             n == CHOOSE i \in found : TRUE
             ds == RemoveAt(dialogs, n)
  <1>1. dialogs \in Seq(S) /\ DOMAIN dialogs = 1 .. Len(dialogs)
        /\ Len(dialogs) \in Nat
    BY DEF DialogTypes
  <1>2. CASE found = {}
    BY <1>2, AmongThem DEF Hide
  <1>3. CASE found # {}
    <2>1. n \in 1 .. Len(dialogs)
      BY <1>1, <1>3
    <2>2. Hide(kinds) = ds
      BY <1>3 DEF Hide
    <2> HIDE DEF S, found, n
    <2>3. ds = SubSeq(dialogs, 1, n - 1) \o SubSeq(dialogs, n + 1, Len(dialogs))
      BY DEF RemoveAt
    <2> HIDE DEF ds
    <2> DEFINE f == SubSeq(dialogs, 1, n - 1)
               g == SubSeq(dialogs, n + 1, Len(dialogs))
    <2>4. /\ f \in Seq(S) /\ Len(f) = n - 1
          /\ \A i \in 1 .. Len(f) : f[i] = dialogs[i]
      <3>1. /\ \A i \in 1 .. n - 1 : 1 + i - 1 = i /\ dialogs[i] \in S
            /\ n - 1 \in Int /\ n - 1 >= 0 /\ (n - 1) - 1 + 1 = n - 1
        BY <1>1, <2>1
      <3>2. /\ f \in Seq(S) /\ Len(f) = IF 1 <= n - 1 THEN (n - 1) - 1 + 1 ELSE 0
            /\ \A i \in 1 .. (n - 1) - 1 + 1 : f[i] = dialogs[1 + i - 1]
        BY <3>1, SubSeqProperties
      <3> HIDE DEF f
      <3>3. Len(f) = n - 1
        BY <3>1, <3>2
      <3> QED
        BY <3>1, <3>2, <3>3
    <2>5. /\ g \in Seq(S) /\ Len(g) = Len(dialogs) - n
          /\ \A i \in 1 .. Len(g) : g[i] = dialogs[i + n]
      <3>1. /\ \A i \in n + 1 .. Len(dialogs) : dialogs[i] \in S
            /\ n + 1 \in Int /\ Len(dialogs) \in Int
        BY <1>1, <2>1
      <3>2. /\ g \in Seq(S)
            /\ Len(g) = IF n + 1 <= Len(dialogs) THEN Len(dialogs) - (n + 1) + 1 ELSE 0
            /\ \A i \in 1 .. Len(dialogs) - (n + 1) + 1 : g[i] = dialogs[(n + 1) + i - 1]
        BY <3>1, SubSeqProperties
      <3> HIDE DEF f, g
      <3>3. n \in Int /\ n <= Len(dialogs)
        BY <1>1, <2>1
      <3>4. Len(g) = Len(dialogs) - n
        <4> DEFINE l == Len(dialogs)
                   k == Len(g)
        <4>1. k = IF n + 1 <= l THEN l - (n + 1) + 1 ELSE 0
          BY <3>2
        <4>2. l \in Nat
          BY <1>1
        <4> HIDE DEF l, k
        <4>3. k = l - n
          BY <3>3, <4>1, <4>2 DEF l
        <4> QED
          BY <4>3 DEF k, l
      <3>5. Len(dialogs) - (n + 1) + 1 = Len(dialogs) - n
        BY <1>1, <3>3
      <3>6. \A i \in 1 .. Len(g) : (n + 1) + i - 1 = i + n
        BY <3>3
      <3> QED
        BY <3>2, <3>4, <3>5, <3>6
    <2> HIDE DEF f, g
    <2>c. ds = f \o g
      BY <2>3 DEF f, g
    <2>6. /\ ds \in Seq(S) /\ Len(ds) = Len(dialogs) - 1
          /\ \A i \in 1 .. Len(f) + Len(g) :
                ds[i] = IF i <= Len(f) THEN f[i] ELSE g[i - Len(f)]
      <3>1. /\ ds \in Seq(S) /\ Len(ds) = Len(f) + Len(g)
            /\ \A i \in 1 .. Len(f) + Len(g) :
                  ds[i] = IF i <= Len(f) THEN f[i] ELSE g[i - Len(f)]
        BY <2>4, <2>5, <2>c, ConcatProperties
      <3>2. Len(ds) = Len(dialogs) - 1
        BY <1>1, <2>1, <2>4, <2>5, <3>1
      <3> QED
        BY <3>1, <3>2
    <2>7. \A i \in 1 .. Len(ds) : \E j \in 1 .. Len(dialogs) : ds[i] = dialogs[j]
      <3> SUFFICES ASSUME NEW i \in 1 .. Len(ds)
                   PROVE  \E j \in 1 .. Len(dialogs) : ds[i] = dialogs[j]
        OBVIOUS
      <3>1. CASE i <= n - 1
        <4>1. i \in Int /\ 1 <= i /\ i <= Len(f) /\ Len(f) \in Int /\ Len(g) \in Int
          BY <1>1, <2>1, <2>4, <2>5, <2>6, <3>1
        <4>2. /\ Len(f) <= Len(dialogs) /\ Len(dialogs) \in Int /\ 0 <= Len(g)
          BY <1>1, <2>1, <2>4, <2>5
        <4>3. i \in 1 .. Len(f) /\ i \in 1 .. Len(dialogs) /\ i \in 1 .. Len(f) + Len(g)
          BY <4>1, <4>2
        <4>4. ds[i] = f[i]
          BY <2>6, <4>1, <4>3
        <4> QED
          BY <2>4, <4>3, <4>4
      <3>2. CASE ~(i <= n - 1)
        <4>1. i \in 1 .. Len(f) + Len(g) /\ ~(i <= Len(f)) /\ i - (n - 1) \in 1 .. Len(g)
          <5>1. /\ n \in Int /\ n <= Len(dialogs) /\ Len(f) = n - 1 /\ i \in Int
                /\ Len(g) = Len(dialogs) - n /\ 1 <= i /\ i <= Len(dialogs) - 1
            BY <1>1, <2>1, <2>4, <2>5, <2>6
          <5> QED
            BY <1>1, <3>2, <5>1
        <4>2. i + 1 \in 1 .. Len(dialogs) /\ (i - (n - 1)) + n = i + 1
          BY <1>1, <2>1, <2>6
        <4> QED
          BY <2>4, <2>5, <2>6, <4>1, <4>2
      <3> QED
        BY <3>1, <3>2
    <2> QED
      BY <2>2, <2>6, <2>7 DEF Among, S
  <1> QED
    BY <1>2, <1>3

\* What a dialog was opened for lasts as long as the dialog.
LEMMA MeantStays ==
    ASSUME Types, ObjsKept, adrift => adrift', asked' = asked, NEW d, Meant(d)
    PROVE  /\ d.kind = "drop" => d.obj \in 1 .. Len(objs') /\ objs'[d.obj].vault = d.vault
           /\ d.kind \in {"delete", "drop"} => d.item \in Items
           /\ d.kind = "destroy" /\ ~adrift' => d.vault = asked'
  <1>1. \A i \in 1 .. Len(objs) : i \in 1 .. Len(objs') /\ objs'[i].vault = objs[i].vault
    BY DEF ObjsKept, Types, StoreTypes
  <1> QED
    BY <1>1 DEF Meant

LEMMA DialogsStay ==
    ASSUME Types, DialogInv, ObjsKept, adrift => adrift', asked' = asked, Among(dialogs')
    PROVE  DialogTypes' /\ DialogInv'
  <1>1. DialogTypes'
    BY DEF Among, DialogTypes
  <1>2. \A i \in 1 .. Len(dialogs') : \E j \in 1 .. Len(dialogs) : dialogs'[i] = dialogs[j]
    BY DEF Among
  <1>3. \A j \in 1 .. Len(dialogs) : Meant(dialogs[j])
    BY DEF DialogInv
  <1>4. \A i \in 1 .. Len(dialogs') : Meant(dialogs[i])'
    BY <1>2, <1>3, MeantStays DEF Meant
  <1> QED
    BY <1>1, <1>4 DEF DialogInv

LEMMA DialogAdded ==
    ASSUME Types, DialogInv, ObjsKept, adrift => adrift', asked' = asked,
           NEW ds, Among(ds), NEW d \in Shows(DialogKinds), dialogs' = Append(ds, d),
           d.kind # "destroy", d.kind \in {"delete", "drop"} => d.item \in Items,
           d.kind = "drop" => d.obj \in 1 .. Len(objs) /\ objs[d.obj].vault = d.vault
    PROVE  DialogTypes' /\ DialogInv'
  <1>1. /\ dialogs' \in Seq(Shows(DialogKinds)) /\ Len(dialogs') = Len(ds) + 1
        /\ dialogs'[Len(dialogs')] = d /\ \A i \in 1 .. Len(ds) : dialogs'[i] = ds[i]
    BY DEF Among
  <1>2. \A i \in 1 .. Len(dialogs') : i \in 1 .. Len(ds) \/ i = Len(dialogs')
    BY <1>1 DEF Among
  <1>3. Meant(d)
    BY DEF Meant
  <1>4. \A j \in 1 .. Len(dialogs) : Meant(dialogs[j])
    BY DEF DialogInv
  <1>5. \A i \in 1 .. Len(ds) : Meant(ds[i])
    BY <1>4 DEF Among
  <1>6. \A i \in 1 .. Len(dialogs') : Meant(dialogs[i])'
    <2>1. \A i \in 1 .. Len(dialogs') : Meant(dialogs'[i])
      BY <1>1, <1>2, <1>3, <1>5
    <2> QED
      BY <2>1, MeantStays DEF Meant
  <1> QED
    BY <1>1, <1>6 DEF DialogInv, DialogTypes

LEMMA Opened ==
    ASSUME NEW k \in DialogKinds, NEW v \in Names, NEW o \in Nat, NEW x \in Items \cup {None}
    PROVE  /\ Show(k, v, o, x) \in Shows(DialogKinds) /\ Show(k, v, o, x).kind = k
           /\ Show(k, v, o, x).vault = v /\ Show(k, v, o, x).obj = o
           /\ Show(k, v, o, x).item = x
  BY DEF Show, Shows

\* A dialog acts on what it was opened for.
LEMMA DialogNext ==
    Types /\ OpenInv /\ ShowInv /\ DialogInv /\ ObjsKept /\ [Next]_vars
      => DialogTypes' /\ DialogInv'
  <1> SUFFICES ASSUME Types, OpenInv, ShowInv, DialogInv, ObjsKept, [Next]_vars
               PROVE  DialogTypes' /\ DialogInv'
    OBVIOUS
  <1>o. StoreTypes /\ objs \in Seq(Obj)
    BY DEF Types, StoreTypes
  <1>a. adrift => adrift'
    BY AdriftNext
  <1>b. DialogTypes
    BY DEF Types
  <1>v. screen.vault \in Names
    BY DEF Types, ShowTypes, Shows, AuditPage
  <1>1. ASSUME NEW v \in Vaults, SetVaultViewByName(v)
        PROVE  DialogTypes' /\ DialogInv'
    BY <1>1, <1>a, <1>b, AmongThem, DialogsStay DEF SetVaultViewByName, ShowMain,
       history
  <1>2. CASE Unlock
    BY <1>2, <1>a, <1>b, AmongThem, DialogsStay DEF Unlock, SetVaultView, ShowMain,
       history
  <1>3. ASSUME NEW v \in Vaults, CreateVault(v) PROVE DialogTypes' /\ DialogInv'
    BY <1>3, <1>a, <1>b, AmongThem, DialogsStay DEF CreateVault, SetVaultView, ShowMain,
       history
  <1>4. CASE LockVault
    BY <1>4, <1>a, <1>b, AmongThem, DialogsStay DEF LockVault, ShowMain, history
  <1>5. CASE DestroyVault
    BY <1>5, <1>a, <1>b, AmongFront, DialogsStay DEF DestroyVault, ShowMain, Top,
       history
  <1>6. ASSUME NEW x \in Items, SelectItem(x) PROVE DialogTypes' /\ DialogInv'
    <2> DEFINE o == screen.obj
    <2>1. /\ screen.kind = "vault" /\ asked' = asked
          /\ dialogs' = dialogs \/ dialogs' = Append(dialogs, Show("drop", objs[o].vault, o, x))
      BY <1>6 DEF SelectItem, Dialog, history
    <2>2. o \in 1 .. Len(objs) /\ objs[o].vault \in Names /\ "drop" \in DialogKinds
      <3>1. o \in 1 .. Len(objs)
        BY <2>1 DEF ShowInv, Made
      <3> QED
        BY <1>o, <3>1, ObjAt DEF Names, DialogKinds
    <2> DEFINE d == Show("drop", objs[o].vault, o, x)
    <2>3. /\ d \in Shows(DialogKinds) /\ d.kind = "drop" /\ d.obj = o
          /\ d.vault = objs[o].vault /\ d.item = x
      <3>1. o \in Nat
        BY <1>o, <2>2
      <3> QED
        BY <2>2, <3>1, Opened
    <2> HIDE DEF d, o
    <2>4. dialogs' = dialogs \/ dialogs' = Append(dialogs, d)
      BY <2>1 DEF d
    <2> QED
      BY <1>a, <1>b, <2>1, <2>2, <2>3, <2>4, AmongThem, DialogAdded, DialogsStay
  <1>7. CASE AddItem
    BY <1>7, <1>a, <1>b, AmongThem, DialogsStay DEF AddItem, history
  <1>8. CASE Back
    BY <1>8, <1>a, <1>b, AmongThem, DialogsStay DEF Back, history
  <1>9. ASSUME NEW x \in Items, OnSave(x) PROVE DialogTypes' /\ DialogInv'
    BY <1>9, <1>a, <1>b, AmongThem, DialogsStay DEF OnSave, Crash, ShowMain, window,
       history
  <1>10. CASE OnDelete
    <2>1. /\ asked' = asked /\ (dialogs' = dialogs \/ dialogs' = Front(dialogs))
          /\ dialogs # <<>>
      BY <1>10 DEF OnDelete, Crash, window, history, Top
    <2> QED
      BY <1>a, <1>b, <2>1, AmongThem, AmongFront, DialogsStay
  <1>11. CASE DropItem
    BY <1>11, <1>a, <1>b, AmongFront, DialogsStay DEF DropItem, Top, history
  <1>12. ASSUME NEW x \in Items, WorkerStore(x) PROVE DialogTypes' /\ DialogInv'
    BY <1>12, <1>a, <1>b, AmongThem, DialogsStay DEF WorkerStore, Crash, window, history
  <1>13. CASE ImportEnds
    <2>1. asked' = asked /\ (dialogs' = dialogs \/ dialogs' = Without("import"))
      BY <1>13 DEF ImportEnds, Crash, window, history
    <2> QED
      BY <1>a, <1>b, <2>1, AmongThem, AmongHide, DialogsStay DEF Without
  <1>14. CASE AuditEnds
    BY <1>14, <1>a, <1>b, AmongHide, DialogsStay DEF AuditEnds, Without, history
  <1>15. ASSUME NEW x \in Items, EditAudited(x) PROVE DialogTypes' /\ DialogInv'
    BY <1>15, <1>a, <1>b, AmongThem, DialogsStay DEF EditAudited, history
  <1>16. CASE SaveSettings
    <2>1. /\ asked' = asked /\ (dialogs' = dialogs \/ dialogs' = Front(dialogs))
          /\ dialogs # <<>>
      BY <1>16 DEF SaveSettings, Crash, window, history, Top
    <2> QED
      BY <1>a, <1>b, <2>1, AmongThem, AmongFront, DialogsStay
  <1>17. CASE AdoptVault
    BY <1>17, <1>a, <1>b, AmongHide, DialogsStay DEF AdoptVault, Without, history
  <1>18. ASSUME NEW v \in Vaults, Commit(v) PROVE DialogTypes' /\ DialogInv'
    BY <1>18, <1>a, <1>b, AmongThem, DialogsStay DEF Commit, window, history
  <1>19. CASE Dismiss
    BY <1>19, <1>a, <1>b, AmongFront, DialogsStay DEF Dismiss, ReloadStateFromDisk,
       ShowMain, Top, history
  <1>20. CASE SyncFails
    BY <1>20, <1>a, <1>b, AmongHide, DialogsStay DEF SyncFails, ReloadStateFromDisk,
       ShowMain, Ended, history
  <1>21. CASE AskDestroy
    <2>1. /\ dialogs = <<>>
          /\ dialogs' = Append(dialogs, Show("destroy", objs[cur].vault, 0, None))
          /\ cur # 0 /\ screen.kind = "vault" /\ asked' = screen.vault
          /\ UNCHANGED <<objs, adrift>>
      BY <1>21 DEF AskDestroy, Dialog, Free
    <2>2. objs[cur].vault \in Vaults /\ screen.vault \in Vaults
      BY <1>o, <2>1, ObjAt, ShowAt DEF OpenInv, Types
    <2> DEFINE d == Show("destroy", objs[cur].vault, 0, None)
    <2>3. d \in Shows(DialogKinds) /\ d.kind = "destroy" /\ d.vault = objs[cur].vault
      <3>1. "destroy" \in DialogKinds /\ 0 \in Nat /\ objs[cur].vault \in Names
        BY <2>2 DEF DialogKinds, Names
      <3> QED
        BY <3>1, Opened
    <2> HIDE DEF d
    <2>4. dialogs' = <<d>>
      BY <2>1 DEF d
    <2>5. ~adrift => screen.vault = objs[cur].vault
      BY <2>1, <2>2 DEF ShowInv, Shown, OpenInv
    <2>6. \A i \in 1 .. Len(dialogs') : dialogs'[i] = d
      BY <2>4
    <2>7. DialogTypes'
      BY <2>3, <2>4 DEF DialogTypes
    <2>8. \A i \in 1 .. Len(dialogs') : Meant(dialogs[i])'
      BY <2>1, <2>3, <2>5, <2>6 DEF Meant
    <2> QED
      BY <2>7, <2>8 DEF DialogInv
  <1>22. CASE Cancel
    BY <1>22, <1>a, <1>b, AmongFront, DialogsStay DEF Cancel, Top, history
  <1>23. CASE AskDelete
    <2> DEFINE d == Show("delete", screen.vault, 0, screen.item)
    <2>1. dialogs' = Append(dialogs, d) /\ asked' = asked /\ screen.kind = "edit"
          /\ screen.item # None
      BY <1>23 DEF AskDelete, Dialog, history
    <2>2. /\ screen.vault \in Names /\ screen.item \in Items /\ "delete" \in DialogKinds
          /\ 0 \in Nat
      BY <1>v, <2>1 DEF Types, ShowTypes, Shows, AuditPage, DialogKinds
    <2>3. d \in Shows(DialogKinds) /\ d.kind = "delete" /\ d.item \in Items
      BY <2>2, Opened
    <2> HIDE DEF d
    <2> QED
      BY <1>a, <1>b, <2>1, <2>3, AmongThem, DialogAdded
  <1>24. CASE ImportFromFile
    <2> DEFINE d == Show("import", screen.vault, 0, None)
    <2>1. dialogs' = Append(dialogs, d) /\ asked' = asked
      BY <1>24 DEF ImportFromFile, Dialog, history
    <2>2. screen.vault \in Names /\ "import" \in DialogKinds /\ 0 \in Nat
      BY <1>v DEF DialogKinds
    <2>3. d \in Shows(DialogKinds) /\ d.kind = "import"
      BY <2>2, Opened
    <2> HIDE DEF d
    <2> QED
      BY <1>a, <1>b, <2>1, <2>3, AmongThem, DialogAdded
  <1>25. CASE AskExport
    <2> DEFINE d == Show("saveas", screen.vault, 0, None)
    <2>1. dialogs' = Append(dialogs, d) /\ asked' = asked
      BY <1>25 DEF AskExport, Dialog, history
    <2>2. screen.vault \in Names /\ "saveas" \in DialogKinds /\ 0 \in Nat
      BY <1>v DEF DialogKinds
    <2>3. d \in Shows(DialogKinds) /\ d.kind = "saveas"
      BY <2>2, Opened
    <2> HIDE DEF d
    <2> QED
      BY <1>a, <1>b, <2>1, <2>3, AmongThem, DialogAdded
  <1>26. CASE ExportToFile
    <2> DEFINE d == Show("export", Last(dialogs).vault, 0, None)
    <2>1. /\ asked' = asked /\ dialogs # <<>>
          /\ dialogs' = dialogs \/ dialogs' = Append(Front(dialogs), d)
      BY <1>26 DEF ExportToFile, Crash, window, history, Top
    <2>2. Last(dialogs).vault \in Names /\ "export" \in DialogKinds /\ 0 \in Nat
      <3>1. Last(dialogs) \in Shows(DialogKinds)
        BY <2>1 DEF Last, Types, DialogTypes
      <3> QED
        BY <3>1 DEF Shows, DialogKinds
    <2>3. d \in Shows(DialogKinds) /\ d.kind = "export"
      BY <2>2, Opened
    <2> HIDE DEF d
    <2> QED
      BY <1>a, <1>b, <2>1, <2>3, AmongThem, AmongFront, DialogAdded, DialogsStay
  <1>27. CASE AuditPasswords
    <2> DEFINE d == Show("audit", screen.vault, 0, None)
    <2>1. dialogs' = Append(dialogs, d) /\ asked' = asked
      BY <1>27 DEF AuditPasswords, Dialog, history
    <2>2. screen.vault \in Names /\ "audit" \in DialogKinds /\ 0 \in Nat
      BY <1>v DEF DialogKinds
    <2>3. d \in Shows(DialogKinds) /\ d.kind = "audit"
      BY <2>2, Opened
    <2> HIDE DEF d
    <2> QED
      BY <1>a, <1>b, <2>1, <2>3, AmongThem, DialogAdded
  <1>28. CASE CancelJob
    BY <1>28, <1>a, <1>b, AmongThem, DialogsStay DEF CancelJob, window, history
  <1>29. ASSUME NEW x \in Items, Acquire(x) PROVE DialogTypes' /\ DialogInv'
    BY <1>29, <1>a, <1>b, AmongThem, DialogsStay DEF Acquire, window, history
  <1>30. ASSUME NEW x \in Items, WorkerLoad(x) PROVE DialogTypes' /\ DialogInv'
    BY <1>30, <1>a, <1>b, AmongThem, DialogsStay DEF WorkerLoad, Crash, window, history
  <1>31. ASSUME NEW x \in Items, WorkerFails(x) PROVE DialogTypes' /\ DialogInv'
    BY <1>31, <1>a, <1>b, AmongThem, DialogsStay DEF WorkerFails, window, history
  <1>32. ASSUME NEW x \in Items, WorkerAppend(x) PROVE DialogTypes' /\ DialogInv'
    BY <1>32, <1>a, <1>b, AmongThem, DialogsStay DEF WorkerAppend, window, history
  <1>33. CASE ExportEnds
    BY <1>33, <1>a, <1>b, AmongHide, DialogsStay DEF ExportEnds, Without, history
  <1>34. CASE AskSettings
    <2> DEFINE d == Show("settings", screen.vault, 0, None)
    <2>1. dialogs' = Append(dialogs, d) /\ asked' = asked
      BY <1>34 DEF AskSettings, Dialog, history
    <2>2. screen.vault \in Names /\ "settings" \in DialogKinds /\ 0 \in Nat
      BY <1>v DEF DialogKinds
    <2>3. d \in Shows(DialogKinds) /\ d.kind = "settings"
      BY <2>2, Opened
    <2> HIDE DEF d
    <2> QED
      BY <1>a, <1>b, <2>1, <2>3, AmongThem, DialogAdded
  <1>35. CASE ChangePassword
    <2> DEFINE d == Show("rekey", objs[cur].vault, 0, None)
    <2>1. dialogs' = Append(dialogs, d) /\ asked' = asked
      BY <1>35 DEF ChangePassword, Dialog, history
    <2>2. objs[cur].vault \in Names /\ "rekey" \in DialogKinds /\ 0 \in Nat
      <3>1. cur \in 1 .. Len(objs)
        BY <1>35 DEF ChangePassword, OpenInv
      <3> QED
        BY <1>o, <3>1, ObjAt DEF Names, DialogKinds
    <2>3. d \in Shows(DialogKinds) /\ d.kind = "rekey"
      BY <2>2, Opened
    <2> HIDE DEF d
    <2> QED
      BY <1>a, <1>b, <2>1, <2>3, AmongThem, DialogAdded
  <1>36. CASE HandleIncomingSync
    <2> DEFINE d == Show("receiving", None, 0, None)
    <2>1. dialogs' = Append(dialogs, d) /\ asked' = asked
      BY <1>36 DEF HandleIncomingSync, Dialog, history
    <2>2. None \in Names /\ "receiving" \in DialogKinds /\ 0 \in Nat
      BY DEF Names, DialogKinds
    <2>3. d \in Shows(DialogKinds) /\ d.kind = "receiving"
      BY <2>2, Opened
    <2> HIDE DEF d
    <2> QED
      BY <1>a, <1>b, <2>1, <2>3, AmongThem, DialogAdded
  <1>37. CASE StartSync
    <2> DEFINE d == Show("syncing", None, 0, None)
    <2>1. dialogs' = Append(dialogs, d) /\ asked' = asked
      BY <1>37 DEF StartSync, Dialog, history
    <2>2. None \in Names /\ "syncing" \in DialogKinds /\ 0 \in Nat
      BY DEF Names, DialogKinds
    <2>3. d \in Shows(DialogKinds) /\ d.kind = "syncing"
      BY <2>2, Opened
    <2> HIDE DEF d
    <2> QED
      BY <1>a, <1>b, <2>1, <2>3, AmongThem, DialogAdded
  <1>38. CASE Report
    <2> DEFINE d == Show("complete", None, 0, None)
    <2>1. dialogs' = Append(Ended, d) /\ asked' = asked
      BY <1>38 DEF Report, history
    <2>2. None \in Names /\ "complete" \in DialogKinds /\ 0 \in Nat
      BY DEF Names, DialogKinds
    <2>3. d \in Shows(DialogKinds) /\ d.kind = "complete"
      BY <2>2, Opened
    <2> HIDE DEF d
    <2> QED
      BY <1>a, <1>b, <2>1, <2>3, AmongHide, DialogAdded DEF Ended
  <1>39. CASE UNCHANGED vars
    BY <1>39, <1>a, <1>b, AmongThem, DialogsStay DEF vars, window, history
  <1> QED
    BY <1>1, <1>2, <1>3, <1>4, <1>5, <1>6, <1>7, <1>8, <1>9, <1>10, <1>11, <1>12, <1>13,
       <1>14, <1>15, <1>16, <1>17, <1>18, <1>19, <1>20, <1>21, <1>22, <1>23, <1>24,
       <1>25, <1>26, <1>27, <1>28, <1>29, <1>30, <1>31, <1>32, <1>33, <1>34, <1>35,
       <1>36, <1>37, <1>38, <1>39 DEF Next, Workers, JobEnds

-----------------------------------------------------------------------------
(* The job under way *)

LEMMA JobStays ==
    ASSUME JobTypes, JobInv, ObjsKept, objs \in Seq(Obj), job' = job
    PROVE  JobTypes' /\ JobInv'
  <1>1. \A i \in 1 .. Len(objs) : i \in 1 .. Len(objs')
    BY DEF ObjsKept
  <1> QED
    BY <1>1 DEF JobTypes, JobInv, Handled

LEMMA JobGone == ASSUME job' = NoJob PROVE JobTypes' /\ JobInv'
  BY DEF NoJob, JobTypes, JobInv, Jobs

\* A job that goes on keeps its kind and its vault.
LEMMA JobGoesOn ==
    ASSUME JobTypes, job.kind \in Jobs, job' \in JobRec, job'.kind = job.kind,
           job'.vault = job.vault
    PROVE  JobTypes'
  BY DEF JobTypes, Jobs

LEMMA NewJobIs ==
    ASSUME NEW k \in Jobs, NEW v \in Names, NEW S \in SUBSET Items, NEW m \in BOOLEAN,
           job' = NewJob(k, v, S) \/ job' = [NewJob(k, v, S) EXCEPT !.moved = m],
           k = "audit" => v \in Vaults
    PROVE  JobTypes' /\ JobInv'
  <1> DEFINE a == [x \in Items |-> {}]
             n == NewJob(k, v, S)
             Is(q) == /\ q \in JobRec /\ q.kind = k /\ q.vault = v /\ q.items = S
                      /\ q.todo = S /\ q.busy = {} /\ q.done = {}
  <1>1. a \in [Items -> SUBSET Items]
    OBVIOUS
  <1>2. n = [kind |-> k, vault |-> v, items |-> S, todo |-> S, busy |-> {}, at |-> a,
             done |-> {}, bad |-> FALSE, raced |-> FALSE, moved |-> FALSE]
    BY DEF NewJob
  <1> HIDE DEF a, n
  <1>3. Is(n)
    BY <1>1, <1>2 DEF JobRec
  <1>4. Is([n EXCEPT !.moved = m])
    BY <1>3 DEF JobRec
  <1>c. Is(job')
    BY <1>3, <1>4 DEF n
  <1>5. JobTypes'
    BY <1>c DEF JobTypes, Jobs
  <1>6. JobInv'
    BY <1>c DEF JobInv, Handled
  <1> QED
    BY <1>5, <1>6

\* A job that goes well loses no item.
LEMMA JobNext ==
    Types /\ OpenInv /\ JobInv /\ ObjsKept /\ [Next]_vars => JobTypes' /\ JobInv'
  <1> SUFFICES ASSUME Types, OpenInv, JobInv, ObjsKept, [Next]_vars
               PROVE  JobTypes' /\ JobInv'
    OBVIOUS
  <1>o. StoreTypes /\ objs \in Seq(Obj)
    BY DEF Types, StoreTypes
  <1>j. JobTypes
    BY DEF Types
  <1>i. JobInv
    OBVIOUS
  <1>v. screen.vault \in Names
    BY DEF Types, ShowTypes, Shows, AuditPage
  <1>1. ASSUME NEW v \in Vaults, SetVaultViewByName(v) PROVE JobTypes' /\ JobInv'
    BY <1>1, <1>o, <1>j, JobStays DEF SetVaultViewByName, ShowMain
  <1>2. CASE Unlock
    BY <1>2, <1>o, <1>j, JobStays DEF Unlock, SetVaultView, ShowMain
  <1>3. ASSUME NEW v \in Vaults, CreateVault(v) PROVE JobTypes' /\ JobInv'
    BY <1>3, <1>o, <1>j, JobStays DEF CreateVault, SetVaultView, ShowMain
  <1>4. CASE LockVault
    BY <1>4, <1>o, <1>j, JobStays DEF LockVault, ShowMain
  <1>5. CASE DestroyVault
    BY <1>5, <1>o, <1>j, JobStays DEF DestroyVault, ShowMain
  <1>6. ASSUME NEW x \in Items, SelectItem(x) PROVE JobTypes' /\ JobInv'
    BY <1>6, <1>o, <1>j, JobStays DEF SelectItem
  <1>7. CASE AddItem
    BY <1>7, <1>o, <1>j, JobStays DEF AddItem
  <1>8. CASE Back
    BY <1>8, <1>o, <1>j, JobStays DEF Back
  <1>9. ASSUME NEW x \in Items, OnSave(x) PROVE JobTypes' /\ JobInv'
    BY <1>9, <1>o, <1>j, JobStays DEF OnSave, Crash, ShowMain, window
  <1>10. CASE OnDelete
    BY <1>10, <1>o, <1>j, JobStays DEF OnDelete, Crash, ShowMain, window
  <1>11. CASE DropItem
    BY <1>11, <1>o, <1>j, JobStays DEF DropItem
  <1>12. ASSUME NEW x \in Items, WorkerStore(x) PROVE JobTypes' /\ JobInv'
    <2>1. CASE job' = job
      BY <1>o, <1>j, <2>1, JobStays
    <2>2. CASE job' # job
      <3> DEFINE b == (job.busy \ {<<x, "act">>}) \cup {<<x, "append">>}
                 a == [job.at EXCEPT ![x] = job.done]
                 m == job.moved \/ objs[cur].vault # job.vault
      <3>1. job.kind \in Jobs /\ job.kind = "import" /\ <<x, "act">> \in job.busy
        BY <1>12, <2>2 DEF WorkerStore, Working
      <3>2. job' = [job EXCEPT !.busy = b, !.at = a, !.moved = m]
        BY <1>12, <2>2 DEF WorkerStore, Crash, BeforeAppend
      <3>tbusy. b \in SUBSET (Items \X {"act", "append"})
        BY <1>j, <3>1, JobAt
      <3>tat. a \in [Items -> SUBSET Items]
        BY <1>j, <3>1, JobAt
      <3>tmoved. m \in BOOLEAN
        BY <1>j, <3>1, JobAt
      <3> HIDE DEF b, a, m
      <3>3. job' \in JobRec
        BY <1>j, <3>1, <3>2, <3>tbusy, <3>tat, <3>tmoved, JobAt DEF JobRec
      <3>4. /\ job'.kind = job.kind /\ job'.vault = job.vault /\ job'.items = job.items
           /\ job'.todo = job.todo /\ job'.done = job.done /\ job'.bad = job.bad
           /\ job'.raced = job.raced /\ job'.busy = b
        BY <1>j, <3>1, <3>2, JobAt DEF JobRec
      <3>5. JobTypes'
        BY <1>j, <3>1, <3>3, <3>4, JobGoesOn
      <3>6. JobInv'
        BY <1>i, <3>1, <3>4 DEF JobInv, Handled, b
      <3> QED
        BY <3>5, <3>6
    <2> QED
      BY <2>1, <2>2
  <1>13. CASE ImportEnds
    <2>1. job' = NoJob \/ job' = job
      BY <1>13 DEF ImportEnds, Crash
    <2> QED
      BY <1>o, <1>j, <2>1, JobStays, JobGone
  <1>14. CASE AuditEnds
    BY <1>14, JobGone DEF AuditEnds
  <1>15. ASSUME NEW x \in Items, EditAudited(x) PROVE JobTypes' /\ JobInv'
    BY <1>15, <1>o, <1>j, JobStays DEF EditAudited
  <1>16. CASE SaveSettings
    BY <1>16, <1>o, <1>j, JobStays DEF SaveSettings, Crash, window
  <1>17. CASE AdoptVault
    BY <1>17, JobGone DEF AdoptVault
  <1>18. ASSUME NEW v \in Vaults, Commit(v) PROVE JobTypes' /\ JobInv'
    BY <1>18, <1>o, <1>j, JobStays DEF Commit, window
  <1>19. CASE Dismiss
    BY <1>19, <1>o, <1>j, JobStays DEF Dismiss, ReloadStateFromDisk, ShowMain
  <1>20. CASE SyncFails
    BY <1>20, <1>o, <1>j, JobStays DEF SyncFails, ReloadStateFromDisk, ShowMain
  <1>21. CASE AskDestroy
    BY <1>21, <1>o, <1>j, JobStays DEF AskDestroy
  <1>22. CASE Cancel
    BY <1>22, <1>o, <1>j, JobStays DEF Cancel
  <1>23. CASE AskDelete
    BY <1>23, <1>o, <1>j, JobStays DEF AskDelete
  <1>24. CASE ImportFromFile
    <2>1. job' = NewJob("import", screen.vault, ImportItems)
      BY <1>24 DEF ImportFromFile
    <2>2. "import" \in Jobs /\ ImportItems \in SUBSET Items /\ FALSE \in BOOLEAN
      BY DesktopAssumption DEF Jobs
    <2> QED
      BY <1>v, <2>1, <2>2, NewJobIs
  <1>25. CASE AskExport
    BY <1>25, <1>o, <1>j, JobStays DEF AskExport
  <1>26. CASE ExportToFile
    <2>1. CASE job' = job
      BY <1>o, <1>j, <2>1, JobStays
    <2>2. CASE job' # job
      <3> DEFINE v == Last(dialogs).vault
                 m == objs[cur].vault # v
      <3>1. /\ job' = [NewJob("export", v, objs[cur].items) EXCEPT !.moved = m]
            /\ cur # 0 /\ dialogs # <<>>
        BY <1>26, <2>2 DEF ExportToFile, Crash, Top
      <3>2. "export" \in Jobs /\ objs[cur].items \in SUBSET Items /\ m \in BOOLEAN
        BY <1>o, <3>1, ObjAt DEF Jobs, OpenInv
      <3>3. v \in Names
        <4>1. Last(dialogs) \in Shows(DialogKinds)
          BY <3>1 DEF Last, Types, DialogTypes
        <4> QED
          BY <4>1 DEF Shows
      <3> HIDE DEF m, v
      <3> QED
        BY <3>1, <3>2, <3>3, NewJobIs
    <2> QED
      BY <2>1, <2>2
  <1>27. CASE AuditPasswords
    <2>1. /\ job' = NewJob("audit", screen.vault, objs[cur].items)
          /\ screen.kind = "vault" /\ cur # 0
      BY <1>27 DEF AuditPasswords
    <2>2. "audit" \in Jobs /\ objs[cur].items \in SUBSET Items /\ FALSE \in BOOLEAN
      BY <1>o, <2>1, ObjAt DEF Jobs, OpenInv
    <2>3. screen.vault \in Vaults
      BY <2>1, ShowAt DEF Types
    <2> QED
      BY <1>v, <2>1, <2>2, <2>3, NewJobIs
  <1>28. CASE CancelJob
    <2>1. job.kind \in Jobs
      BY <1>28 DEF CancelJob, Working
    <2>2. job' = [job EXCEPT !.bad = TRUE]
      BY <1>28 DEF CancelJob, BeforeAppend
    <2>3. job' \in JobRec
      BY <1>j, <2>1, <2>2, JobAt DEF JobRec
    <2>4. /\ job'.kind = job.kind /\ job'.vault = job.vault /\ job'.items = job.items
         /\ job'.todo = job.todo /\ job'.busy = job.busy /\ job'.done = job.done
         /\ job'.raced = job.raced /\ job'.bad = TRUE
      BY <1>j, <2>1, <2>2, JobAt DEF JobRec
    <2>5. JobTypes'
      BY <1>j, <2>1, <2>3, <2>4, JobGoesOn
    <2>6. JobInv'
      BY <1>i, <2>1, <2>4 DEF JobInv, Handled
    <2> QED
      BY <2>5, <2>6
  <1>29. ASSUME NEW x \in Items, Acquire(x) PROVE JobTypes' /\ JobInv'
    <2> DEFINE t == job.todo \ {x}
               b == job.busy \cup {<<x, "act">>}
    <2>1. job.kind \in Jobs /\ x \in job.todo
      BY <1>29 DEF Acquire, Working
    <2>2. job' = [job EXCEPT !.todo = t, !.busy = b]
      BY <1>29 DEF Acquire, BeforeAppend
    <2>ttodo. t \in SUBSET Items
      BY <1>j, <2>1, JobAt
    <2>tbusy. b \in SUBSET (Items \X {"act", "append"})
      BY <1>j, <2>1, JobAt
    <2> HIDE DEF t, b
    <2>3. job' \in JobRec
      BY <1>j, <2>1, <2>2, <2>ttodo, <2>tbusy, JobAt DEF JobRec
    <2>4. /\ job'.kind = job.kind /\ job'.vault = job.vault /\ job'.items = job.items
         /\ job'.done = job.done /\ job'.bad = job.bad /\ job'.raced = job.raced
         /\ job'.todo = t /\ job'.busy = b
      BY <1>j, <2>1, <2>2, JobAt DEF JobRec
    <2>5. JobTypes'
      BY <1>j, <2>1, <2>3, <2>4, JobGoesOn
    <2>6. JobInv'
      BY <1>i, <2>1, <2>4 DEF JobInv, Handled, t, b
    <2> QED
      BY <2>5, <2>6
  <1>30. ASSUME NEW x \in Items, WorkerLoad(x) PROVE JobTypes' /\ JobInv'
    <2>0. /\ job.kind \in Jobs /\ job.kind # "import" /\ <<x, "act">> \in job.busy
          /\ \/ job' = job
             \/ job' = [job EXCEPT !.busy = @ \ {<<x, "act">>}, !.bad = TRUE]
             \/ job.kind = "audit" /\ BeforeAppend(x)
             \/ /\ job.kind = "export"
                /\ job' = [job EXCEPT !.busy = @ \ {<<x, "act">>}, !.done = @ \cup {x},
                                      !.moved = @ \/ objs[cur].vault # job.vault]
      BY <1>30 DEF WorkerLoad, Crash, Working
    <2>1. CASE job' = job
      BY <1>o, <1>j, <2>1, JobStays
    <2>2. CASE job' = [job EXCEPT !.busy = @ \ {<<x, "act">>}, !.bad = TRUE]
      <3> DEFINE b == job.busy \ {<<x, "act">>}
      <3>1. job.kind \in Jobs
        BY <2>0, <2>2
      <3>2. job' = [job EXCEPT !.busy = b, !.bad = TRUE]
        BY <2>0, <2>2
      <3>tbusy. b \in SUBSET (Items \X {"act", "append"})
        BY <1>j, <3>1, JobAt
      <3> HIDE DEF b
      <3>3. job' \in JobRec
        BY <1>j, <3>1, <3>2, <3>tbusy, JobAt DEF JobRec
      <3>4. /\ job'.kind = job.kind /\ job'.vault = job.vault /\ job'.items = job.items
           /\ job'.todo = job.todo /\ job'.done = job.done /\ job'.raced = job.raced
           /\ job'.busy = b /\ job'.bad = TRUE
        BY <1>j, <3>1, <3>2, JobAt DEF JobRec
      <3>5. JobTypes'
        BY <1>j, <3>1, <3>3, <3>4, JobGoesOn
      <3>6. JobInv'
        BY <1>i, <3>1, <3>4 DEF JobInv, Handled, b
      <3> QED
        BY <3>5, <3>6
    <2>3. CASE job.kind = "audit" /\ BeforeAppend(x)
      <3> DEFINE b == (job.busy \ {<<x, "act">>}) \cup {<<x, "append">>}
                 a == [job.at EXCEPT ![x] = job.done]
                 m == job.moved \/ objs[cur].vault # job.vault
      <3>1. job.kind \in Jobs /\ job.kind = "audit" /\ <<x, "act">> \in job.busy
        BY <2>0, <2>3
      <3>2. job' = [job EXCEPT !.busy = b, !.at = a, !.moved = m]
        BY <2>0, <2>3 DEF BeforeAppend
      <3>tbusy. b \in SUBSET (Items \X {"act", "append"})
        BY <1>j, <3>1, JobAt
      <3>tat. a \in [Items -> SUBSET Items]
        BY <1>j, <3>1, JobAt
      <3>tmoved. m \in BOOLEAN
        BY <1>j, <3>1, JobAt
      <3> HIDE DEF b, a, m
      <3>3. job' \in JobRec
        BY <1>j, <3>1, <3>2, <3>tbusy, <3>tat, <3>tmoved, JobAt DEF JobRec
      <3>4. /\ job'.kind = job.kind /\ job'.vault = job.vault /\ job'.items = job.items
           /\ job'.todo = job.todo /\ job'.done = job.done /\ job'.bad = job.bad
           /\ job'.raced = job.raced /\ job'.busy = b
        BY <1>j, <3>1, <3>2, JobAt DEF JobRec
      <3>5. JobTypes'
        BY <1>j, <3>1, <3>3, <3>4, JobGoesOn
      <3>6. JobInv'
        BY <1>i, <3>1, <3>4 DEF JobInv, Handled, b
      <3> QED
        BY <3>5, <3>6
    <2>4. CASE /\ job.kind = "export"
               /\ job' = [job EXCEPT !.busy = @ \ {<<x, "act">>}, !.done = @ \cup {x},
                                     !.moved = @ \/ objs[cur].vault # job.vault]
      <3> DEFINE b == job.busy \ {<<x, "act">>}
                 d == job.done \cup {x}
                 m == job.moved \/ objs[cur].vault # job.vault
      <3>1. job.kind \in Jobs /\ job.kind = "export" /\ <<x, "act">> \in job.busy
        BY <2>0, <2>4
      <3>2. job' = [job EXCEPT !.busy = b, !.done = d, !.moved = m]
        BY <2>0, <2>4
      <3>tbusy. b \in SUBSET (Items \X {"act", "append"})
        BY <1>j, <3>1, JobAt
      <3>tdone. d \in SUBSET Items
        BY <1>j, <3>1, JobAt
      <3>tmoved. m \in BOOLEAN
        BY <1>j, <3>1, JobAt
      <3> HIDE DEF b, d, m
      <3>3. job' \in JobRec
        BY <1>j, <3>1, <3>2, <3>tbusy, <3>tdone, <3>tmoved, JobAt DEF JobRec
      <3>4. /\ job'.kind = job.kind /\ job'.vault = job.vault /\ job'.items = job.items
           /\ job'.todo = job.todo /\ job'.bad = job.bad /\ job'.raced = job.raced
           /\ job'.busy = b /\ job'.done = d
        BY <1>j, <3>1, <3>2, JobAt DEF JobRec
      <3>5. JobTypes'
        BY <1>j, <3>1, <3>3, <3>4, JobGoesOn
      <3>6. JobInv'
        BY <1>i, <3>1, <3>4 DEF JobInv, Handled, b, d
      <3> QED
        BY <3>5, <3>6
    <2> QED
      BY <2>0, <2>1, <2>2, <2>3, <2>4
  <1>31. ASSUME NEW x \in Items, WorkerFails(x) PROVE JobTypes' /\ JobInv'
    <2> DEFINE b == job.busy \ {<<x, "act">>}
    <2>1. job.kind \in Jobs
      BY <1>31 DEF WorkerFails, Working
    <2>2. job' = [job EXCEPT !.busy = b, !.bad = TRUE]
      BY <1>31 DEF WorkerFails, BeforeAppend
    <2>tbusy. b \in SUBSET (Items \X {"act", "append"})
      BY <1>j, <2>1, JobAt
    <2> HIDE DEF b
    <2>3. job' \in JobRec
      BY <1>j, <2>1, <2>2, <2>tbusy, JobAt DEF JobRec
    <2>4. /\ job'.kind = job.kind /\ job'.vault = job.vault /\ job'.items = job.items
         /\ job'.todo = job.todo /\ job'.done = job.done /\ job'.raced = job.raced
         /\ job'.busy = b /\ job'.bad = TRUE
      BY <1>j, <2>1, <2>2, JobAt DEF JobRec
    <2>5. JobTypes'
      BY <1>j, <2>1, <2>3, <2>4, JobGoesOn
    <2>6. JobInv'
      BY <1>i, <2>1, <2>4 DEF JobInv, Handled, b
    <2> QED
      BY <2>5, <2>6
  <1>32. ASSUME NEW x \in Items, WorkerAppend(x) PROVE JobTypes' /\ JobInv'
    <2> DEFINE b == job.busy \ {<<x, "append">>}
               d == job.at[x] \cup {x}
               r == job.raced \/ (job.kind # "export" /\ job.at[x] # job.done)
    <2>1. job.kind \in Jobs /\ <<x, "append">> \in job.busy
      BY <1>32 DEF WorkerAppend, Working
    <2>2. job' = [job EXCEPT !.busy = b, !.done = d, !.raced = r]
      BY <1>32 DEF WorkerAppend, BeforeAppend
    <2>tbusy. b \in SUBSET (Items \X {"act", "append"})
      BY <1>j, <2>1, JobAt
    <2>tdone. d \in SUBSET Items
      BY <1>j, <2>1, JobAt
    <2>traced. r \in BOOLEAN
      BY <1>j, <2>1, JobAt
    <2> HIDE DEF b, d, r
    <2>3. job' \in JobRec
      BY <1>j, <2>1, <2>2, <2>tbusy, <2>tdone, <2>traced, JobAt DEF JobRec
    <2>4. /\ job'.kind = job.kind /\ job'.vault = job.vault /\ job'.items = job.items
         /\ job'.todo = job.todo /\ job'.bad = job.bad /\ job'.busy = b
         /\ job'.done = d /\ job'.raced = r
      BY <1>j, <2>1, <2>2, JobAt DEF JobRec
    <2>5. JobTypes'
      BY <1>j, <2>1, <2>3, <2>4, JobGoesOn
    <2>6. JobInv'
      <3>1. job.kind # "export"
        BY <1>i, <2>1 DEF JobInv
      <3>2. ~job'.raced => ~job.raced /\ d = job.done \cup {x}
        BY <2>4, <3>1 DEF r, d
      <3> QED
        BY <1>i, <2>1, <2>4, <3>1, <3>2 DEF JobInv, Handled, b
    <2> QED
      BY <2>5, <2>6
  <1>33. CASE ExportEnds
    BY <1>33, JobGone DEF ExportEnds
  <1>34. CASE AskSettings
    BY <1>34, <1>o, <1>j, JobStays DEF AskSettings
  <1>35. CASE ChangePassword
    <2>1. job' = [kind |-> "rekey", obj |-> cur] /\ cur # 0 /\ objs' = objs
      BY <1>35 DEF ChangePassword
    <2>2. cur \in 1 .. Len(objs) /\ cur \in Nat
      BY <2>1 DEF OpenInv, Types, OpenTypes
    <2> QED
      BY <2>1, <2>2 DEF JobTypes, RekeyRec, JobInv, Jobs
  <1>36. CASE HandleIncomingSync
    BY <1>36, <1>o, <1>j, JobStays DEF HandleIncomingSync
  <1>37. CASE StartSync
    BY <1>37, <1>o, <1>j, JobStays DEF StartSync
  <1>38. CASE Report
    BY <1>38, <1>o, <1>j, JobStays DEF Report
  <1>39. CASE UNCHANGED vars
    BY <1>39, <1>o, <1>j, JobStays DEF vars
  <1> QED
    BY <1>1, <1>2, <1>3, <1>4, <1>5, <1>6, <1>7, <1>8, <1>9, <1>10, <1>11, <1>12, <1>13,
       <1>14, <1>15, <1>16, <1>17, <1>18, <1>19, <1>20, <1>21, <1>22, <1>23, <1>24,
       <1>25, <1>26, <1>27, <1>28, <1>29, <1>30, <1>31, <1>32, <1>33, <1>34, <1>35,
       <1>36, <1>37, <1>38, <1>39 DEF Next, Workers, JobEnds

LEMMA RestNext == Types /\ [Next]_vars => RestTypes'
  <1> SUFFICES ASSUME Types, [Next]_vars PROVE RestTypes'
    OBVIOUS
  <1>r. RestTypes
    BY DEF Types
  <1>a. adrift' \in BOOLEAN
    BY AdriftNext
  <1>1. ASSUME NEW v \in Vaults, SetVaultViewByName(v) PROVE RestTypes'
    BY <1>1, <1>a, <1>r DEF SetVaultViewByName, ShowMain, RestTypes
  <1>2. CASE Unlock
    BY <1>2, <1>a, <1>r DEF Unlock, SetVaultView, ShowMain, RestTypes
  <1>3. ASSUME NEW v \in Vaults, CreateVault(v) PROVE RestTypes'
    BY <1>3, <1>a, <1>r DEF CreateVault, SetVaultView, ShowMain, RestTypes
  <1>4. CASE LockVault
    BY <1>4, <1>a, <1>r DEF LockVault, ShowMain, RestTypes
  <1>5. CASE DestroyVault
    BY <1>5, <1>a, <1>r DEF DestroyVault, ShowMain, RestTypes
  <1>6. ASSUME NEW x \in Items, SelectItem(x) PROVE RestTypes'
    BY <1>6, <1>a, <1>r DEF SelectItem, RestTypes
  <1>7. CASE AddItem
    BY <1>7, <1>a, <1>r DEF AddItem, RestTypes
  <1>8. CASE Back
    BY <1>8, <1>a, <1>r DEF Back, RestTypes
  <1>9. ASSUME NEW x \in Items, OnSave(x) PROVE RestTypes'
    BY <1>9, <1>a, <1>r DEF OnSave, Crash, ShowMain, window, RestTypes
  <1>10. CASE OnDelete
    BY <1>10, <1>a, <1>r DEF OnDelete, Crash, ShowMain, window, RestTypes
  <1>11. CASE DropItem
    BY <1>11, <1>a, <1>r DEF DropItem, RestTypes
  <1>12. ASSUME NEW x \in Items, WorkerStore(x) PROVE RestTypes'
    BY <1>12, <1>a, <1>r DEF WorkerStore, Crash, window, RestTypes
  <1>13. CASE ImportEnds
    BY <1>13, <1>a, <1>r DEF ImportEnds, Crash, ShowMain, window, RestTypes
  <1>14. CASE AuditEnds
    BY <1>14, <1>a, <1>r DEF AuditEnds, RestTypes
  <1>15. ASSUME NEW x \in Items, EditAudited(x) PROVE RestTypes'
    BY <1>15, <1>a, <1>r DEF EditAudited, RestTypes
  <1>16. CASE SaveSettings
    BY <1>16, <1>a, <1>r DEF SaveSettings, Crash, window, RestTypes
  <1>17. CASE AdoptVault
    BY <1>17, <1>a, <1>r DEF AdoptVault, RestTypes
  <1>18. ASSUME NEW v \in Vaults, Commit(v) PROVE RestTypes'
    BY <1>18, <1>a, <1>r DEF Commit, window, RestTypes
  <1>19. CASE Dismiss
    BY <1>19, <1>a, <1>r DEF Dismiss, ReloadStateFromDisk, ShowMain,
       RestTypes
  <1>20. CASE SyncFails
    BY <1>20, <1>a, <1>r DEF SyncFails, ReloadStateFromDisk, ShowMain,
       RestTypes
  <1>21. CASE AskDestroy
    BY <1>21, <1>a, <1>r DEF AskDestroy, RestTypes
  <1>22. CASE Cancel
    BY <1>22, <1>a, <1>r DEF Cancel, RestTypes
  <1>23. CASE AskDelete
    BY <1>23, <1>a, <1>r DEF AskDelete, RestTypes
  <1>24. CASE ImportFromFile
    BY <1>24, <1>a, <1>r DEF ImportFromFile, RestTypes
  <1>25. CASE AskExport
    BY <1>25, <1>a, <1>r DEF AskExport, RestTypes
  <1>26. CASE ExportToFile
    BY <1>26, <1>a, <1>r DEF ExportToFile, Crash, window, RestTypes
  <1>27. CASE AuditPasswords
    BY <1>27, <1>a, <1>r DEF AuditPasswords, RestTypes
  <1>28. CASE CancelJob
    BY <1>28, <1>a, <1>r DEF CancelJob, window, RestTypes
  <1>29. ASSUME NEW x \in Items, Acquire(x) PROVE RestTypes'
    BY <1>29, <1>a, <1>r DEF Acquire, window, RestTypes
  <1>30. ASSUME NEW x \in Items, WorkerLoad(x) PROVE RestTypes'
    BY <1>30, <1>a, <1>r DEF WorkerLoad, Crash, window, RestTypes
  <1>31. ASSUME NEW x \in Items, WorkerFails(x) PROVE RestTypes'
    BY <1>31, <1>a, <1>r DEF WorkerFails, window, RestTypes
  <1>32. ASSUME NEW x \in Items, WorkerAppend(x) PROVE RestTypes'
    BY <1>32, <1>a, <1>r DEF WorkerAppend, window, RestTypes
  <1>33. CASE ExportEnds
    BY <1>33, <1>a, <1>r DEF ExportEnds, RestTypes
  <1>34. CASE AskSettings
    BY <1>34, <1>a, <1>r DEF AskSettings, RestTypes
  <1>35. CASE ChangePassword
    BY <1>35, <1>a, <1>r DEF ChangePassword, RestTypes
  <1>36. CASE HandleIncomingSync
    BY <1>36, <1>a, <1>r DEF HandleIncomingSync, RestTypes
  <1>37. CASE StartSync
    BY <1>37, <1>a, <1>r DEF StartSync, RestTypes
  <1>38. CASE Report
    BY <1>38, <1>a, <1>r DEF Report, RestTypes
  <1>39. CASE UNCHANGED vars
    BY <1>39, <1>a, <1>r DEF vars, RestTypes
  <1> QED
    BY <1>1, <1>2, <1>3, <1>4, <1>5, <1>6, <1>7, <1>8, <1>9, <1>10, <1>11, <1>12, <1>13,
       <1>14, <1>15, <1>16, <1>17, <1>18, <1>19, <1>20, <1>21, <1>22, <1>23, <1>24,
       <1>25, <1>26, <1>27, <1>28, <1>29, <1>30, <1>31, <1>32, <1>33, <1>34, <1>35,
       <1>36, <1>37, <1>38, <1>39 DEF Next, Workers, JobEnds

-----------------------------------------------------------------------------
(* The theorems *)

LEMMA InitIInv == Init => IInv
  <1> SUFFICES ASSUME Init PROVE IInv
    OBVIOUS
  <1>1. PICK damaged \in SUBSET FirstItems :
           disk = [v \in Vaults |->
               [there |-> TRUE, key |-> 1, sealed |-> 1, index |-> FirstItems,
                files |-> [x \in Items |->
                   IF x \notin FirstItems \/ (v = FirstVault /\ x \in damaged)
                   THEN 0 ELSE 1],
                age |-> 0]]
    BY DEF Init
  <1>2. /\ objs = <<>> /\ open = [v \in Vaults |-> 0] /\ cur = 0
        /\ screen = Select /\ main = Select /\ dialogs = <<>>
        /\ job = NoJob /\ sync = "idle" /\ saved = <<None, None>> /\ adrift = FALSE
    BY DEF Init
  <1>3. \A v \in Vaults : disk[v] \in DiskRec /\ disk[v].sealed <= disk[v].key
    <2> SUFFICES ASSUME NEW v \in Vaults
                 PROVE  disk[v] \in DiskRec /\ disk[v].sealed <= disk[v].key
      OBVIOUS
    <2> DEFINE f == [x \in Items |->
                       IF x \notin FirstItems \/ (v = FirstVault /\ x \in damaged)
                       THEN 0 ELSE 1]
    <2>1. f \in [Items -> Nat] /\ FirstItems \subseteq Items
      BY DesktopAssumption
    <2>2. disk[v] = [there |-> TRUE, key |-> 1, sealed |-> 1, index |-> FirstItems,
                     files |-> f, age |-> 0]
      BY <1>1
    <2> HIDE DEF f
    <2> QED
      BY <2>1, <2>2 DEF DiskRec
  <1>4. disk \in [Vaults -> DiskRec]
    BY <1>1, <1>3
  <1>5. objs \in Seq(Obj) /\ Len(objs) = 0 /\ dialogs \in Seq(Shows(DialogKinds))
        /\ Len(dialogs) = 0
    BY <1>2
  <1>6. /\ Select \in Shows(Views) /\ Select \in Shows(Views \cup {"edit"})
        /\ Select.kind = "select"
    BY DEF Select, Show, Shows, Names, Views
  <1>7. StoreTypes /\ OpenTypes
    BY <1>2, <1>4, <1>5 DEF StoreTypes, OpenTypes
  <1>8. ShowTypes /\ DialogTypes /\ RestTypes
    BY <1>2, <1>5, <1>6 DEF ShowTypes, DialogTypes, RestTypes
  <1>9. JobTypes /\ JobInv
    BY <1>2 DEF JobTypes, JobInv, NoJob, Jobs
  <1>10. OpenInv /\ CacheAgrees
    BY <1>2 DEF OpenInv, CacheAgrees
  <1>11. KeyInv
    BY <1>3, <1>5 DEF KeyInv
  <1>12. ShowInv
    BY <1>2, <1>6 DEF ShowInv, Made, Shown
  <1>13. DialogInv
    BY <1>5 DEF DialogInv
  <1>14. SaveGoesToItsVault
    BY <1>2 DEF SaveGoesToItsVault
  <1> QED
    BY <1>7, <1>8, <1>9, <1>10, <1>11, <1>12, <1>13, <1>14 DEF IInv, Types

LEMMA Kept == ASSUME IInv, [Next]_vars PROVE ObjsKept /\ DiskKept
  <1>1. ObjsKept
    BY ObjsNext DEF IInv
  <1> QED
    BY <1>1, DiskNext DEF IInv

LEMMA IInvNext == ASSUME IInv, [Next]_vars PROVE IInv'
  <1>1. /\ Types /\ OpenInv /\ KeyInv /\ ShowInv /\ DialogInv /\ JobInv
        /\ CacheAgrees /\ SaveGoesToItsVault
    BY DEF IInv
  <1>2. ObjsKept /\ DiskKept /\ (Adds \/ Len(objs') = Len(objs))
    BY <1>1, Kept, ObjsNext
  <1>3. StoreTypes'
    BY <1>2 DEF StoreTypes, ObjsKept, DiskKept
  <1>4. OpenTypes' /\ OpenInv'
    BY <1>1, <1>2, OpenNext
  <1>5. ShowTypes' /\ ShowInv'
    BY <1>1, <1>2, ShowNext
  <1>6. DialogTypes' /\ DialogInv'
    BY <1>1, <1>2, DialogNext
  <1>7. JobTypes' /\ JobInv'
    BY <1>1, <1>2, JobNext
  <1>8. RestTypes'
    BY <1>1, RestNext
  <1>9. KeyInv'
    <2>1. \A w \in Vaults : disk'[w].sealed <= disk'[w].key
      BY <1>1, <1>2, SealNext
    <2> QED
      BY <1>1, <1>2, <2>1, KeyNext
  <1>10. CacheAgrees'
    BY <1>1, <1>2, AgreeNext
  <1>11. SaveGoesToItsVault'
    BY <1>1, SavedNext
  <1> QED
    BY <1>3, <1>4, <1>5, <1>6, <1>7, <1>8, <1>9, <1>10, <1>11 DEF IInv, Types

\* The inductive invariant: the types, and how a.vault, the cache, the content,
\* the dialogs and the job belong together.
THEOREM Inductive == Spec => []IInv
  BY InitIInv, IInvNext, PTL DEF Spec

\* The variables keep their types, and the cache's objects are those of their
\* vaults.
THEOREM TypeCorrect == Spec => []TypeOK
  <1>1. IInv => TypeOK
    <2> SUFFICES ASSUME IInv PROVE TypeOK
      OBVIOUS
    <2>1. StoreTypes /\ OpenTypes /\ ShowTypes /\ RestTypes /\ OpenInv /\ KeyInv
      BY DEF IInv, Types
    <2>2. \A v \in Vaults : /\ disk[v].index \subseteq Items
                            /\ disk[v].sealed <= disk[v].key
      BY <2>1, DiskAt DEF KeyInv
    <2>3. \A v \in Vaults : /\ open[v] \in 0 .. Len(objs)
                            /\ open[v] # 0 => objs[open[v]].vault = v
      BY <2>1 DEF OpenInv, StoreTypes
    <2>4. cur \in 0 .. Len(objs)
      BY <2>1 DEF OpenInv, StoreTypes
    <2>5. \A i \in DOMAIN objs : objs[i].items \subseteq Items
      <3>1. DOMAIN objs = 1 .. Len(objs)
        BY <2>1 DEF StoreTypes
      <3> QED
        BY <2>1, <3>1, ObjAt
    <2>6. screen.kind \in {"select", "unlock", "vault", "edit", "audit"}
      BY <2>1, ShowAt DEF Views
    <2> QED
      BY <2>1, <2>2, <2>3, <2>4, <2>5, <2>6 DEF TypeOK, RestTypes
  <1> QED
    BY <1>1, Inductive, PTL

\* The window shows a vault's items only while the vault is unlocked and the
\* current one, in whatever order the tray, the dialogs, the jobs and the syncs
\* come: unless a password change ended under the view of another vault.
THEOREM OnlyUnlockedShown == Spec => []ShowsOnlyUnlocked
  <1>1. IInv => ShowsOnlyUnlocked
    BY DEF IInv, ShowInv, Shown, ShowsOnlyUnlocked
  <1> QED
    BY <1>1, Inductive, PTL

\* What is saved goes into the vault it was opened in, although OnSave reads
\* a.vault when it runs.
THEOREM SavedWhereOpened == Spec => []SaveGoesToItsVault
  <1>1. IInv => SaveGoesToItsVault
    BY DEF IInv
  <1> QED
    BY <1>1, Inductive, PTL

\* The cached object of a vault and the vault's file list the same items, except
\* after a sync, a rollback or a write of an object that was older.
THEOREM CacheIsCurrent == Spec => []CacheAgrees
  <1>1. IInv => CacheAgrees
    BY DEF IInv
  <1> QED
    BY <1>1, Inductive, PTL

\* A vault is destroyed only if it was on the screen when the user asked for it.
THEOREM DestroysWhatWasAsked == Spec => OnlyAskedDestroyed
  <1>1. IInv /\ [Next]_vars =>
          [\A v \in Vaults : disk[v].there /\ ~disk'[v].there /\ ~adrift => v = asked]_vars
    <2> SUFFICES ASSUME IInv, [Next]_vars, NEW v \in Vaults, disk[v].there,
                        ~disk'[v].there, ~adrift
                 PROVE  v = asked
      OBVIOUS
    <2>1. Top("destroy") /\ v = Last(dialogs).vault
      BY Kept DEF DiskKept, Doomed
    <2>2. Meant(Last(dialogs))
      BY <2>1 DEF IInv, DialogInv, Types, DialogTypes, Top, Last
    <2> QED
      BY <2>1, <2>2 DEF Top, Meant
  <1> QED
    BY <1>1, Inductive, PTL DEF OnlyAskedDestroyed, Spec

\* Only the goroutine that waits for the workers ends a job.
LEMMA JobEndsIt ==
    JobTypes /\ job.kind \in Jobs /\ job'.kind = "none" /\ [Next]_vars => JobEnds
  <1> SUFFICES ASSUME JobTypes, job.kind \in Jobs, job'.kind = "none", [Next]_vars
               PROVE  JobEnds
    OBVIOUS
  <1>k. job'.kind # job.kind
    BY DEF Jobs
  <1>1. ASSUME NEW v \in Vaults, SetVaultViewByName(v) PROVE JobEnds
    BY <1>1, <1>k DEF SetVaultViewByName, ShowMain
  <1>2. CASE Unlock
    BY <1>2, <1>k DEF Unlock, SetVaultView, ShowMain
  <1>3. ASSUME NEW v \in Vaults, CreateVault(v) PROVE JobEnds
    BY <1>3, <1>k DEF CreateVault, SetVaultView, ShowMain
  <1>4. CASE LockVault
    BY <1>4, <1>k DEF LockVault, ShowMain
  <1>5. CASE DestroyVault
    BY <1>5, <1>k DEF DestroyVault, ShowMain
  <1>6. ASSUME NEW x \in Items, SelectItem(x) PROVE JobEnds
    BY <1>6, <1>k DEF SelectItem
  <1>7. CASE AddItem
    BY <1>7, <1>k DEF AddItem
  <1>8. CASE Back
    BY <1>8, <1>k DEF Back
  <1>9. ASSUME NEW x \in Items, OnSave(x) PROVE JobEnds
    BY <1>9, <1>k DEF OnSave, Crash, ShowMain, window
  <1>10. CASE OnDelete
    BY <1>10, <1>k DEF OnDelete, Crash, ShowMain, window
  <1>11. CASE DropItem
    BY <1>11, <1>k DEF DropItem
  <1>12. ASSUME NEW x \in Items, WorkerStore(x) PROVE JobEnds
    BY <1>12, <1>k, JobAt DEF WorkerStore, Crash, window, BeforeAppend, JobRec
  <1>13. CASE ImportEnds
    BY <1>13 DEF ImportEnds, Crash, ShowMain, window, JobEnds
  <1>14. CASE AuditEnds
    BY <1>14 DEF AuditEnds, JobEnds
  <1>15. ASSUME NEW x \in Items, EditAudited(x) PROVE JobEnds
    BY <1>15, <1>k DEF EditAudited
  <1>16. CASE SaveSettings
    BY <1>16, <1>k DEF SaveSettings, Crash, window
  <1>17. CASE AdoptVault
    BY <1>17 DEF AdoptVault, Jobs
  <1>18. ASSUME NEW v \in Vaults, Commit(v) PROVE JobEnds
    BY <1>18, <1>k DEF Commit, window
  <1>19. CASE Dismiss
    BY <1>19, <1>k DEF Dismiss, ReloadStateFromDisk, ShowMain
  <1>20. CASE SyncFails
    BY <1>20, <1>k DEF SyncFails, ReloadStateFromDisk, ShowMain
  <1>21. CASE AskDestroy
    BY <1>21, <1>k DEF AskDestroy
  <1>22. CASE Cancel
    BY <1>22, <1>k DEF Cancel
  <1>23. CASE AskDelete
    BY <1>23, <1>k DEF AskDelete
  <1>24. CASE ImportFromFile
    BY <1>24 DEF ImportFromFile, NewJob
  <1>25. CASE AskExport
    BY <1>25, <1>k DEF AskExport
  <1>26. CASE ExportToFile
    BY <1>26, <1>k DEF ExportToFile, Crash, window, NewJob
  <1>27. CASE AuditPasswords
    BY <1>27 DEF AuditPasswords, NewJob
  <1>28. CASE CancelJob
    BY <1>28, <1>k, JobAt DEF CancelJob, window, JobRec
  <1>29. ASSUME NEW x \in Items, Acquire(x) PROVE JobEnds
    BY <1>29, <1>k, JobAt DEF Acquire, window, JobRec
  <1>30. ASSUME NEW x \in Items, WorkerLoad(x) PROVE JobEnds
    BY <1>30, <1>k, JobAt DEF WorkerLoad, Crash, window, BeforeAppend, JobRec
  <1>31. ASSUME NEW x \in Items, WorkerFails(x) PROVE JobEnds
    BY <1>31, <1>k, JobAt DEF WorkerFails, window, JobRec
  <1>32. ASSUME NEW x \in Items, WorkerAppend(x) PROVE JobEnds
    BY <1>32, <1>k, JobAt DEF WorkerAppend, window, JobRec
  <1>33. CASE ExportEnds
    BY <1>33 DEF ExportEnds, JobEnds
  <1>34. CASE AskSettings
    BY <1>34, <1>k DEF AskSettings
  <1>35. CASE ChangePassword
    BY <1>35, <1>k DEF ChangePassword
  <1>36. CASE HandleIncomingSync
    BY <1>36, <1>k DEF HandleIncomingSync
  <1>37. CASE StartSync
    BY <1>37, <1>k DEF StartSync
  <1>38. CASE Report
    BY <1>38, <1>k DEF Report
  <1>39. CASE UNCHANGED vars
    BY <1>39, <1>k DEF vars
  <1> QED
    BY <1>1, <1>2, <1>3, <1>4, <1>5, <1>6, <1>7, <1>8, <1>9, <1>10, <1>11, <1>12, <1>13,
       <1>14, <1>15, <1>16, <1>17, <1>18, <1>19, <1>20, <1>21, <1>22, <1>23, <1>24,
       <1>25, <1>26, <1>27, <1>28, <1>29, <1>30, <1>31, <1>32, <1>33, <1>34, <1>35,
       <1>36, <1>37, <1>38, <1>39 DEF Next, Workers, JobEnds

\* A job that nothing disturbed has handled every item when it ends, and an
\* import has listed them in its vault.
THEOREM JobsAreComplete == Spec => JobIsComplete
  <1> DEFINE A == job.kind \in Jobs /\ job'.kind = "none" /\ ~job.bad /\ ~job.raced
                    /\ ~job.moved
                  => /\ job.done = job.items
                     /\ job.kind = "import" /\ objs[cur].vault = job.vault
                          /\ disk[job.vault].there
                        => job.items \subseteq disk'[job.vault].index
  <1>1. IInv /\ [Next]_vars => [A]_vars
    <2> SUFFICES ASSUME IInv, [Next]_vars, job.kind \in Jobs, job'.kind = "none", ~job.bad,
                        ~job.raced
                 PROVE  /\ job.done = job.items
                        /\ job.kind = "import" /\ objs[cur].vault = job.vault
                             /\ disk[job.vault].there
                           => job.items \subseteq disk'[job.vault].index
      OBVIOUS
    <2>1. JobEnds
      BY JobEndsIt DEF IInv, Types
    <2>2. job.busy = {} /\ job.todo = {}
      BY <2>1 DEF JobEnds, ImportEnds, ExportEnds, AuditEnds, JobWaits
    <2>3. job.items \subseteq Items /\ job.done \subseteq Items
      BY JobAt DEF IInv, Types
    <2>4. job.done = job.items
      BY <2>2, <2>3 DEF IInv, JobInv, Handled
    <2>5. ASSUME job.kind = "import", objs[cur].vault = job.vault, disk[job.vault].there
          PROVE  job.items \subseteq disk'[job.vault].index
      <3>1. ImportEnds /\ job' # job
        BY <2>1, <2>5 DEF JobEnds, ExportEnds, AuditEnds, Jobs
      <3>2. /\ cur # 0 /\ disk' = StoreVault(disk, cur)
            /\ objs' = [objs EXCEPT ![cur].items = @ \cup job.done]
        BY <3>1 DEF ImportEnds, Crash
      <3>3. StoreTypes /\ objs \in Seq(Obj) /\ cur \in 1 .. Len(objs)
        BY <3>2 DEF IInv, Types, StoreTypes, OpenInv
      <3>4. objs[cur].items \cup job.done \subseteq Items
        BY <2>3, <3>3, ObjAt
      <3>5. /\ objs' \in Seq(Obj) /\ cur \in 1 .. Len(objs')
            /\ objs'[cur].vault = objs[cur].vault
            /\ objs'[cur].items = objs[cur].items \cup job.done
        BY <3>2, <3>3, <3>4, ObjsPut
      <3>6. Stores(cur)
        BY <3>2, <3>3 DEF Stores, SameBut, StoreTypes
      <3>7. objs[cur].vault \in Vaults
        BY <3>3, ObjAt
      <3>8. disk'[job.vault].index = objs'[cur].items
        BY <2>5, <3>3, <3>5, <3>6, <3>7, StoresAt
      <3> QED
        BY <2>4, <3>5, <3>8
    <2> QED
      BY <2>4, <2>5
  <1> QED
    BY <1>1, Inductive, PTL DEF JobIsComplete, Spec

=============================================================================
