-------------------------- MODULE PreferencesProofs --------------------------
(***************************************************************************)
(* Proofs about the preferences on disk (VersionedConfig), and about the   *)
(* views and prompts that work within them (ItemEditor).                   *)
(*                                                                         *)
(* The preferences: the types, and that the next start finds the user's    *)
(* last choice, wherever the one before was cut off, unless it finds a     *)
(* usm.json cut short and no chain (LastChoiceKept).                       *)
(* What holds between two steps of a migration, a store or an export is    *)
(* Kept; it is stated while no read of the chain has failed and the plain  *)
(* program has not gone its own way, and neither of these two is ever      *)
(* taken back.                                                             *)
(*                                                                         *)
(* The views: for any limits the preferences set, any hashes and validity  *)
(* times, any keys and any length of a minute and a day.  Passwords follow *)
(* from one fact about each place a password is in: outside the generator  *)
(* it goes with the options beside it (Fits); inside it the entry does,    *)
(* the form's password only when "Use" has copied the entry.  The code is  *)
(* current because the bar counts down in step with the clock (BarInv);    *)
(* that the two agree when a view is opened is arithmetic (MinuteMod), as  *)
(* is that a time step ends when the bar does (NextSecond).                *)
(***************************************************************************)
EXTENDS VersionedConfig, ItemEditor, TLAPS


-----------------------------------------------------------------------------
(* The preferences on disk: types *)

\* A version as the program writes it, or the one of an earlier program.
EarlierContent == [length |-> 3, totp |-> 2]
Contents == {preferencesToMap(p) : p \in Prefs} \cup {EarlierContent}
LegacyRec == {Absent, Cut} \cup [is : {"file"}, prefs : Prefs \cup {NoPreferences}, cat : Nat]
StateRec == [prefs : Prefs, cat : Nat]
Steps == {"off", "read", "check", "rename", "load", "refresh", "exists", "write",
          "idle", "merge", "fill", "export", "export_fill"}

FileTypes ==
    /\ legacy \in LegacyRec /\ backup \in LegacyRec
    /\ chain \in Seq(Contents) /\ Len(chain) <= MaxVersions
RunTypes ==
    /\ prog \in {"none", "plain", "versioned"} /\ pc \in Steps
    /\ after \in {"idle", "rename", "choice"}
    /\ mem \in StateRec /\ out \in StateRec
    /\ known \in SUBSET Prefs
    /\ exported \in BOOLEAN
WatchRec == [st : {"off", "wait", "send", "closed"}, polled : Nat, offer : Nat, taken : Nat,
             got : Nat, cancel : BOOLEAN]
WatchTypes ==
    /\ watch \in WatchRec
    /\ watch.st # "off" => prog = "versioned"
    /\ watch.st = "send" <=> watch.taken # 0

-----------------------------------------------------------------------------
(* The inductive invariant *)

Storing == pc \in {"exists", "write"}
Importing == Storing /\ after = "rename"

\* The versioned program with its migration behind it.
Loaded == prog = "versioned" /\ pc \notin {"read", "check"} /\ ~Importing

\* Which program takes which steps, and when usm.json can hold the last version.
StepInv ==
    /\ prog = "none" <=> pc = "off"
    /\ pc \in {"read", "check", "rename", "load", "exists", "write", "export", "export_fill"}
          => prog = "versioned"
    /\ pc \in {"merge", "fill"} => prog = "plain" /\ after # "rename"
    /\ prog = "plain" /\ legacy.is = "file" => legacy.prefs # NoPreferences
    /\ exported => prog # "plain" /\ pc # "export_fill" /\ ~(Storing /\ after = "choice")

\* Where the last choice is, at every step of a migration, a store or an export.
Kept ==
    /\ ~Unreadable => NextLoad \in known
    /\ exported => legacy.is = "file" /\ legacy.prefs = Latest.prefs
    /\ pc = "check" => legacy.is # "absent"
    /\ pc = "rename" => chain # <<>>
    /\ Importing => chain = <<>> /\ legacy.is = "file" /\ out.prefs = NextLoad
    /\ Storing /\ after = "idle" => out.prefs = Latest.prefs
    /\ Loaded /\ pc # "export_fill" => ~Unreadable /\ NextLoad = Latest.prefs
    /\ pc \in {"export", "export_fill"} => out.prefs = Latest.prefs /\ out.prefs \in known
    /\ pc = "merge" /\ after = "idle" /\ chain = <<>> /\ legacy.is # "cut"
          => out.prefs \in known
    /\ pc = "fill" /\ after = "idle" /\ chain = <<>> => out.prefs \in known
KeptInv == ~misread /\ ~downgraded => Kept

Types == FileTypes /\ RunTypes /\ WatchTypes
IInv == Types /\ StepInv /\ KeptInv

-----------------------------------------------------------------------------
(* Lemmas: what is stored is what is read *)

\* What preferencesToMap writes, extractPreferences reads.
LEMMA RoundTrip ==
    ASSUME NEW p \in Prefs
    PROVE  extractPreferences(preferencesToMap(p)) = p
  BY DEF extractPreferences, preferencesToMap, Prefs

LEMMA ContentPrefs ==
    ASSUME NEW c \in Contents
    PROVE  extractPreferences(c) \in Prefs
  <1>1. CASE c = EarlierContent
    <2>1. extractPreferences(c) = [length |-> 3, totp |-> 2, colour |-> 0]
      BY <1>1 DEF extractPreferences, EarlierContent, newDefaultPreferences
    <2>2. [length |-> 3, totp |-> 2, colour |-> 0] \in Prefs
      BY DEF Prefs
    <2> QED
      BY <2>1, <2>2
  <1>2. ASSUME NEW p \in Prefs, c = preferencesToMap(p)
        PROVE  extractPreferences(c) \in Prefs
    BY <1>2, RoundTrip
  <1> QED
    BY <1>1, <1>2 DEF Contents

LEMMA DefaultPrefs == newDefaultPreferences \in Prefs /\ DefaultState \in StateRec
  <1>1. newDefaultPreferences \in Prefs
    BY DEF newDefaultPreferences, Prefs
  <1> QED
    BY <1>1 DEF DefaultState, State, StateRec

LEMMA LegacyRecs ==
    /\ Absent \in LegacyRec /\ Cut \in LegacyRec
    /\ Absent.is = "absent" /\ Absent.prefs = NoPreferences
    /\ Cut.is = "cut" /\ Cut.prefs = NoPreferences
    /\ \A r \in StateRec : /\ File(r.prefs, r.cat) \in LegacyRec
                           /\ File(r.prefs, r.cat).is = "file"
                           /\ File(r.prefs, r.cat).prefs = r.prefs
  BY DEF Absent, Cut, File, LegacyRec, StateRec

LEMMA LegacyFacts ==
    ASSUME NEW f \in LegacyRec
    PROVE  /\ f.is \in {"file", "absent", "cut"} /\ f.cat \in Nat
           /\ f.prefs \in Prefs \cup {NoPreferences}
           /\ f.is # "file" => f \in {Absent, Cut} /\ f.prefs = NoPreferences
  BY DEF LegacyRec, Absent, Cut

LEMMA LastContent ==
    ASSUME NEW s \in Seq(Contents), s # <<>>
    PROVE  Last(s) \in Contents
  BY DEF Last

LEMMA LatestPrefs ==
    FileTypes => /\ Latest \in StateRec
                 /\ chain # <<>> => Latest.prefs = extractPreferences(Last(chain))
                 /\ chain = <<>> => Latest.prefs = newDefaultPreferences
  <1> SUFFICES ASSUME FileTypes
               PROVE  /\ Latest \in StateRec
                      /\ chain # <<>> => Latest.prefs = extractPreferences(Last(chain))
                      /\ chain = <<>> => Latest.prefs = newDefaultPreferences
    OBVIOUS
  <1>1. CASE chain = <<>>
    BY <1>1, DefaultPrefs DEF Latest, DefaultState, State
  <1>2. CASE chain # <<>>
    <2>1. extractPreferences(Last(chain)) \in Prefs
      BY <1>2, LastContent, ContentPrefs DEF FileTypes
    <2> QED
      BY <1>2, <2>1 DEF Latest, State, StateRec
  <1> QED
    BY <1>1, <1>2

\* A version that is added is the one the next start loads.
LEMMA Stored ==
    ASSUME NEW s \in Seq(Contents), NEW c \in Contents, NEW t,
           t = Append(s, c) \/ t = <<c>>
    PROVE  /\ t \in Seq(Contents) /\ t # <<>> /\ Last(t) = c
           /\ Len(t) = Len(s) + 1 \/ Len(t) = 1
  <1>1. CASE t = Append(s, c)
    <2>1. t \in Seq(Contents) /\ Len(t) = Len(s) + 1 /\ Len(s) \in Nat
      BY <1>1
    <2>2. t[Len(s) + 1] = c
      BY <1>1
    <2>3. t # <<>>
      BY <2>1
    <2> QED
      BY <2>1, <2>2, <2>3 DEF Last
  <1>2. CASE t = <<c>>
    <2>1. t \in Seq(Contents) /\ Len(t) = 1 /\ t[1] = c
      BY <1>2
    <2>2. t # <<>>
      BY <1>2
    <2> QED
      BY <2>1, <2>2 DEF Last
  <1> QED
    BY <1>1, <1>2

-----------------------------------------------------------------------------
(* Steps that do alike *)

WatchStep == WatchAppState \/ Poll \/ Take \/ Deliver \/ CancelWatch \/ EndWatch

\* A change of a widget, and the opening of the view, store some preferences.
LEMMA ChoiceSteps ==
    ASSUME mem \in StateRec,
           \/ \E n \in {0, 1, 3} : ChooseLength(n)
           \/ ChooseTOTP(2) \/ ChooseColour(1) \/ OpenPreferences
    PROVE  \E p \in Prefs : Shown /\ storePreferences(p)
  <1>1. mem.prefs \in Prefs
    BY DEF StateRec
  <1>2. ASSUME NEW n \in {0, 1, 3}, ChooseLength(n)
        PROVE  \E p \in Prefs : Shown /\ storePreferences(p)
    <2>1. [mem.prefs EXCEPT !.length = n] \in Prefs
      BY <1>1 DEF Prefs
    <2> QED
      BY <1>2, <2>1 DEF ChooseLength, Choose
  <1>3. CASE ChooseTOTP(2)
    <2>1. [mem.prefs EXCEPT !.totp = 2] \in Prefs
      BY <1>1 DEF Prefs
    <2> QED
      BY <1>3, <2>1 DEF ChooseTOTP, Choose
  <1>4. CASE ChooseColour(1)
    <2>1. [mem.prefs EXCEPT !.colour = 1] \in Prefs
      BY <1>1 DEF Prefs
    <2> QED
      BY <1>4, <2>1 DEF ChooseColour, Choose
  <1>5. CASE OpenPreferences
    BY <1>5, <1>1 DEF OpenPreferences
  <1> QED
    BY <1>2, <1>3, <1>4, <1>5

LEMMA WatchSteps == WatchStep => OnlyWatch
  BY DEF WatchStep, WatchAppState, Poll, Take, Deliver, CancelWatch, EndWatch

\* The steps, with the choices and the watcher's taken together.
LEMMA NextSteps ==
    ASSUME [Next]_vars, mem \in StateRec
    PROVE  \/ StartVersioned \/ ReadLegacy \/ CheckChain \/ Rename \/ Load \/ Refresh
           \/ ConfigExists \/ Write
           \/ StartPlain \/ RefreshPlain \/ TruncatePlain \/ FillPlain
           \/ \E p \in Prefs : Shown /\ storePreferences(p)
           \/ StoreVault \/ Reload
           \/ \E v \in DOMAIN chain : Rollback(v)
           \/ Reconstruct \/ ExportLoad \/ ExportTruncate \/ ExportFill
           \/ WatchStep \/ Die \/ UNCHANGED vars
  BY ChoiceSteps DEF Next, WatchStep

LEMMA FileTypesNext == FileTypes /\ RunTypes /\ [Next]_vars => FileTypes'
  <1> SUFFICES ASSUME FileTypes, RunTypes, [Next]_vars PROVE FileTypes'
    OBVIOUS
  <1> DEFINE LegacyOK == legacy \in LegacyRec
             ChainOK == chain \in Seq(Contents) /\ Len(chain) <= MaxVersions
  <1>a. LegacyOK /\ backup \in LegacyRec /\ ChainOK
    BY DEF FileTypes
  <1>b. mem \in StateRec /\ out \in StateRec
    BY DEF RunTypes
  <1>c. LegacyOK' /\ backup' \in LegacyRec /\ ChainOK' => FileTypes'
    BY DEF FileTypes
  <1>d. UNCHANGED legacy => LegacyOK'
    BY <1>a
  <1>e. UNCHANGED chain => ChainOK'
    BY <1>a
  <1>f. UNCHANGED files => FileTypes'
    BY <1>a, <1>c, <1>d, <1>e DEF files
  <1>g. ASSUME NEW r \in StateRec, legacy' = File(r.prefs, r.cat) PROVE LegacyOK'
    BY <1>g, LegacyRecs
  <1>h. legacy' \in {Absent, Cut} => LegacyOK'
    BY LegacyRecs
  <1>i. ASSUME NEW c \in Contents, Len(chain) < MaxVersions,
               chain' = Append(chain, c) \/ chain' = <<c>>
        PROVE  ChainOK'
    <2>1. Len(chain) \in Nat
      BY <1>a
    <2>2. chain' \in Seq(Contents) /\ (Len(chain') = Len(chain) + 1 \/ Len(chain') = 1)
      BY <1>a, <1>i, Stored
    <2>3. Len(chain) < MaxVersions
      BY <1>i
    <2>4. ASSUME NEW n \in Nat, NEW m, n < MaxVersions, m = n + 1 \/ m = 1
          PROVE  m <= MaxVersions
      BY <2>4, BoundsAssumption
    <2>5. Len(chain') <= MaxVersions
      BY <2>1, <2>2, <2>3, <2>4
    <2> QED
      BY <2>2, <2>5
  <1> HIDE DEF LegacyOK, ChainOK
  <1>1. CASE StartVersioned \/ ReadLegacy \/ CheckChain \/ Load \/ Refresh \/ ConfigExists
    BY <1>1, <1>f DEF StartVersioned, ReadLegacy, CheckChain, Load, Refresh, ConfigExists
  <1>2. CASE Rename
    <2>1. /\ UNCHANGED chain
          /\ \/ backup' = legacy /\ legacy' = Absent
             \/ UNCHANGED <<backup, legacy>>
      BY <1>2 DEF Rename
    <2>2. legacy \in LegacyRec
      BY DEF FileTypes
    <2> QED
      BY <2>1, <2>2, <1>a, <1>c, <1>d, <1>e, <1>h
  <1>3. CASE Write
    <2>1. UNCHANGED <<legacy, backup>> /\ Len(chain) < MaxVersions
      BY <1>3 DEF Write
    <2>2. \/ chain' = Append(chain, preferencesToMap(out.prefs))
          \/ chain' = << preferencesToMap(out.prefs) >>
          \/ UNCHANGED chain
      BY <1>3 DEF Write, StoreFails
    <2>3. preferencesToMap(out.prefs) \in Contents
      BY <1>b DEF Contents, StateRec
    <2> QED
      BY <2>1, <2>2, <2>3, <1>a, <1>c, <1>d, <1>e, <1>i
  <1>4. CASE StartPlain \/ RefreshPlain
    BY <1>4, <1>f DEF StartPlain, RefreshPlain
  <1>5. CASE TruncatePlain
    <2>1. UNCHANGED <<backup, chain>> /\ (UNCHANGED legacy \/ legacy' = Cut)
      BY <1>5 DEF TruncatePlain
    <2> QED
      BY <2>1, <1>a, <1>c, <1>d, <1>e, <1>h
  <1>6. CASE FillPlain \/ ExportFill
    <2>1. UNCHANGED <<backup, chain>> /\ legacy' = File(out.prefs, out.cat)
      BY <1>6 DEF FillPlain, ExportFill
    <2> QED
      BY <2>1, <1>a, <1>b, <1>c, <1>e, <1>g
  <1>7. ASSUME NEW p \in Prefs, storePreferences(p) PROVE FileTypes'
    BY <1>7, <1>f DEF storePreferences
  <1>8. CASE StoreVault \/ Reload \/ Reconstruct \/ ExportLoad
    BY <1>8, <1>f DEF StoreVault, Reload, Reconstruct, ExportLoad
  <1>9. ASSUME NEW v \in DOMAIN chain, Rollback(v) PROVE FileTypes'
    <2>1. UNCHANGED <<legacy, backup>> /\ Len(chain) < MaxVersions
          /\ chain' = Append(chain, chain[v])
      BY <1>9 DEF Rollback
    <2>2. chain[v] \in Contents
      BY DEF FileTypes
    <2> QED
      BY <2>1, <2>2, <1>a, <1>c, <1>d, <1>i
  <1>10. CASE ExportTruncate
    <2>1. UNCHANGED <<backup, chain>> /\ legacy' = Cut
      BY <1>10 DEF ExportTruncate
    <2> QED
      BY <2>1, <1>a, <1>c, <1>e, <1>h
  <1>11. CASE WatchStep
    BY <1>11, <1>f, WatchSteps DEF OnlyWatch
  <1>12. CASE Die
    BY <1>12, <1>f DEF Die
  <1>13. CASE UNCHANGED vars
    BY <1>13, <1>f DEF vars, files
  <1> QED
    BY <1>b, <1>1, <1>2, <1>3, <1>4, <1>5, <1>6, <1>7, <1>8, <1>9, <1>10, <1>11, <1>12,
       <1>13, NextSteps

\* The states a step can show, store or export.
LEMMA StateRecs ==
    FileTypes =>
      /\ Latest \in StateRec /\ DefaultState \in StateRec
      /\ legacy.is = "file" /\ legacy.prefs # NoPreferences => LoadLegacy \in StateRec
      /\ legacy.is # "file" => LoadLegacy = DefaultState
      /\ State(IF legacy.prefs = NoPreferences THEN newDefaultPreferences
               ELSE legacy.prefs, legacy.cat) \in StateRec
      /\ \A p \in Prefs, n \in Nat :
            /\ State(p, n) \in StateRec
            /\ \A r \in StateRec : /\ [r EXCEPT !.cat = n] \in StateRec
                                   /\ [r EXCEPT !.prefs = p] \in StateRec
  <1> SUFFICES ASSUME FileTypes
               PROVE  /\ Latest \in StateRec /\ DefaultState \in StateRec
                      /\ legacy.is = "file" /\ legacy.prefs # NoPreferences
                           => LoadLegacy \in StateRec
                      /\ legacy.is # "file" => LoadLegacy = DefaultState
                      /\ State(IF legacy.prefs = NoPreferences THEN newDefaultPreferences
                               ELSE legacy.prefs, legacy.cat) \in StateRec
                      /\ \A p \in Prefs, n \in Nat :
                            /\ State(p, n) \in StateRec
                            /\ \A r \in StateRec : /\ [r EXCEPT !.cat = n] \in StateRec
                                                   /\ [r EXCEPT !.prefs = p] \in StateRec
    OBVIOUS
  <1>1. Latest \in StateRec /\ DefaultState \in StateRec /\ newDefaultPreferences \in Prefs
    BY LatestPrefs, DefaultPrefs
  <1>2. ASSUME NEW p \in Prefs, NEW n \in Nat PROVE State(p, n) \in StateRec
    BY DEF State, StateRec
  <1>3. ASSUME NEW p \in Prefs, NEW n \in Nat, NEW r \in StateRec
        PROVE  [r EXCEPT !.cat = n] \in StateRec /\ [r EXCEPT !.prefs = p] \in StateRec
    BY DEF StateRec
  <1>4. /\ legacy.cat \in Nat
        /\ legacy.prefs # NoPreferences => legacy.prefs \in Prefs
    BY LegacyFacts DEF FileTypes
  <1>5. legacy.is = "file" /\ legacy.prefs # NoPreferences => LoadLegacy \in StateRec
    BY <1>2, <1>4 DEF LoadLegacy
  <1>6. legacy.is # "file" => LoadLegacy = DefaultState
    BY DEF LoadLegacy
  <1>7. State(IF legacy.prefs = NoPreferences THEN newDefaultPreferences
              ELSE legacy.prefs, legacy.cat) \in StateRec
    BY <1>1, <1>2, <1>4
  <1> QED
    BY <1>1, <1>2, <1>3, <1>5, <1>6, <1>7

LEMMA RunTypesNext == FileTypes /\ RunTypes /\ StepInv /\ [Next]_vars => RunTypes'
  <1> SUFFICES ASSUME FileTypes, RunTypes, StepInv, [Next]_vars PROVE RunTypes'
    OBVIOUS
  <1> DEFINE Ahead == /\ prog' \in {"none", "plain", "versioned"} /\ pc' \in Steps
                      /\ after' \in {"idle", "rename", "choice"}
             States == mem' \in StateRec /\ out' \in StateRec
             Chosen == known' \in SUBSET Prefs /\ exported' \in BOOLEAN
  <1>a. Ahead /\ States /\ Chosen => RunTypes'
    BY DEF RunTypes
  <1>b. /\ prog \in {"none", "plain", "versioned"} /\ pc \in Steps
        /\ after \in {"idle", "rename", "choice"}
        /\ mem \in StateRec /\ out \in StateRec
        /\ known \in SUBSET Prefs /\ exported \in BOOLEAN
    BY DEF RunTypes
  <1>c. Latest \in StateRec /\ DefaultState \in StateRec
    BY StateRecs
  <1>1. CASE StartVersioned \/ ReadLegacy
    <2>1. Ahead
      BY <1>b, <1>1 DEF StartVersioned, ReadLegacy, Goto, Steps
    <2>2. States /\ Chosen
      BY <1>b, <1>1 DEF StartVersioned, ReadLegacy, hist
    <2> QED
      BY <1>a, <2>1, <2>2
  <1>2. CASE CheckChain
    <2>1. Chosen
      BY <1>b, <1>2 DEF CheckChain
    <2>2. CASE Goto("rename") /\ UNCHANGED <<prog, after, mem, out, found, watch>>
      BY <1>a, <1>b, <2>1, <2>2 DEF Goto, Steps
    <2>3. CASE Stops
      BY <1>a, <1>b, <1>c, <2>1, <2>3 DEF Stops, Steps
    <2>4. CASE Imports
      <3>1. Ahead /\ mem' \in StateRec
        BY <1>b, <2>4 DEF Imports, Goto, Steps
      <3>2. out' \in StateRec
        BY <2>4, StateRecs DEF Imports
      <3> QED
        BY <1>a, <2>1, <3>1, <3>2
    <2> QED
      BY <1>2, <2>2, <2>3, <2>4 DEF CheckChain
  <1>3. CASE Rename
    <2>1. Ahead
      BY <1>b, <1>3 DEF Rename, Goto, Steps
    <2>2. States /\ Chosen
      BY <1>b, <1>c, <1>3 DEF Rename
    <2> QED
      BY <1>a, <2>1, <2>2
  <1>4. CASE Load
    <2>1. Ahead
      BY <1>b, <1>4 DEF Load, Goto, Steps
    <2>2. mem' \in {Latest, DefaultState} /\ UNCHANGED out
      BY <1>4 DEF Load
    <2>3. Chosen
      BY <1>b, <1>4 DEF Load
    <2> QED
      BY <1>a, <1>b, <1>c, <2>1, <2>2, <2>3
  <1>5. CASE Refresh
    <2>1. Ahead
      BY <1>b, <1>5 DEF Refresh, Goto, Steps
    <2>2. UNCHANGED mem /\ Chosen
      BY <1>b, <1>5 DEF Refresh
    <2>3. \E s \in {Latest, DefaultState} : out' = [s EXCEPT !.cat = 1]
      BY <1>5 DEF Refresh
    <2>4. out' \in StateRec
      BY <1>c, <2>3, StateRecs DEF StateRec
    <2> QED
      BY <1>a, <1>b, <2>1, <2>2, <2>4
  <1>6. CASE ConfigExists
    <2>1. Ahead
      BY <1>b, <1>6 DEF ConfigExists, Goto, Steps
    <2>2. States /\ Chosen
      BY <1>b, <1>6 DEF ConfigExists
    <2> QED
      BY <1>a, <2>1, <2>2
  <1>7. CASE Write
    <2>1. exported' = exported
      BY <1>7 DEF Write
    <2>2. CASE UNCHANGED mem /\ StoreEnds
      <3>1. Chosen
        BY <1>b, <2>1, <2>2 DEF StoreEnds, StateRec
      <3>2. Ahead /\ States
        BY <1>b, <1>c, <2>2 DEF StoreEnds, Done, Goto, Steps
      <3> QED
        BY <1>a, <3>1, <3>2
    <2>3. CASE StoreFails
      <3>1. Chosen
        BY <1>b, <2>1, <2>3 DEF StoreFails
      <3>2. Ahead /\ States
        BY <1>b, <1>c, <2>3 DEF StoreFails, Done, Stops, Goto, Steps
      <3> QED
        BY <1>a, <3>1, <3>2
    <2> QED
      BY <1>7, <2>2, <2>3 DEF Write
  <1>8. CASE StartPlain
    <2>1. Ahead
      BY <1>b, <1>8 DEF StartPlain, Goto, Steps
    <2>2. mem' = LoadLegacy /\ UNCHANGED out
      BY <1>8 DEF StartPlain
    <2>3. LoadLegacy \in StateRec
      BY <1>8, <1>c, StateRecs DEF StartPlain
    <2>4. Chosen
      BY <1>b, <1>8 DEF StartPlain
    <2> QED
      BY <1>a, <1>b, <2>1, <2>2, <2>3, <2>4
  <1>9. CASE RefreshPlain
    <2>1. Ahead
      BY <1>b, <1>9 DEF RefreshPlain, Goto, Steps
    <2>2. UNCHANGED mem /\ Chosen
      BY <1>b, <1>9 DEF RefreshPlain, hist
    <2>3. LoadLegacy \in StateRec
      BY <1>9, <1>c, StateRecs DEF RefreshPlain, StepInv, At
    <2>4. State(LoadLegacy.prefs, LoadLegacy.cat + 1) \in StateRec
      BY <2>3, StateRecs DEF StateRec
    <2>5. UNCHANGED out \/ out' = State(LoadLegacy.prefs, LoadLegacy.cat + 1)
      BY <1>9 DEF RefreshPlain
    <2> QED
      BY <1>a, <1>b, <2>1, <2>2, <2>4, <2>5
  <1>10. CASE TruncatePlain
    <2>1. Ahead
      BY <1>b, <1>10 DEF TruncatePlain, Done, Goto, Steps
    <2>2. Chosen
      BY <1>b, <1>10 DEF TruncatePlain
    <2>3. CASE UNCHANGED mem /\ Done
      BY <1>a, <1>b, <1>c, <2>1, <2>2, <2>3 DEF Done
    <2>4. ASSUME NEW cat \in Nat, out' = [out EXCEPT !.cat = cat],
                 mem' = IF after = "choice" THEN [mem EXCEPT !.cat = cat] ELSE mem
          PROVE  RunTypes'
      <3>1. [out EXCEPT !.cat = cat] \in StateRec /\ [mem EXCEPT !.cat = cat] \in StateRec
        BY <1>b DEF StateRec
      <3> QED
        BY <1>a, <1>b, <2>1, <2>2, <2>4, <3>1
    <2>5. (IF legacy.cat > out.cat THEN legacy.cat ELSE out.cat) \in Nat
      BY <1>b, LegacyFacts DEF FileTypes, StateRec
    <2> QED
      BY <1>10, <2>3, <2>4, <2>5 DEF TruncatePlain
  <1>11. CASE FillPlain
    <2>1. Ahead
      BY <1>b, <1>11 DEF FillPlain, Done, Goto, Steps
    <2>2. States
      BY <1>b, <1>c, <1>11 DEF FillPlain, Done
    <2>3. Chosen
      BY <1>b, <1>11 DEF FillPlain, StateRec
    <2> QED
      BY <1>a, <2>1, <2>2, <2>3
  <1>12. ASSUME NEW p \in Prefs, storePreferences(p) PROVE RunTypes'
    <2>1. Ahead
      BY <1>b, <1>12 DEF storePreferences, Goto, Steps
    <2>2. States
      BY <1>b, <1>12, StateRecs DEF storePreferences, StateRec
    <2>3. Chosen
      BY <1>b, <1>12 DEF storePreferences
    <2> QED
      BY <1>a, <2>1, <2>2, <2>3
  <1>13. CASE StoreVault
    BY <1>a, <1>b, <1>13 DEF StoreVault, Goto, Steps, hist
  <1>14. CASE Reload
    <2>1. Ahead /\ UNCHANGED out /\ Chosen
      BY <1>b, <1>14 DEF Reload
    <2>2. \/ mem' \in {mem, Latest, DefaultState}
          \/ prog = "plain" /\ mem' = LoadLegacy
      BY <1>14 DEF Reload
    <2>3. prog = "plain" => LoadLegacy \in StateRec
      BY <1>c, StateRecs DEF StepInv
    <2> QED
      BY <1>a, <1>b, <1>c, <2>1, <2>2, <2>3
  <1>15. ASSUME NEW v \in DOMAIN chain, Rollback(v) PROVE RunTypes'
    <2>1. GetHistory[v] = extractPreferences(chain[v]) /\ chain[v] \in Contents
      BY DEF GetHistory, FileTypes
    <2>2. GetHistory[v] \in Prefs
      BY <2>1, ContentPrefs
    <2>3. State(GetHistory[v], 0) \in StateRec
      BY <2>2, StateRecs
    <2>4. Ahead /\ UNCHANGED out /\ mem' = State(GetHistory[v], 0)
          /\ known' = {GetHistory[v]} /\ exported' = FALSE
      BY <1>b, <1>15 DEF Rollback
    <2> QED
      BY <1>a, <1>b, <2>2, <2>3, <2>4
  <1>16. CASE Reconstruct
    BY <1>a, <1>b, <1>c, <1>16 DEF Reconstruct, hist
  <1>17. CASE ExportLoad
    <2>1. Ahead
      BY <1>b, <1>17 DEF ExportLoad, Goto, Steps
    <2>2. UNCHANGED mem /\ out' \in {Latest, DefaultState} /\ Chosen
      BY <1>b, <1>17 DEF ExportLoad
    <2> QED
      BY <1>a, <1>b, <1>c, <2>1, <2>2
  <1>18. CASE ExportTruncate
    BY <1>a, <1>b, <1>18 DEF ExportTruncate, Goto, Steps
  <1>19. CASE ExportFill
    <2>1. Ahead
      BY <1>b, <1>19 DEF ExportFill, Done, Goto, Steps
    <2>2. States /\ Chosen
      BY <1>b, <1>c, <1>19 DEF ExportFill, Done
    <2> QED
      BY <1>a, <2>1, <2>2
  <1>20. CASE WatchStep
    BY <1>a, <1>b, <1>20, WatchSteps DEF OnlyWatch, hist
  <1>21. CASE Die
    BY <1>a, <1>b, <1>c, <1>21 DEF Die, Stops, Steps, hist
  <1>22. CASE UNCHANGED vars
    BY <1>a, <1>b, <1>22 DEF vars
  <1> QED
    BY <1>b, <1>1, <1>2, <1>3, <1>4, <1>5, <1>6, <1>7, <1>8, <1>9, <1>10, <1>11, <1>12,
       <1>13, <1>14, <1>15, <1>16, <1>17, <1>18, <1>19, <1>20, <1>21, <1>22, NextSteps

LEMMA WatchTypesNext == FileTypes /\ WatchTypes /\ [Next]_vars => WatchTypes'
  <1> SUFFICES ASSUME FileTypes, WatchTypes, [Next]_vars PROVE WatchTypes'
    OBVIOUS
  <1>a. /\ watch \in WatchRec
        /\ watch.st # "off" => prog = "versioned"
        /\ watch.st = "send" <=> watch.taken # 0
        /\ Len(chain) \in Nat
    BY DEF WatchTypes, FileTypes
  <1>b. NoWatch \in WatchRec /\ NoWatch.st = "off" /\ NoWatch.taken = 0
    BY DEF NoWatch, WatchRec
  <1>c. UNCHANGED <<watch, prog>> => WatchTypes'
    BY <1>a DEF WatchTypes
  <1>d. ASSUME watch' = NoWatch PROVE WatchTypes'
    BY <1>b, <1>d DEF WatchTypes
  <1>e. Stops => WatchTypes'
    BY <1>d DEF Stops
  <1>f. ASSUME NEW x \in {"wait", "send", "closed"}, NEW n \in Nat, NEW o \in Nat,
               NEW t \in Nat, NEW g \in Nat, NEW b \in BOOLEAN, x = "send" <=> t # 0,
               watch' = [st |-> x, polled |-> n, offer |-> o, taken |-> t, got |-> g,
                         cancel |-> b],
               prog' = "versioned"
        PROVE  WatchTypes'
    BY <1>f DEF WatchTypes, WatchRec
  <1>1. CASE UNCHANGED watch /\ prog = "none"
    BY <1>a, <1>1 DEF WatchTypes
  <1>2. CASE WatchAppState
    <2>1. PICK n \in {0, Len(chain)} :
             watch' = [NoWatch EXCEPT !.st = "wait", !.polled = n, !.got = n]
      BY <1>2 DEF WatchAppState
    <2>2. prog' = "versioned"
      BY <1>2 DEF WatchAppState, OnlyWatch
    <2>3. n \in Nat
      BY <1>a
    <2>4. watch' = [st |-> "wait", polled |-> n, offer |-> 0, taken |-> 0, got |-> n,
                    cancel |-> FALSE]
      BY <2>1 DEF NoWatch
    <2> QED
      BY <2>2, <2>3, <2>4, <1>f
  <1>3. CASE Poll \/ Take \/ Deliver \/ CancelWatch \/ EndWatch
    <2>1. watch.st \in {"wait", "send"} /\ UNCHANGED prog
      BY <1>3 DEF Poll, Take, Deliver, CancelWatch, EndWatch, Watching, OnlyWatch
    <2>2. prog' = "versioned"
      BY <1>a, <2>1
    <2>3. /\ watch = [st |-> watch.st, polled |-> watch.polled, offer |-> watch.offer,
                      taken |-> watch.taken, got |-> watch.got, cancel |-> watch.cancel]
          /\ watch.polled \in Nat /\ watch.offer \in Nat /\ watch.taken \in Nat
          /\ watch.got \in Nat /\ watch.cancel \in BOOLEAN
      BY <1>a DEF WatchRec
    <2>4. CASE Poll
      <3>1. watch' = [st |-> watch.st, polled |-> Len(chain), offer |-> Len(chain),
                      taken |-> watch.taken, got |-> watch.got, cancel |-> watch.cancel]
        BY <2>3, <2>4 DEF Poll
      <3> QED
        BY <1>a, <1>f, <2>1, <2>2, <2>3, <3>1
    <2>5. CASE Take
      <3>1. /\ watch' = [st |-> "send", polled |-> watch.polled, offer |-> 0,
                         taken |-> watch.offer, got |-> watch.got, cancel |-> watch.cancel]
            /\ watch.offer # 0
        BY <2>3, <2>5 DEF Take
      <3> QED
        BY <1>f, <2>2, <2>3, <3>1
    <2>6. CASE Deliver
      <3>1. watch' = [st |-> "wait", polled |-> watch.polled, offer |-> watch.offer,
                      taken |-> 0, got |-> watch.taken, cancel |-> watch.cancel]
        BY <2>3, <2>6 DEF Deliver
      <3> QED
        BY <1>f, <2>2, <2>3, <3>1
    <2>7. CASE CancelWatch
      <3>1. watch' = [st |-> watch.st, polled |-> watch.polled, offer |-> watch.offer,
                      taken |-> watch.taken, got |-> watch.got, cancel |-> TRUE]
        BY <2>3, <2>7 DEF CancelWatch
      <3> QED
        BY <1>a, <1>f, <2>1, <2>2, <2>3, <3>1
    <2>8. CASE EndWatch
      <3>1. watch' = [st |-> "closed", polled |-> 0, offer |-> 0, taken |-> 0, got |-> 0,
                      cancel |-> FALSE]
        BY <2>8 DEF EndWatch, NoWatch
      <3> QED
        BY <1>f, <2>2, <3>1
    <2> QED
      BY <1>3, <2>4, <2>5, <2>6, <2>7, <2>8
  <1>4. CASE StartVersioned \/ StartPlain
    BY <1>1, <1>4 DEF StartVersioned, StartPlain
  <1>5. CASE ReadLegacy \/ Rename \/ Load \/ Refresh \/ ConfigExists
    BY <1>c, <1>5 DEF ReadLegacy, Rename, Load, Refresh, ConfigExists
  <1>6. CASE CheckChain
    BY <1>c, <1>e, <1>6 DEF CheckChain, Imports
  <1>7. CASE Write
    BY <1>c, <1>e, <1>7 DEF Write, StoreEnds, StoreFails, Done
  <1>8. CASE RefreshPlain \/ TruncatePlain \/ FillPlain
    BY <1>c, <1>8 DEF RefreshPlain, TruncatePlain, FillPlain, Done
  <1>9. ASSUME NEW p, storePreferences(p) PROVE WatchTypes'
    BY <1>c, <1>9 DEF storePreferences
  <1>10. CASE StoreVault \/ Reload \/ Reconstruct
    BY <1>c, <1>10 DEF StoreVault, Reload, Reconstruct
  <1>11. ASSUME NEW v, Rollback(v) PROVE WatchTypes'
    BY <1>c, <1>11 DEF Rollback
  <1>12. CASE ExportLoad \/ ExportTruncate \/ ExportFill
    BY <1>c, <1>12 DEF ExportLoad, ExportTruncate, ExportFill, Done
  <1>13. CASE Die
    BY <1>e, <1>13 DEF Die
  <1>14. CASE UNCHANGED vars
    BY <1>c, <1>14 DEF vars
  <1>15. ASSUME \/ \E n \in {0, 1, 3} : ChooseLength(n)
                \/ ChooseTOTP(2) \/ ChooseColour(1) \/ OpenPreferences
         PROVE  WatchTypes'
    BY <1>9, <1>15 DEF ChooseLength, ChooseTOTP, ChooseColour, OpenPreferences, Choose
  <1> QED
    BY <1>2, <1>3, <1>4, <1>5, <1>6, <1>7, <1>8, <1>10, <1>11, <1>12, <1>13, <1>14, <1>15
       DEF Next

-----------------------------------------------------------------------------
(* The steps keep the invariant *)

LEMMA StepInvNext == FileTypes /\ RunTypes /\ StepInv /\ [Next]_vars => StepInv'
  <1> SUFFICES ASSUME FileTypes, RunTypes, StepInv, [Next]_vars PROVE StepInv'
    OBVIOUS
  <1>a. mem \in StateRec /\ out \in StateRec /\ NoPreferences \notin Prefs
    BY DEF RunTypes, NoPreferences, Prefs
  <1>1. CASE StartVersioned \/ ReadLegacy
    BY <1>1 DEF StartVersioned, ReadLegacy, At, Goto, StepInv, Storing, files, hist
  <1>2. CASE CheckChain
    <2>1. UNCHANGED <<files, exported>> /\ At("versioned", "check")
      BY <1>2 DEF CheckChain
    <2>2. CASE Goto("rename") /\ UNCHANGED prog
      BY <2>1, <2>2 DEF At, Goto, StepInv, Storing, files
    <2>3. CASE Stops
      BY <2>1, <2>3 DEF At, Stops, StepInv, Storing, files
    <2>4. CASE Imports
      BY <2>1, <2>4 DEF At, Goto, Imports, StepInv, Storing, files
    <2> QED
      BY <1>2, <2>2, <2>3, <2>4 DEF CheckChain
  <1>3. CASE Rename \/ Load \/ Refresh
    <2>1. pc' \in {"load", "refresh", "exists"} /\ after' \in {after, "idle"}
          /\ prog = "versioned" /\ prog' = prog
          /\ exported' \in {exported, FALSE} /\ (pc' = "exists" => after' = "idle")
      BY <1>3 DEF Rename, Load, Refresh, At, Goto
    <2> QED
      BY <2>1 DEF StepInv, Storing
  <1>4. CASE ConfigExists
    BY <1>4 DEF ConfigExists, At, Goto, StepInv, Storing, files
  <1>5. CASE Write
    <2>1. UNCHANGED <<legacy, exported>> /\ At("versioned", "write")
      BY <1>5 DEF Write
    <2>2. CASE StoreEnds
      BY <2>1, <2>2 DEF StoreEnds, Done, Goto, At, StepInv, Storing
    <2>3. CASE StoreFails
      BY <2>1, <2>3 DEF StoreFails, Done, Stops, Goto, At, StepInv, Storing
    <2> QED
      BY <1>5, <2>2, <2>3 DEF Write
  <1>6. CASE StartPlain \/ RefreshPlain
    BY <1>6 DEF StartPlain, RefreshPlain, Goto, At, StepInv, Storing, files, hist
  <1>7. CASE TruncatePlain
    <2>1. At("plain", "merge") /\ UNCHANGED <<prog, exported>>
      BY <1>7 DEF TruncatePlain, Done
    <2>2. pc' \in {"idle", "fill"} /\ (pc' = "fill" => UNCHANGED after)
      BY <1>7 DEF TruncatePlain, Done, Goto
    <2>3. UNCHANGED legacy \/ legacy'.is = "cut"
      BY <1>7 DEF TruncatePlain, Cut
    <2> QED
      BY <2>1, <2>2, <2>3 DEF At, StepInv, Storing
  <1>8. CASE FillPlain \/ ExportFill
    <2>1. legacy' = File(out.prefs, out.cat) /\ pc' = "idle" /\ UNCHANGED prog
      BY <1>8 DEF FillPlain, ExportFill, Done, Goto
    <2>2. legacy'.prefs # NoPreferences
      BY <1>a, <2>1, LegacyRecs DEF StateRec
    <2>3. pc # "off" /\ (exported' => prog = "versioned")
      BY <1>8 DEF FillPlain, ExportFill, At, StepInv
    <2> QED
      BY <2>1, <2>2, <2>3 DEF StepInv, Storing
  <1>9. ASSUME NEW p \in Prefs, Shown, storePreferences(p) PROVE StepInv'
    BY <1>9 DEF storePreferences, Shown, Goto, StepInv, Storing, files, RunTypes
  <1>10. CASE StoreVault \/ Reload \/ Reconstruct
    BY <1>10 DEF StoreVault, Reload, Reconstruct, Shown, Goto, StepInv, Storing, files, hist
  <1>11. ASSUME NEW v \in DOMAIN chain, Rollback(v) PROVE StepInv'
    BY <1>11 DEF Rollback, Shown, StepInv, Storing
  <1>12. CASE ExportLoad \/ ExportTruncate
    <2>1. prog = "versioned" /\ prog' = prog /\ pc' \in {"export", "export_fill"}
          /\ (pc' = "export_fill" => exported' = FALSE) /\ pc # "off"
      BY <1>12 DEF ExportLoad, ExportTruncate, At, Goto, Shown
    <2> QED
      BY <2>1 DEF StepInv, Storing
  <1>13. CASE WatchStep
    BY <1>13, WatchSteps DEF OnlyWatch, StepInv, Storing, files, hist
  <1>14. CASE Die
    BY <1>14 DEF Die, Stops, StepInv, Storing, files, hist
  <1>15. CASE UNCHANGED vars
    BY <1>15 DEF vars, StepInv, Storing
  <1> QED
    BY <1>a, <1>1, <1>2, <1>3, <1>4, <1>5, <1>6, <1>7, <1>8, <1>9, <1>10, <1>11, <1>12,
       <1>13, <1>14, <1>15, NextSteps

\* Neither history is ever taken back.
LEMMA HistoryStays ==
    ASSUME RunTypes, [Next]_vars, ~misread', ~downgraded'
    PROVE  ~misread /\ ~downgraded
  <1>1. CASE StartVersioned \/ ReadLegacy \/ StoreVault \/ Reconstruct \/ Die
    BY <1>1 DEF StartVersioned, ReadLegacy, StoreVault, Reconstruct, Die, hist
  <1>2. CASE CheckChain
    BY <1>2 DEF CheckChain
  <1>3. CASE Load \/ Refresh \/ ConfigExists \/ ExportLoad
    BY <1>3 DEF Load, Refresh, ConfigExists, ExportLoad, GetLatest
  <1>4. CASE Rename \/ Write
    BY <1>4 DEF Rename, Write
  <1>11. CASE StartPlain \/ FillPlain
    <2>1. UNCHANGED misread
      BY <1>11 DEF StartPlain, FillPlain
    <2>2. \/ downgraded' = (downgraded \/ (chain # <<>> /\ ~exported))
          \/ downgraded' = (downgraded \/ (after = "choice" /\ chain # <<>>))
      BY <1>11, Zenon DEF StartPlain, FillPlain
    <2> QED
      BY <2>1, <2>2, Zenon
  <1>5. CASE RefreshPlain \/ TruncatePlain \/ ExportTruncate \/ ExportFill
    BY <1>5 DEF RefreshPlain, TruncatePlain, ExportTruncate, ExportFill, hist
  <1>6. ASSUME NEW p \in Prefs, storePreferences(p) PROVE ~misread /\ ~downgraded
    BY <1>6 DEF storePreferences
  <1>7. CASE Reload
    BY <1>7 DEF Reload, GetLatest
  <1>8. ASSUME NEW v \in DOMAIN chain, Rollback(v) PROVE ~misread /\ ~downgraded
    BY <1>8 DEF Rollback
  <1>9. CASE WatchStep
    BY <1>9, WatchSteps DEF OnlyWatch, hist
  <1>10. CASE UNCHANGED vars
    BY <1>10 DEF vars
  <1> QED
    BY <1>1, <1>2, <1>3, <1>4, <1>5, <1>6, <1>7, <1>8, <1>9, <1>10, <1>11, NextSteps
       DEF RunTypes

\* What the next start loads, with a chain and without.
LEMMA NextLoadIs ==
    /\ chain # <<>> => NextLoad = extractPreferences(Last(chain))
    /\ chain = <<>> /\ legacy.is = "file" /\ legacy.prefs # NoPreferences
          => NextLoad = legacy.prefs
    /\ chain = <<>> /\ (legacy.is # "file" \/ legacy.prefs = NoPreferences)
          => NextLoad = newDefaultPreferences
  BY DEF NextLoad

LEMMA SameFiles ==
    UNCHANGED files =>
       /\ NextLoad' = NextLoad /\ Latest' = Latest /\ Unreadable' = Unreadable
       /\ chain' = chain /\ legacy' = legacy
  BY DEF files, NextLoad, Latest, Unreadable

\* A read of the chain that does not fail gives the last version.
LEMMA GoodRead ==
    ASSUME NEW s, GetLatest(s), ~misread'
    PROVE  s = Latest
  BY DEF GetLatest

\* A version that is written is what the next start loads.
LEMMA AfterStore ==
    ASSUME FileTypes, FileTypes', NEW p \in Prefs,
           \/ chain' = Append(chain, preferencesToMap(p))
           \/ chain' = << preferencesToMap(p) >>
    PROVE  /\ chain' # <<>> /\ NextLoad' = p /\ Latest'.prefs = p /\ ~Unreadable'
  <1>1. preferencesToMap(p) \in Contents
    BY DEF Contents
  <1>2. chain' # <<>> /\ Last(chain') = preferencesToMap(p)
    BY <1>1, Stored DEF FileTypes
  <1>3. extractPreferences(preferencesToMap(p)) = p
    BY RoundTrip
  <1>4. NextLoad' = p
    BY <1>2, <1>3 DEF NextLoad
  <1>5. Latest'.prefs = p
    BY <1>2, <1>3 DEF Latest, State
  <1> QED
    BY <1>2, <1>4, <1>5 DEF Unreadable

LEMMA KeptNext ==
    ASSUME FileTypes, FileTypes', RunTypes, StepInv, StepInv', KeptInv, [Next]_vars,
           ~misread', ~downgraded'
    PROVE  Kept'
  <1>a. Kept
    BY HistoryStays DEF KeptInv
  <1>b. /\ Latest \in StateRec /\ Latest.prefs \in Prefs /\ out.prefs \in Prefs
        /\ newDefaultPreferences \in Prefs
    BY LatestPrefs, DefaultPrefs DEF RunTypes, StateRec
  <1>c. /\ chain # <<>> => NextLoad = Latest.prefs
        /\ chain = <<>> => Latest.prefs = newDefaultPreferences
    BY NextLoadIs, LatestPrefs
  <1>d. NoPreferences \notin Prefs
    BY DEF NoPreferences, Prefs
  \* The files stay, and the program goes to a step that holds nothing.
  <1>e. ASSUME UNCHANGED <<files, known>>, exported' => exported,
               pc' \in {"off", "idle", "refresh", "load", "read"},
               Loaded' => Loaded /\ pc # "export_fill"
        PROVE  Kept'
    BY <1>a, <1>e, SameFiles DEF Kept, Importing, Storing
  <1>1. CASE StartVersioned \/ StoreVault \/ Reload \/ Reconstruct \/ Die
    <2>1. CASE StartVersioned
      BY <1>e, <2>1 DEF StartVersioned, Goto, Loaded, hist
    <2>2. CASE StoreVault
      BY <1>e, <2>2 DEF StoreVault, Goto, Loaded, Importing, Storing, Shown, hist
    <2>3. CASE Reload \/ Reconstruct
      BY <1>e, <2>3 DEF Reload, Reconstruct, Loaded, Importing, Storing, Shown, hist
    <2>4. CASE Die
      BY <1>e, <2>4 DEF Die, Stops, Loaded, hist
    <2> QED
      BY <1>1, <2>1, <2>2, <2>3, <2>4
  <1>2. CASE ReadLegacy
    <2>1. /\ UNCHANGED <<files, known, exported, prog, after, out>>
          /\ prog = "versioned"
          /\ pc' = IF legacy.is = "absent" THEN "load" ELSE "check"
      BY <1>2 DEF ReadLegacy, At, Goto, hist
    <2>2. legacy.is = "absent" => ~Unreadable /\ NextLoad = Latest.prefs
      BY <1>c, NextLoadIs DEF Unreadable
    <2> QED
      BY <1>a, <2>1, <2>2, SameFiles DEF Kept, Importing, Storing, Loaded
  <1>3. CASE CheckChain
    <2>1. /\ UNCHANGED <<files, known, exported>> /\ prog = "versioned" /\ pc = "check"
      BY <1>3 DEF CheckChain, At
    <2>2. \/ chain # <<>> /\ Goto("rename") /\ UNCHANGED <<prog, after, out>>
          \/ Stops
          \/ chain = <<>> /\ legacy.is # "cut" /\ Imports
      BY <1>3 DEF CheckChain
    <2>3. CASE chain # <<>> /\ Goto("rename") /\ UNCHANGED <<prog, after, out>>
      BY <1>a, <1>c, <2>1, <2>3, SameFiles DEF Kept, Goto, Importing, Storing, Loaded,
         Unreadable
    <2>4. CASE Stops
      BY <1>e, <2>1, <2>4 DEF Stops, Loaded
    <2>5. CASE chain = <<>> /\ legacy.is # "cut" /\ Imports
      <3>1. /\ pc' = "exists" /\ after' = "rename"
            /\ out'.prefs = IF legacy.prefs = NoPreferences THEN newDefaultPreferences
                            ELSE legacy.prefs
        BY <2>5 DEF Imports, Goto, State
      <3>2. legacy.is = "file"
        BY <1>a, <2>1, <2>5, LegacyFacts DEF Kept, FileTypes
      <3>3. out'.prefs = NextLoad
        BY <2>5, <3>1, <3>2, NextLoadIs
      <3> QED
        BY <1>a, <2>1, <2>5, <3>1, <3>2, <3>3, SameFiles
           DEF Kept, Importing, Storing, Loaded
    <2> QED
      BY <2>2, <2>3, <2>4, <2>5
  <1>4. CASE Rename
    <2>1. /\ UNCHANGED <<chain, known, prog>> /\ pc = "rename" /\ pc' = "load"
          /\ \/ exported' = FALSE
             \/ UNCHANGED <<legacy, exported>>
      BY <1>4 DEF Rename, At, Goto
    <2>2. chain # <<>>
      BY <1>a, <2>1 DEF Kept
    <2>3. NextLoad' = NextLoad /\ Latest' = Latest /\ ~Unreadable /\ ~Unreadable'
      BY <2>1, <2>2 DEF NextLoad, Latest, Unreadable
    <2> QED
      BY <1>a, <1>c, <2>1, <2>2, <2>3 DEF Kept, Importing, Storing
  <1>5. CASE Load
    <2>1. /\ UNCHANGED <<files, exported, prog, after, out>>
          /\ prog = "versioned" /\ pc = "load" /\ pc' = "refresh"
          /\ \E s \in {Latest, DefaultState} : GetLatest(s) /\ known' = known \cap {s.prefs}
      BY <1>5 DEF Load, At, Goto
    <2>2. known' = known \cap {Latest.prefs}
      BY <2>1, GoodRead
    <2>3. ~Unreadable /\ NextLoad = Latest.prefs /\ NextLoad \in known
      BY <1>a, <2>1 DEF Kept, Loaded, Importing, Storing
    <2> QED
      BY <1>a, <2>1, <2>2, <2>3, SameFiles DEF Kept, Importing, Storing
  <1>6. CASE Refresh
    <2>1. /\ UNCHANGED <<files, known, exported, prog>>
          /\ prog = "versioned" /\ pc = "refresh" /\ pc' = "exists" /\ after' = "idle"
          /\ \E s \in {Latest, DefaultState} : GetLatest(s) /\ out' = [s EXCEPT !.cat = 1]
      BY <1>6 DEF Refresh, At, Goto
    <2>2. out' = [Latest EXCEPT !.cat = 1]
      BY <2>1, GoodRead
    <2>3. out'.prefs = Latest.prefs
      BY <1>b, <2>2 DEF StateRec
    <2> QED
      BY <1>a, <2>1, <2>3, SameFiles DEF Kept, Importing, Storing, Loaded
  <1>7. CASE ConfigExists
    <2>1. /\ UNCHANGED <<files, known, exported, prog, after, out>>
          /\ pc = "exists" /\ pc' = "write"
      BY <1>7 DEF ConfigExists, At, Goto
    <2> QED
      BY <1>a, <2>1, SameFiles DEF Kept, Importing, Storing, Loaded
  <1>8. CASE Write
    <2>1. /\ UNCHANGED <<legacy, exported>> /\ prog = "versioned" /\ pc = "write"
      BY <1>8 DEF Write, At
    <2>2. CASE /\ \/ chain' = Append(chain, preferencesToMap(out.prefs))
                  \/ chain' = << preferencesToMap(out.prefs) >>
               /\ StoreEnds
      <3>1. chain' # <<>> /\ NextLoad' = out.prefs /\ Latest'.prefs = out.prefs /\ ~Unreadable'
        BY <1>b, <2>2, AfterStore
      <3>2. /\ known' = IF after = "choice" THEN {out.prefs} ELSE known
            /\ pc' \in {"idle", "rename"}
        BY <2>2 DEF StoreEnds, Done, Goto
      <3>3. after # "choice" => out.prefs \in known
        <4>1. CASE after = "rename"
          BY <1>a, <2>1, <4>1 DEF Kept, Importing, Storing, Unreadable
        <4>2. CASE after = "idle"
          BY <1>a, <2>1, <4>2 DEF Kept, Importing, Storing, Loaded
        <4> QED
          BY <4>1, <4>2 DEF RunTypes
      <3>4. exported => legacy.is = "file" /\ legacy.prefs = out.prefs
        <4>1. CASE after = "rename"
          BY <1>a, <1>b, <1>d, <2>1, <4>1, NextLoadIs DEF Kept, Importing, Storing
        <4>2. CASE after = "idle"
          BY <1>a, <2>1, <4>2 DEF Kept, Storing
        <4>3. CASE after = "choice"
          BY <2>1, <4>3 DEF StepInv, Storing
        <4> QED
          BY <4>1, <4>2, <4>3 DEF RunTypes
      <3>5. NextLoad' \in known'
        BY <3>1, <3>2, <3>3
      <3> QED
        BY <2>1, <3>1, <3>2, <3>4, <3>5 DEF Kept, Importing, Storing
    <2>3. CASE StoreFails
      <3>1. /\ UNCHANGED <<files, known, exported>>
            /\ \/ pc' = "idle" /\ after # "rename"
               \/ pc' = "off" /\ prog' = "none"
        BY <1>8, <2>3 DEF Write, StoreFails, Done, Stops, Goto, files
      <3> QED
        BY <1>e, <2>1, <3>1 DEF Loaded, Importing, Storing
    <2> QED
      BY <1>8, <2>2, <2>3 DEF Write
  <1>9. CASE StartPlain
    <2>1. /\ UNCHANGED <<files, out, after>> /\ exported' = FALSE
          /\ prog' = "plain" /\ pc' \in {"refresh", "idle"}
          /\ known' = IF chain = <<>> THEN known \cap {LoadLegacy.prefs} ELSE known
          /\ legacy.is = "file" => legacy.prefs # NoPreferences
      BY <1>9 DEF StartPlain, Goto
    <2>2. chain = <<>> /\ ~Unreadable => NextLoad = LoadLegacy.prefs
      BY <2>1, NextLoadIs DEF LoadLegacy, DefaultState, State, Unreadable
    <2> QED
      BY <1>a, <2>1, <2>2, SameFiles DEF Kept, Importing, Storing, Loaded
  <1>10. CASE RefreshPlain
    <2>1. /\ UNCHANGED <<files, known, exported, prog>> /\ prog = "plain"
          /\ \/ pc' = "idle"
             \/ pc' = "merge" /\ legacy.is # "cut"
                /\ out' = State(LoadLegacy.prefs, LoadLegacy.cat + 1)
      BY <1>10 DEF RefreshPlain, At, Goto, hist
    <2>2. legacy.is = "file" => legacy.prefs # NoPreferences
      BY <2>1 DEF StepInv
    <2>3. chain = <<>> /\ legacy.is # "cut" => LoadLegacy.prefs = NextLoad
      BY <2>2, NextLoadIs DEF LoadLegacy, DefaultState, State
    <2>4. chain = <<>> /\ legacy.is # "cut" => LoadLegacy.prefs \in known
      BY <1>a, <2>3 DEF Kept, Unreadable
    <2>5. pc' = "merge" => out'.prefs = LoadLegacy.prefs
      BY <2>1 DEF State
    <2> QED
      BY <1>a, <2>1, <2>4, <2>5, SameFiles DEF Kept, Importing, Storing, Loaded
  <1>11. CASE TruncatePlain
    <2>1. /\ prog = "plain" /\ pc = "merge" /\ UNCHANGED <<chain, known, exported, prog>>
          /\ \/ legacy.is = "cut" /\ UNCHANGED legacy /\ pc' = "idle"
             \/ /\ legacy.is # "cut" /\ legacy' = Cut /\ pc' = "fill" /\ UNCHANGED after
                /\ \E n : out' = [out EXCEPT !.cat = n]
      BY <1>11 DEF TruncatePlain, At, Done, Goto
    <2>2. ~exported
      BY <2>1 DEF StepInv
    <2>3. CASE UNCHANGED legacy /\ pc' = "idle"
      BY <1>a, <2>1, <2>2, <2>3, SameFiles
         DEF Kept, Importing, Storing, Loaded, NextLoad, Unreadable
    <2>4. CASE /\ legacy.is # "cut" /\ legacy' = Cut /\ pc' = "fill" /\ UNCHANGED after
               /\ \E n : out' = [out EXCEPT !.cat = n]
      <3>1. out'.prefs = out.prefs
        BY <2>4 DEF RunTypes, StateRec
      <3>2. chain # <<>> => NextLoad' = NextLoad
        BY <2>1, NextLoadIs DEF NextLoad
      <3>3. chain # <<>> => NextLoad' \in known
        BY <1>a, <3>2 DEF Kept, Unreadable
      <3>4. chain = <<>> => Unreadable'
        BY <2>1, <2>4, LegacyRecs DEF Unreadable
      <3> QED
        BY <1>a, <2>1, <2>2, <2>4, <3>1, <3>3, <3>4 DEF Kept, Importing, Storing, Loaded
    <2> QED
      BY <2>1, <2>3, <2>4
  <1>12. CASE FillPlain
    <2>1. /\ prog = "plain" /\ pc = "fill" /\ pc' = "idle"
          /\ UNCHANGED <<chain, exported, prog>>
          /\ legacy' = File(out.prefs, out.cat)
          /\ known' = IF after = "choice" /\ chain = <<>> THEN {out.prefs} ELSE known
      BY <1>12 DEF FillPlain, At, Done, Goto
    <2>2. ~(after = "choice" /\ chain # <<>>)
      BY <1>12, Zenon DEF FillPlain
    <2>3. ~exported
      BY <2>1 DEF StepInv
    <2>4. legacy'.is = "file" /\ legacy'.prefs = out.prefs
      BY <2>1, LegacyRecs DEF RunTypes
    <2>5. CASE chain # <<>>
      <3>1. NextLoad' = NextLoad /\ ~Unreadable /\ ~Unreadable'
        BY <2>1, <2>5 DEF NextLoad, Unreadable
      <3> QED
        BY <1>a, <2>1, <2>3, <2>5, <3>1 DEF Kept, Importing, Storing, Loaded
    <2>6. CASE chain = <<>>
      <3>4. chain' = <<>> /\ out.prefs # NoPreferences
        BY <1>b, <1>d, <2>1, <2>6
      <3>1. NextLoad' = out.prefs
        BY <2>4, <3>4 DEF NextLoad
      <3>2. after # "rename"
        BY <2>1 DEF StepInv
      <3>3. out.prefs \in known'
        BY <1>a, <2>1, <2>6, <3>2 DEF Kept, RunTypes
      <3> QED
        BY <2>1, <2>3, <3>1, <3>3 DEF Kept, Importing, Storing, Loaded
    <2> QED
      BY <2>5, <2>6
  <1>13. ASSUME NEW p \in Prefs, Shown, storePreferences(p) PROVE Kept'
    <2>1. /\ UNCHANGED <<files, prog>> /\ pc = "idle" /\ after' = "choice"
          /\ pc' \in {"merge", "exists"} /\ exported' = FALSE /\ known' = known \cup {p}
      BY <1>13 DEF storePreferences, Shown, Goto
    <2> QED
      BY <1>a, <2>1, SameFiles DEF Kept, Importing, Storing, Loaded
  <1>14. ASSUME NEW v \in DOMAIN chain, Rollback(v) PROVE Kept'
    <2>1. /\ UNCHANGED <<legacy, prog, pc>> /\ pc = "idle" /\ exported' = FALSE
          /\ chain' = Append(chain, chain[v]) /\ known' = {GetHistory[v]}
      BY <1>14 DEF Rollback, Shown
    <2>2. chain[v] \in Contents /\ GetHistory[v] = extractPreferences(chain[v])
      BY DEF FileTypes, GetHistory
    <2>3. chain' # <<>> /\ Last(chain') = chain[v]
      <3>1. chain \in Seq(Contents)
        BY DEF FileTypes
      <3>2. chain' = Append(chain, chain[v])
        BY <2>1
      <3> QED
        BY <2>2, <3>1, <3>2, Stored
    <2>4. NextLoad' = extractPreferences(chain[v]) /\ Latest'.prefs = NextLoad'
      BY <2>3 DEF NextLoad, Latest, State
    <2> QED
      BY <2>1, <2>2, <2>3, <2>4 DEF Kept, Importing, Storing, Unreadable
  <1>15. CASE ExportLoad
    <2>1. /\ UNCHANGED <<files, known, exported, prog>> /\ prog = "versioned"
          /\ pc = "idle" /\ pc' = "export"
          /\ \E s \in {Latest, DefaultState} : GetLatest(s) /\ out' = s
      BY <1>15 DEF ExportLoad, Shown, Goto
    <2>2. out' = Latest
      BY <2>1, GoodRead
    <2>3. ~Unreadable /\ NextLoad = Latest.prefs /\ NextLoad \in known
      BY <1>a, <2>1 DEF Kept, Loaded, Importing, Storing
    <2> QED
      BY <1>a, <2>1, <2>2, <2>3, SameFiles DEF Kept, Importing, Storing
  <1>16. CASE ExportTruncate
    <2>1. /\ UNCHANGED <<chain, known, prog, out>> /\ exported' = FALSE
          /\ pc = "export" /\ pc' = "export_fill" /\ legacy' = Cut
      BY <1>16 DEF ExportTruncate, At, Goto
    <2>2. Latest' = Latest
      BY <2>1 DEF Latest
    <2>3. chain # <<>> => NextLoad' = NextLoad /\ ~Unreadable
      BY <2>1 DEF NextLoad, Unreadable
    <2>4. chain = <<>> => Unreadable'
      BY <2>1, LegacyRecs DEF Unreadable
    <2> QED
      BY <1>a, <2>1, <2>2, <2>3, <2>4 DEF Kept, Importing, Storing
  <1>17. CASE ExportFill
    <2>1. /\ UNCHANGED <<chain, known, prog>> /\ pc = "export_fill" /\ pc' = "idle"
          /\ legacy' = File(out.prefs, out.cat)
      BY <1>17 DEF ExportFill, At, Done, Goto
    <2>2. legacy'.is = "file" /\ legacy'.prefs = out.prefs
      BY <2>1, LegacyRecs DEF RunTypes
    <2>3. Latest' = Latest /\ out.prefs = Latest.prefs /\ out.prefs \in known
      BY <1>a, <2>1 DEF Latest, Kept
    <2>4. NextLoad' = out.prefs
      <3>1. CASE chain # <<>>
        BY <1>c, <2>1, <2>3, <3>1 DEF NextLoad
      <3>2. CASE chain = <<>>
        BY <1>b, <1>d, <2>1, <2>2, <3>2 DEF NextLoad
      <3> QED
        BY <3>1, <3>2
    <2> QED
      BY <2>1, <2>2, <2>3, <2>4 DEF Kept, Importing, Storing, Unreadable
  <1>18. CASE WatchStep \/ UNCHANGED vars
    <2>1. UNCHANGED <<files, prog, pc, after, out, known, exported>>
      BY <1>18, WatchSteps DEF OnlyWatch, hist, vars, files
    <2> QED
      BY <1>a, <2>1, SameFiles DEF Kept, Importing, Storing, Loaded
  <1> QED
    BY <1>1, <1>2, <1>3, <1>4, <1>5, <1>6, <1>7, <1>8, <1>9, <1>10, <1>11, <1>12, <1>13,
       <1>14, <1>15, <1>16, <1>17, <1>18, NextSteps DEF RunTypes

-----------------------------------------------------------------------------
(* The theorems *)

LEMMA InitInv == Init => IInv
  <1> SUFFICES ASSUME Init PROVE IInv
    OBVIOUS
  <1>1. /\ DefaultState \in StateRec /\ newDefaultPreferences \in Prefs
        /\ EarlierContent \in Contents /\ extractPreferences(EarlierContent) \in Prefs
        /\ NoPreferences \notin Prefs
    BY DefaultPrefs, ContentPrefs DEF Contents, NoPreferences, Prefs
  <1>2. /\ legacy \in LegacyRec /\ (legacy.is # "file" => legacy.prefs = NoPreferences)
        /\ (legacy.prefs = NoPreferences \/ legacy.prefs \in Prefs) /\ legacy.is # "cut"
    <2>1. [length |-> 0, totp |-> 0, colour |-> 1] \in Prefs
      BY DEF Prefs
    <2>2. \A p \in Prefs \cup {NoPreferences}, n \in {0, 1} :
             /\ File(p, n) \in LegacyRec /\ File(p, n).is = "file" /\ File(p, n).prefs = p
      BY DEF File, LegacyRec
    <2>3. legacy \in {Absent, File(newDefaultPreferences, 1), File(NoPreferences, 1),
                      File([length |-> 0, totp |-> 0, colour |-> 1], 0)}
      BY DEF Init
    <2> QED
      BY <1>1, <2>1, <2>2, <2>3, LegacyRecs
  <1>3. /\ chain = <<>> \/ chain = <<EarlierContent>>
        /\ chain = <<EarlierContent>> => legacy = Absent
    BY DEF Init, EarlierContent
  <1>4. chain \in Seq(Contents) /\ Len(chain) <= MaxVersions
        /\ (chain # <<>> => Last(chain) = EarlierContent)
    <2>1. 0 <= MaxVersions /\ 1 <= MaxVersions
      BY BoundsAssumption
    <2>2. CASE chain = <<>>
      BY <2>1, <2>2
    <2>3. CASE chain = <<EarlierContent>>
      BY <1>1, <2>1, <2>3 DEF Last
    <2> QED
      BY <1>3, <2>2, <2>3
  <1>5. known = {NextLoad} /\ NextLoad \in Prefs
    <2>1. known = {IF chain # <<>> THEN extractPreferences(Last(chain))
                   ELSE IF legacy.prefs = NoPreferences THEN newDefaultPreferences
                   ELSE legacy.prefs}
      BY DEF Init
    <2>2. CASE chain # <<>>
      BY <1>1, <1>4, <2>1, <2>2 DEF NextLoad
    <2>3. CASE chain = <<>>
      BY <1>1, <1>2, <2>1, <2>3 DEF NextLoad
    <2> QED
      BY <2>2, <2>3
  <1>6. FileTypes
    BY <1>2, <1>4, LegacyRecs DEF Init, FileTypes
  <1>7. RunTypes
    BY <1>1, <1>5 DEF Init, RunTypes, Steps
  <1>8. WatchTypes
    BY DEF Init, WatchTypes, WatchRec, NoWatch
  <1>9. StepInv
    BY DEF Init, StepInv, Storing
  <1>10. Kept
    BY <1>2, <1>5 DEF Init, Kept, Loaded, Importing, Storing, Unreadable
  <1> QED
    BY <1>6, <1>7, <1>8, <1>9, <1>10 DEF IInv, Types, KeptInv

LEMMA NextInv == IInv /\ [Next]_vars => IInv'
  <1> SUFFICES ASSUME IInv, [Next]_vars PROVE IInv'
    OBVIOUS
  <1>1. FileTypes /\ RunTypes /\ WatchTypes /\ StepInv /\ KeptInv
    BY DEF IInv, Types
  <1>2. FileTypes' /\ RunTypes' /\ WatchTypes' /\ StepInv'
    BY <1>1, FileTypesNext, RunTypesNext, WatchTypesNext, StepInvNext
  <1>3. KeptInv'
    BY <1>1, <1>2, KeptNext DEF KeptInv
  <1> QED
    BY <1>2, <1>3 DEF IInv, Types

\* The invariant holds in every reachable state.
THEOREM Inductive == Spec => []IInv
  BY InitInv, NextInv, PTL DEF Spec

\* Every variable of the preferences on disk has its type, no chain outgrows
\* its bound, and the watcher has something to hand over exactly when it waits
\* for its consumer.
THEOREM TypeCorrect == Spec => []TypeOK
  <1>1. IInv => TypeOK
    <2> SUFFICES ASSUME IInv PROVE TypeOK
      OBVIOUS
    <2>1. FileTypes /\ RunTypes /\ WatchTypes /\ StepInv
      BY DEF IInv, Types
    <2>2. IsFile(legacy) /\ IsFile(backup)
      BY <2>1, LegacyFacts DEF FileTypes, IsFile
    <2>3. \A v \in DOMAIN chain : GetHistory[v] \in Prefs
      BY <2>1, ContentPrefs DEF FileTypes, GetHistory
    <2>4. /\ watch.st \in {"off", "wait", "send", "closed"}
          /\ watch.st # "off" => prog = "versioned"
          /\ watch.st = "send" <=> watch.taken # 0
      BY <2>1 DEF WatchTypes, WatchRec
    <2>5. mem.prefs \in Prefs /\ out.prefs \in Prefs
      BY <2>1 DEF RunTypes, StateRec
    <2> QED
      BY <2>1, <2>2, <2>3, <2>4, <2>5 DEF TypeOK, FileTypes, RunTypes, Steps, StepInv
  <1> QED
    BY <1>1, Inductive, PTL

\* Whatever the migration, the store of a version or an export beside a chain
\* was cut off by, the next start loads the last preferences the user chose, or
\* those being stored, and an export that is in place holds them: as long as no
\* read of the chain failed and the plain program has not gone its own way
\* beside the chain.  A usm.json cut short where there is no chain, which a
\* store of the plain program leaves when it dies, is not covered: it has lost
\* the preferences (storage_os.go:361-374, storage_fyne.go:331-343).
THEOREM ChoiceSurvives == Spec => []LastChoiceKept
  <1>1. IInv => LastChoiceKept
    <2> SUFFICES ASSUME IInv, ~misread, ~downgraded, ~Unreadable
                 PROVE  NextLoad \in known /\ (exported => legacy.prefs \in known)
      BY DEF LastChoiceKept
    <2>1. FileTypes /\ Kept
      BY DEF IInv, Types, KeptInv
    <2>2. Latest.prefs \in Prefs /\ NoPreferences \notin Prefs
      BY <2>1, LatestPrefs DEF StateRec, NoPreferences, Prefs
    <2>3. NextLoad \in known
      BY <2>1 DEF Kept
    <2>4. ASSUME exported PROVE legacy.prefs = NextLoad
      <3>1. legacy.is = "file" /\ legacy.prefs = Latest.prefs
        BY <2>1, <2>4 DEF Kept
      <3>2. chain # <<>> => NextLoad = Latest.prefs
        BY <2>1, NextLoadIs, LatestPrefs
      <3> QED
        BY <2>2, <3>1, <3>2, NextLoadIs
    <2> QED
      BY <2>3, <2>4
  <1> QED
    BY <1>1, Inductive, PTL

-----------------------------------------------------------------------------
(* Division *)

LEMMA DivMod ==
    ASSUME NEW n \in Nat, NEW d \in Nat \ {0}
    PROVE  n \div d \in Nat /\ n % d \in 0 .. d - 1 /\ n = d * (n \div d) + (n % d)
  <1>1. d > 0
    OBVIOUS
  <1>2. n \div d \in Int /\ n \div d >= 0
    BY <1>1
  <1>3. n % d \in Int /\ n % d >= 0 /\ n % d < d
    BY <1>1
  <1>4. n = d * (n \div d) + (n % d)
    BY <1>1
  <1> QED
    BY <1>2, <1>3, <1>4

LEMMA TimesMonotone ==
    ASSUME NEW d \in Nat, NEW p \in Nat, NEW q \in Nat, p <= q
    PROVE  d * p <= d * q
  <1>1. \A k \in Nat : d * k \in Nat
    OBVIOUS
  <1>2. q - p \in Nat /\ d * (q - p) \in Nat
    BY <1>1
  <1>3. d * q = d * p + d * (q - p)
    OBVIOUS
  <1> QED
    BY <1>1, <1>2, <1>3

LEMMA DivUnique ==
    ASSUME NEW d \in Nat \ {0}, NEW p \in Nat, NEW r \in 0 .. d - 1,
           NEW q \in Nat, NEW s \in 0 .. d - 1, d * p + r = d * q + s
    PROVE  p = q /\ r = s
  <1>1. ~(p < q)
    <2>1. SUFFICES ASSUME p < q PROVE FALSE
      OBVIOUS
    <2>2. d * (p + 1) <= d * q
      BY <2>1, TimesMonotone
    <2>3. d * (p + 1) = d * p + d
      OBVIOUS
    <2>4. d * p \in Int /\ d * q \in Int
      OBVIOUS
    <2> QED
      BY <2>2, <2>3, <2>4
  <1>2. ~(q < p)
    <2>1. SUFFICES ASSUME q < p PROVE FALSE
      OBVIOUS
    <2>2. d * (q + 1) <= d * p
      BY <2>1, TimesMonotone
    <2>3. d * (q + 1) = d * q + d
      OBVIOUS
    <2>4. d * p \in Int /\ d * q \in Int
      OBVIOUS
    <2> QED
      BY <2>2, <2>3, <2>4
  <1>3. p = q
    BY <1>1, <1>2
  <1> QED
    BY <1>3

LEMMA ModIs ==
    ASSUME NEW d \in Nat \ {0}, NEW q \in Nat, NEW r \in 0 .. d - 1
    PROVE  d * q + r \in Nat /\ (d * q + r) % d = r /\ (d * q + r) \div d = q
  <1>1. d * q + r \in Nat
    BY TimesMonotone
  <1>2. DEFINE n == d * q + r
  <1>3. n \div d \in Nat /\ n % d \in 0 .. d - 1 /\ n = d * (n \div d) + (n % d)
    BY <1>1, DivMod
  <1> QED
    BY <1>1, <1>3, DivUnique
\* A second later, within a day that the interval divides.
LEMMA NextSecond ==
    ASSUME NEW d \in Nat \ {0}, Day % d = 0, NEW t \in 0 .. Day - 1
    PROVE  /\ t % d = d - 1 => ((t + 1) % Day) % d = 0
           /\ t % d # d - 1 => /\ (t + 1) % Day = t + 1
                               /\ (t + 1) % d = (t % d) + 1
                               /\ (t + 1) \div d = t \div d
  <1> DEFINE q == t \div d
             s == t % d
  <1>1. q \in Nat /\ s \in 0 .. d - 1 /\ t = d * q + s /\ Day \in Nat \ {0} /\ t \in Nat
    <2>1. Day \in Nat \ {0}
      BY ItemEditorAssumption
    <2>2. t \in Nat
      BY <2>1
    <2> QED
      BY <2>1, <2>2, DivMod
  <1> HIDE DEF q, s
  <1>2. 0 % d = 0
    <2>1. d * 0 + 0 = 0
      OBVIOUS
    <2> QED
      BY <2>1, ModIs
  <1>3. t + 1 < Day => (t + 1) % Day = t + 1
    <2>1. ASSUME t + 1 < Day PROVE (t + 1) % Day = t + 1
      <3>1. t + 1 \in 0 .. Day - 1 /\ Day * 0 + (t + 1) = t + 1
        BY <1>1, <2>1
      <3> QED
        BY <1>1, <3>1, ModIs
    <2> QED
      BY <2>1
  <1>4. Day % Day = 0
    <2>1. Day * 1 + 0 = Day /\ 0 \in 0 .. Day - 1
      BY <1>1
    <2> QED
      BY <1>1, <2>1, ModIs
  <1>5. t + 1 < Day \/ t + 1 = Day
    BY <1>1
  <1>6. ASSUME s = d - 1 PROVE ((t + 1) % Day) % d = 0
    <2>1. t + 1 = d * (q + 1) + 0
      BY <1>1, <1>6
    <2>2. (t + 1) % d = 0
      BY <1>1, <2>1, ModIs
    <2> QED
      BY <1>2, <1>3, <1>4, <1>5, <2>2
  <1>7. ASSUME s # d - 1
        PROVE  (t + 1) % Day = t + 1 /\ (t + 1) % d = s + 1 /\ (t + 1) \div d = q
    <2>1. t + 1 = d * q + (s + 1) /\ s + 1 \in 0 .. d - 1
      BY <1>1, <1>7
    <2>2. (t + 1) % d = s + 1 /\ (t + 1) \div d = q
      BY <1>1, <2>1, ModIs
    <2>3. t + 1 # Day
      BY <1>1, <2>2
    <2> QED
      BY <1>3, <1>5, <2>2, <2>3
  <1> QED
    BY <1>6, <1>7 DEF q, s

\* What is left of an interval that divides the minute is the same counted in the
\* seconds of the minute and in those of the day.
LEMMA MinuteMod ==
    ASSUME NEW d \in Nat \ {0}, Minute % d = 0, NEW t \in Nat
    PROVE  (t % Minute) % d = t % d
  <1> DEFINE m == Minute \div d
             q == t \div Minute
             r == t % Minute
             p == r \div d
             s == r % d
  <1>1. Minute \in Nat \ {0}
    BY ItemEditorAssumption
  <1>2. m \in Nat /\ Minute = d * m
    BY <1>1, DivMod
  <1>3. q \in Nat /\ r \in Nat /\ t = Minute * q + r
    BY <1>1, DivMod
  <1>4. p \in Nat /\ s \in 0 .. d - 1 /\ r = d * p + s
    BY <1>3, DivMod
  <1> HIDE DEF m, q, r, p, s
  <1>5. m * q + p \in Nat
    BY <1>2, <1>3, <1>4
  <1>6. t = d * (m * q + p) + s
    <2>1. Minute * q = d * (m * q)
      BY <1>2, <1>3
    <2>2. t = d * (m * q) + (d * p + s)
      BY <1>3, <1>4, <2>1
    <2>3. m * q \in Int /\ d \in Int /\ p \in Int /\ s \in Int
      BY <1>2, <1>3, <1>4
    <2>4. d * (m * q + p) = d * (m * q) + d * p
      BY <2>3
    <2> QED
      BY <2>2, <2>3, <2>4
  <1>7. t % d = s
    BY <1>4, <1>5, <1>6, ModIs
  <1> QED
    BY <1>7 DEF s, r

-----------------------------------------------------------------------------
(* The inductive invariant *)

KeyRec == [private : KeyFields, public : KeyFields, fingerprint : KeyFields]
ItemRec == [kind : Kinds \cup {None}, pw : Passwords, keys : KeyRec, secret : BOOLEAN,
            hash : Hashes, interval : Intervals]
CodeRec == [hash : Hashes \cup {None}, late : BOOLEAN]

ItemTypes == stored \in ItemRec /\ form \in ItemRec
ViewTypes ==
    /\ screen \in {"list", "view", "edit", "crashed"}
    /\ dialog \in {"none", "generator", "file", "passphrase"}
    /\ dialog # "none" => screen = "edit"
    /\ shown \in Values /\ picked \in KeyFields
ClockTypes == now \in 0 .. Day - 1 /\ bar \in 0 .. Minute /\ code \in CodeRec /\ skewed \in BOOLEAN
CountTypes == clicks \in 0 .. MaxClicks /\ suspends \in 0 .. MaxSuspends

\* A password goes with the options recorded beside it, and the fields of a key
\* with each other.
Fits(pw) == \/ pw.value \in {Typed, Empty} \/ pw.altered \/ Fails(pw)
            \/ pw.value = Secret(pw)
KeysFit(i) == i.keys \in {NoKeys} \cup {KeyPair(k) : k \in Keys}

\* The generator changes the options of the form's password, and leaves its value.
DialogInv ==
    dialog = "generator" =>
       /\ form.pw.mode \in Generated
       /\ form.pw.length \in Modes[form.pw.mode].min .. Modes[form.pw.mode].max
       /\ shown = Typed \/ Fails(form.pw) \/ shown = Secret(form.pw)
FitInv == /\ KeysFit(stored) /\ Fits(stored.pw) /\ KeysFit(form)
          /\ dialog # "generator" => Fits(form.pw)

\* The bar runs in step with the clock.
BarInv ==
    /\ bar > 0 => screen = "view"
    /\ bar > 0 /\ ~skewed /\ form.hash = "SHA1" /\ Minute % form.interval = 0 =>
          code = TOTP("SHA1") /\ bar = form.interval - (now % form.interval)

EditorTypes == ItemTypes /\ ViewTypes /\ ClockTypes /\ CountTypes
ItemInv == EditorTypes /\ DialogInv /\ FitInv /\ BarInv


-----------------------------------------------------------------------------
(* What the assumption says of the constants *)

LEMMA ModeLimits ==
    ASSUME NEW m \in Generated
    PROVE  /\ Modes[m].min \in Nat \ {0} /\ Modes[m].default \in Nat \ {0}
           /\ Modes[m].max \in Nat \ {0}
           /\ Modes[m].default \in Modes[m].min .. Modes[m].max
           /\ Prompts[m].min \in Nat \ {0} /\ Prompts[m].default \in Nat \ {0}
           /\ Prompts[m].max \in Nat \ {0}
           /\ Prompts[m].default \in Prompts[m].min .. Prompts[m].max
  <1>1. \A l \in {Modes[m], Prompts[m]} :
           /\ {l.min, l.default, l.max} \subseteq Nat \ {0}
           /\ l.min <= l.default /\ l.default <= l.max
    BY ItemEditorAssumption
  <1>2. \A l \in {Modes[m], Prompts[m]} :
           /\ l.min \in Nat \ {0} /\ l.default \in Nat \ {0} /\ l.max \in Nat \ {0}
           /\ l.default \in l.min .. l.max
    BY <1>1
  <1> QED
    BY <1>2

LEMMA LengthsHold ==
    /\ 0 \in Lengths
    /\ \A m \in Generated : Modes[m].min .. Modes[m].max \subseteq Lengths
    /\ \A m \in Generated : Prompts[m].min .. Prompts[m].max \subseteq Lengths
  BY DEF Lengths

LEMMA Clocks ==
    /\ Day \in Nat \ {0} /\ Minute \in Nat \ {0}
    /\ \A n \in Intervals : n \in Nat \ {0} /\ n <= Minute /\ Day % n = 0
  BY ItemEditorAssumption

-----------------------------------------------------------------------------
(* Passwords *)

LEMMA PasswordFields ==
    ASSUME NEW pw \in Passwords
    PROVE  /\ pw.value \in Values /\ pw.mode \in Generated \cup {"custom"}
           /\ pw.format \in SUBSET Classes /\ pw.length \in Lengths /\ pw.altered \in BOOLEAN
  BY DEF Passwords

LEMMA ValueTypes == Typed \in Values /\ Empty \in Values
  BY DEF Values

LEMMA NewPasswordType == NewPassword \in Passwords /\ Fits(NewPassword)
  <1>1. NewPassword \in Passwords
    BY ValueTypes, LengthsHold DEF NewPassword, Passwords
  <1>2. NewPassword.value = Empty
    BY DEF NewPassword
  <1> QED
    BY <1>1, <1>2 DEF Fits

\* What is generated does not depend on the value that was there, or on its history.
LEMMA SecretType ==
    ASSUME NEW pw \in Passwords
    PROVE  Secret(pw) \in Values
  <1>1. pw.length \in Lengths /\ pw.format \in SUBSET Classes
    BY PasswordFields
  <1>2. [of |-> "words", length |-> pw.length, classes |-> {}] \in Values
    <2>1. [of |-> "words", length |-> pw.length, classes |-> {}]
             \in [of : {"words"}, length : Lengths, classes : {{}}]
      BY <1>1
    <2> QED
      BY <2>1 DEF Values
  <1>3. [of |-> "characters", length |-> pw.length, classes |-> pw.format] \in Values
    <2>1. [of |-> "characters", length |-> pw.length, classes |-> pw.format]
             \in [of : {"characters"}, length : Lengths, classes : SUBSET Classes]
      BY <1>1
    <2> QED
      BY <2>1 DEF Values
  <1> QED
    BY <1>2, <1>3 DEF Secret, Template

LEMMA SameOptions ==
    ASSUME NEW pw, NEW qw, pw.mode = qw.mode, pw.format = qw.format, pw.length = qw.length
    PROVE  Secret(pw) = Secret(qw) /\ (Fails(pw) <=> Fails(qw))
  BY DEF Secret, Fails, Template

\* The panels leave the value and bring the length within the limits.
LEMMA OptionsType ==
    ASSUME NEW pw \in Passwords, NEW m \in Generated
    PROVE  /\ Options(pw, m) \in Passwords /\ Options(pw, m).mode = m
           /\ Options(pw, m).length \in Modes[m].min .. Modes[m].max
  <1>1. \A k \in Generated : /\ InLimits(pw, k) \in Modes[k].min .. Modes[k].max
                             /\ InLimits(pw, k) \in Lengths
    <2>1. SUFFICES ASSUME NEW k \in Generated
                   PROVE  InLimits(pw, k) \in Modes[k].min .. Modes[k].max
      BY LengthsHold
    <2>2. Modes[k].min \in Nat /\ Modes[k].max \in Nat
          /\ Modes[k].default \in Modes[k].min .. Modes[k].max
      BY ModeLimits
    <2>3. pw.length \in Nat
      <3>1. \A j \in Generated : /\ Modes[j].min .. Modes[j].max \subseteq Nat
                                 /\ Prompts[j].min .. Prompts[j].max \subseteq Nat
        BY ModeLimits
      <3>2. Lengths \subseteq Nat
        BY <3>1 DEF Lengths
      <3> QED
        BY <3>2, PasswordFields
    <2> QED
      BY <2>2, <2>3 DEF InLimits
  <1>2. \A k \in {"digits", "symbols"} : k \in Classes
    BY ItemEditorAssumption
  <1>3. CASE m = "passphrase"
    <2>1. Options(pw, m) = [pw EXCEPT !.length = InLimits(pw, m), !.mode = m]
      BY <1>3 DEF Options, passphraseOptions
    <2> QED
      BY <1>1, <2>1 DEF Passwords
  <1>4. CASE m = "pin"
    <2>1. Options(pw, m) = [pw EXCEPT !.length = InLimits(pw, m), !.mode = m,
                                      !.format = {"digits"}]
      BY <1>4 DEF Options, pinOptions
    <2>2. {"digits"} \in SUBSET Classes
      BY <1>2
    <2> QED
      BY <1>1, <2>1, <2>2 DEF Passwords
  <1>5. CASE m = "random"
    <2>1. PICK f \in SUBSET Classes :
             Options(pw, m) = [pw EXCEPT !.length = InLimits(pw, m), !.mode = m, !.format = f]
      <3>1. pw.format \in SUBSET Classes
        BY PasswordFields
      <3>2. Options(pw, m) = [pw EXCEPT !.length = InLimits(pw, m), !.mode = m,
                !.format = IF pw.format = {} \/ pw.mode # "random" THEN Classes
                           ELSE pw.format]
        BY <1>5 DEF Options, randomPasswordOptions, Passwords
      <3> QED
        BY <3>1, <3>2
    <2> QED
      BY <1>1, <2>1 DEF Passwords
  <1> QED
    BY <1>3, <1>4, <1>5 DEF Generated

\* What the prompts of the command line make.
LEMMA PwgenType ==
    ASSUME NEW pw \in Pwgen
    PROVE  pw \in Passwords /\ Fits(pw)
  <1>1. Classes \in SUBSET Classes /\ Classes \ {"symbols"} \in SUBSET Classes
        /\ {"digits"} \in SUBSET Classes
    BY ItemEditorAssumption
  <1>2. \A m \in Generated : \A n \in Asked(m) : n \in Lengths
    BY LengthsHold DEF Asked
  <1>3. ASSUME NEW qw \in Passwords
        PROVE  MadeWith(qw) \in Passwords /\ Fits(MadeWith(qw))
    <2>1. Secret(qw) \in Values
      BY SecretType
    <2>2. MadeWith(qw) \in Passwords
      BY <2>1 DEF MadeWith, Passwords
    <2>3. MadeWith(qw).value = Secret(qw) /\ MadeWith(qw).mode = qw.mode
          /\ MadeWith(qw).format = qw.format /\ MadeWith(qw).length = qw.length
      BY DEF MadeWith, Passwords
    <2>4. Secret(MadeWith(qw)) = Secret(qw)
      BY <2>3, SameOptions
    <2> QED
      BY <2>2, <2>3, <2>4 DEF Fits
  <1>4. \A qw \in makeCustomPassword : qw \in Passwords /\ Fits(qw)
    <2>1. SUFFICES ASSUME NEW qw \in makeCustomPassword PROVE qw \in Passwords /\ Fits(qw)
      OBVIOUS
    <2>2. qw = [NewPassword EXCEPT !.value = Typed]
      BY DEF makeCustomPassword
    <2>3. qw \in Passwords
      BY <2>2, NewPasswordType, ValueTypes DEF Passwords
    <2>4. qw.value = Typed
      BY <2>2 DEF NewPassword
    <2> QED
      BY <2>3, <2>4 DEF Fits
  <1>5. \A qw \in makeRandomPassword : qw \in Passwords /\ Fits(qw)
    <2>1. ASSUME NEW n \in Asked("random"), NEW f \in {Classes, Classes \ {"symbols"}}
          PROVE  [NewPassword EXCEPT !.mode = "random", !.length = n, !.format = f]
                    \in Passwords
      <3>1. n \in Lengths
        BY <1>2 DEF Generated
      <3>2. f \in SUBSET Classes
        BY <1>1
      <3> QED
        BY <3>1, <3>2, NewPasswordType DEF Passwords, Generated
    <2> DEFINE Made(n, f) ==
                 [NewPassword EXCEPT !.mode = "random", !.length = n, !.format = f]
    <2>2. \A n \in Asked("random"), f \in {Classes, Classes \ {"symbols"}} :
             MadeWith(Made(n, f)) \in Passwords /\ Fits(MadeWith(Made(n, f)))
      BY <1>3, <2>1
    <2>3. makeRandomPassword =
             {MadeWith(Made(n, f)) :
                n \in Asked("random"), f \in {Classes, Classes \ {"symbols"}}}
      BY DEF makeRandomPassword
    <2> HIDE DEF Made
    <2> QED
      BY <2>2, <2>3
  <1>6. \A qw \in makePinPassword : qw \in Passwords /\ Fits(qw)
    <2>1. SUFFICES ASSUME NEW n \in Asked("pin")
                   PROVE  [NewPassword EXCEPT !.mode = "pin", !.length = n,
                                              !.format = {"digits"}] \in Passwords
      BY <1>3 DEF makePinPassword
    <2>2. n \in Lengths
      BY <1>2 DEF Generated
    <2> QED
      BY <1>1, <2>2, NewPasswordType DEF Passwords, Generated
  <1>7. \A qw \in makePassphrasePassword : qw \in Passwords /\ Fits(qw)
    <2>1. SUFFICES ASSUME NEW n \in Asked("passphrase"), NEW qw,
                          qw = [NewPassword EXCEPT !.mode = "passphrase",
                                   !.length = Prompts["passphrase"].default,
                                   !.value = [of |-> "words", length |-> n, classes |-> {}],
                                   !.altered = TRUE]
                   PROVE  qw \in Passwords /\ Fits(qw)
      BY DEF makePassphrasePassword
    <2>2. n \in Lengths /\ Prompts["passphrase"].default \in Lengths
      BY <1>2, ModeLimits, LengthsHold DEF Generated
    <2>3. [of |-> "words", length |-> n, classes |-> {}] \in Values
      <3>1. [of |-> "words", length |-> n, classes |-> {}]
               \in [of : {"words"}, length : Lengths, classes : {{}}]
        BY <2>2
      <3> QED
        BY <3>1 DEF Values
    <2>4. qw \in Passwords
      BY <2>1, <2>2, <2>3, NewPasswordType DEF Passwords, Generated
    <2>5. qw.altered = TRUE
      BY <2>1 DEF NewPassword
    <2> QED
      BY <2>4, <2>5 DEF Fits
  <1> QED
    BY <1>4, <1>5, <1>6, <1>7 DEF Pwgen


-----------------------------------------------------------------------------
(* Items *)

LEMMA ItemFields ==
    ASSUME NEW i \in ItemRec
    PROVE  /\ i.kind \in Kinds \cup {None} /\ i.pw \in Passwords /\ i.keys \in KeyRec
           /\ i.secret \in BOOLEAN /\ i.hash \in Hashes /\ i.interval \in Intervals
  BY DEF ItemRec

LEMMA KeyTypes ==
    /\ NoKeys \in KeyRec
    /\ \A k \in KeyFields : /\ KeyPair(k) \in KeyRec
                            /\ KeyPair(k) \in {NoKeys} \cup {KeyPair(l) : l \in Keys}
  <1>1. NoKeys \in KeyRec
    BY DEF NoKeys, KeyRec, KeyFields
  <1>2. ASSUME NEW k \in KeyFields
        PROVE  /\ KeyPair(k) \in KeyRec
               /\ KeyPair(k) \in {NoKeys} \cup {KeyPair(l) : l \in Keys}
    <2>1. KeyPair(k) \in KeyRec
      BY DEF KeyPair, KeyRec
    <2>2. KeyPair(None) = NoKeys
      BY DEF KeyPair, NoKeys
    <2> QED
      BY <2>1, <2>2 DEF KeyFields
  <1> QED
    BY <1>1, <1>2

\* An item whose fields belong together.
Sound(i) == i \in ItemRec /\ KeysFit(i) /\ Fits(i.pw)

LEMMA NewItemsSound == Sound(NoItem) /\ \A i \in NewItems : Sound(i)
  <1>1. NoItem \in ItemRec /\ NoItem.keys = NoKeys /\ NoItem.pw = NewPassword
    <2>1. "SHA1" \in Hashes /\ Minute \div 2 \in Intervals
      BY ItemEditorAssumption
    <2> QED
      BY <2>1, NewPasswordType, KeyTypes DEF NoItem, ItemRec
  <1>2. \A i \in NewItems : i \in ItemRec /\ i.keys = NoKeys /\ i.pw = NewPassword
    BY NewPasswordType, KeyTypes DEF NewItems, ItemRec
  <1> QED
    BY <1>1, <1>2, NewPasswordType DEF Sound, KeysFit

\* A new password, or new keys, for an item.
LEMMA WithPassword ==
    ASSUME NEW i \in ItemRec, NEW pw \in Passwords
    PROVE  /\ [i EXCEPT !.pw = pw] \in ItemRec /\ [i EXCEPT !.pw = pw].pw = pw
           /\ KeysFit(i) => KeysFit([i EXCEPT !.pw = pw])
  BY DEF ItemRec, KeysFit

LEMMA WithKeys ==
    ASSUME NEW i \in ItemRec, NEW k \in KeyFields
    PROVE  /\ [i EXCEPT !.keys = KeyPair(k)] \in ItemRec
           /\ KeysFit([i EXCEPT !.keys = KeyPair(k)])
           /\ [i EXCEPT !.keys = KeyPair(k)].pw = i.pw
  <1>1. KeyPair(k) \in KeyRec
    BY KeyTypes
  <1>2. [i EXCEPT !.keys = KeyPair(k)].keys = KeyPair(k)
    BY DEF ItemRec
  <1>3. KeysFit([i EXCEPT !.keys = KeyPair(k)])
    BY <1>2, KeyTypes DEF KeysFit
  <1> QED
    BY <1>1, <1>3 DEF ItemRec

LEMMA TypedFits ==
    ASSUME NEW pw \in Passwords
    PROVE  /\ [pw EXCEPT !.value = Typed] \in Passwords
           /\ Fits([pw EXCEPT !.value = Typed])
  <1>1. [pw EXCEPT !.value = Typed] \in Passwords
    BY ValueTypes DEF Passwords
  <1>2. [pw EXCEPT !.value = Typed].value = Typed
    BY DEF Passwords
  <1> QED
    BY <1>1, <1>2 DEF Fits

\* A password that is typed into an item.
LEMMA TypedSound ==
    ASSUME NEW i \in ItemRec, KeysFit(i)
    PROVE  Sound([i EXCEPT !.pw.value = Typed])
  <1>1. i.pw \in Passwords
    BY ItemFields
  <1>2. [i EXCEPT !.pw.value = Typed] = [i EXCEPT !.pw = [i.pw EXCEPT !.value = Typed]]
    BY DEF ItemRec
  <1> QED
    BY <1>1, <1>2, TypedFits, WithPassword DEF Sound

-----------------------------------------------------------------------------
(* The clock *)

LEMMA StillWatch ==
    Still => ClockTypes' /\ BarInv'
  <1>1. Day \in Nat \ {0} /\ Minute \in Nat \ {0}
    BY Clocks
  <1>2. NoCode \in CodeRec
    BY DEF NoCode, TOTP, CodeRec
  <1> SUFFICES ASSUME Still PROVE ClockTypes' /\ BarInv'
    OBVIOUS
  <1>3. now' = 0 /\ bar' = 0 /\ code' = NoCode /\ skewed' = FALSE
    BY DEF Still
  <1>4. 0 \in 0 .. Day - 1 /\ 0 \in 0 .. Minute /\ ~(0 > 0)
    BY <1>1
  <1>5. ClockTypes'
    BY <1>2, <1>3, <1>4 DEF ClockTypes
  <1>6. BarInv'
    BY <1>3, <1>4 DEF BarInv
  <1> QED
    BY <1>5, <1>6

LEMMA SameWatch ==
    ClockTypes /\ BarInv /\ screen # "view" /\ UNCHANGED clock => ClockTypes' /\ BarInv'
  BY DEF ClockTypes, BarInv, clock

\* The bar of a code that is shown from the start of its view.
LEMMA ShowWatch ==
    ASSUME NEW i \in ItemRec, Show(i)
    PROVE  ClockTypes' /\ BarInv' /\ screen' = "view" /\ form' = i
  <1>1. screen' = "view" /\ form' = i
    BY DEF Show
  <1>2. ASSUME NEW t \in 0 .. Day - 1,
               now' = t, bar' = Countdown(i, t), code' = TOTP(i.hash), skewed' = FALSE
        PROVE  ClockTypes' /\ BarInv'
    <2>1. Day \in Nat \ {0} /\ Minute \in Nat \ {0} /\ i.interval \in Nat \ {0}
          /\ i.interval <= Minute /\ i.hash \in Hashes
      BY Clocks, ItemFields
    <2>2. t \in Nat /\ t % Minute \in Nat
      BY <2>1, DivMod
    <2>3. (t % Minute) % i.interval \in 0 .. i.interval - 1
      BY <2>1, <2>2, DivMod
    <2>4. bar' = i.interval - ((t % Minute) % i.interval)
      BY <1>2 DEF Countdown, Seconds
    <2>5. bar' \in 0 .. Minute
      <3> DEFINE r == (t % Minute) % i.interval
                 n == i.interval
      <3>1. bar' = n - r /\ r \in 0 .. n - 1 /\ n \in Nat /\ n <= Minute /\ Minute \in Nat
        BY <2>1, <2>3, <2>4
      <3> HIDE DEF r, n
      <3> QED
        BY <3>1
    <2>6. code' \in CodeRec
      BY <1>2, <2>1 DEF TOTP, CodeRec
    <2>7. Minute % i.interval = 0 => bar' = i.interval - (t % i.interval)
      BY <2>1, <2>2, <2>4, MinuteMod
    <2>8. ClockTypes'
      BY <1>2, <2>5, <2>6 DEF ClockTypes
    <2>9. BarInv'
      BY <1>1, <1>2, <2>7 DEF BarInv
    <2> QED
      BY <2>8, <2>9
  <1>3. Still \/ \E t \in 0 .. Day - 1 : /\ now' = t /\ bar' = Countdown(i, t)
                                         /\ code' = TOTP(i.hash) /\ skewed' = FALSE
    BY DEF Show
  <1> QED
    BY <1>1, <1>2, <1>3, StillWatch

\* The ticker computes the code when a time step begins, and never later.
LEMMA TickWatch ==
    ItemTypes /\ ClockTypes /\ BarInv /\ Tick => ClockTypes' /\ BarInv'
  <1> SUFFICES ASSUME ItemTypes, ClockTypes, BarInv, Tick PROVE ClockTypes' /\ BarInv'
    OBVIOUS
  <1> DEFINE n == form.interval
  <1>1. /\ Day \in Nat \ {0} /\ Minute \in Nat \ {0} /\ n \in Nat \ {0} /\ n <= Minute
        /\ Day % n = 0 /\ form.hash \in Hashes /\ "SHA1" \in Hashes
    BY Clocks, ItemFields, ItemEditorAssumption DEF ItemTypes
  <1>2. /\ now \in 0 .. Day - 1 /\ now \in Nat /\ now + 1 \in Nat
        /\ bar \in 0 .. Minute /\ bar > 0 /\ screen = "view"
        /\ code \in CodeRec /\ skewed \in BOOLEAN
    BY <1>1 DEF ClockTypes, Tick
  <1>3. now' = (now + 1) % Day /\ form' = form /\ screen' = screen /\ skewed' = skewed
    BY DEF Tick
  <1>4. now' \in 0 .. Day - 1
    BY <1>1, <1>2, <1>3, DivMod
  <1>5. CASE bar = 1
    <2>1. code' = TOTP("SHA1") /\ bar' = n
      BY <1>5 DEF Tick
    <2>2. code' \in CodeRec
      BY <1>1, <2>1 DEF TOTP, CodeRec
    <2>3. ClockTypes'
      BY <1>1, <1>2, <1>3, <1>4, <2>1, <2>2 DEF ClockTypes
    <2>4. ASSUME ~skewed, form.hash = "SHA1", Minute % n = 0
          PROVE  bar' = n - (now' % n)
      <3>1. 1 = n - (now % n)
        BY <1>2, <1>5, <2>4 DEF BarInv
      <3>2. now % n \in 0 .. n - 1
        BY <1>1, <1>2, DivMod
      <3>3. now % n = n - 1
        BY <1>1, <3>1, <3>2
      <3>4. now' % n = 0
        BY <1>1, <1>2, <1>3, <3>3, NextSecond
      <3> QED
        BY <1>1, <2>1, <3>4
    <2>5. BarInv'
      BY <1>2, <1>3, <2>1, <2>4 DEF BarInv
    <2> QED
      BY <2>3, <2>5
  <1>6. CASE bar # 1
    <2>1. bar' = bar - 1 /\ code' = [code EXCEPT !.late = @ \/ Passed(now, now', n)]
      BY <1>6 DEF Tick
    <2>2. bar' \in 0 .. Minute
      BY <1>1, <1>2, <2>1
    <2>3. code' \in CodeRec
      <3>1. code.late \in BOOLEAN /\ Passed(now, now', n) \in BOOLEAN
        BY <1>2 DEF CodeRec, Passed
      <3>2. (code.late \/ Passed(now, now', n)) \in BOOLEAN
        OBVIOUS
      <3> QED
        BY <1>2, <2>1, <3>2 DEF CodeRec
    <2>4. ClockTypes'
      BY <1>2, <1>3, <1>4, <2>2, <2>3 DEF ClockTypes
    <2>5. ASSUME ~skewed, form.hash = "SHA1", Minute % n = 0
          PROVE  code' = TOTP("SHA1") /\ bar' = n - (now' % n)
      <3>1. code = TOTP("SHA1") /\ bar = n - (now % n)
        BY <1>2, <2>5 DEF BarInv
      <3>2. now % n \in 0 .. n - 1
        BY <1>1, <1>2, DivMod
      <3>3. now % n # n - 1
        BY <1>1, <1>6, <3>1, <3>2
      <3>4. now' = now + 1 /\ now' % n = (now % n) + 1 /\ now' \div n = now \div n
        <4>1. /\ (now + 1) % Day = now + 1 /\ (now + 1) % n = (now % n) + 1
              /\ (now + 1) \div n = now \div n
          BY <1>1, <1>2, <3>3, NextSecond
        <4>2. now' = now + 1
          BY <1>3, <4>1
        <4> QED
          BY <4>1, <4>2
      <3>5. ~Passed(now, now', n)
        BY <3>4 DEF Passed, numTimeSteps
      <3>6. code' = TOTP("SHA1")
        BY <2>1, <3>1, <3>5 DEF TOTP
      <3>7. bar' = n - (now' % n)
        <4> DEFINE r == now % n
        <4>1. bar = n - r /\ bar' = bar - 1 /\ now' % n = r + 1 /\ r \in Int /\ n \in Int
          BY <1>1, <2>1, <3>1, <3>2, <3>4
        <4> HIDE DEF r, n
        <4> QED
          BY <4>1
      <3> QED
        BY <3>6, <3>7
    <2>6. BarInv'
      BY <1>2, <1>3, <2>5 DEF BarInv
    <2> QED
      BY <2>4, <2>6
  <1> QED
    BY <1>5, <1>6

LEMMA SuspendWatch ==
    ClockTypes /\ BarInv /\ Suspend => ClockTypes' /\ BarInv'
  <1> SUFFICES ASSUME ClockTypes, BarInv, Suspend PROVE ClockTypes' /\ BarInv'
    OBVIOUS
  <1>1. code' \in CodeRec
    BY DEF Suspend, ClockTypes, CodeRec
  <1>2. now' \in 0 .. Day - 1 /\ skewed' = TRUE /\ bar' = bar /\ screen' = "view"
    BY DEF Suspend
  <1> QED
    BY <1>1, <1>2 DEF ClockTypes, BarInv


-----------------------------------------------------------------------------
(* The steps *)

LEMMA SoundNow ==
    ItemTypes /\ FitInv => Sound(stored) /\ (dialog # "generator" => Sound(form))
  BY DEF ItemTypes, FitInv, Sound

LEMMA ClickCounts == CountTypes /\ Click => CountTypes'
  BY ItemEditorAssumption DEF CountTypes, Click

\* A step that leaves the generator, or never enters it.
LEMMA Outside ==
    ASSUME Sound(stored)', Sound(form)', ViewTypes', dialog' # "generator",
           ClockTypes', BarInv', CountTypes'
    PROVE  ItemInv'
  BY DEF ItemInv, EditorTypes, ItemTypes, DialogInv, FitInv, Sound

\* From one view to another.
LEMMA ViewNext ==
    ASSUME ItemInv,
           SelectItem \/ AddItem \/ EditItem \/ Back \/ Save \/ Restart
    PROVE  ItemInv'
  <1>1. ItemTypes /\ ViewTypes /\ ClockTypes /\ CountTypes /\ FitInv /\ BarInv
    BY DEF ItemInv, EditorTypes
  <1>2. dialog # "none" => screen = "edit"
    BY <1>1 DEF ViewTypes
  <1>3. Sound(stored) /\ stored \in ItemRec /\ form \in ItemRec
    BY <1>1, SoundNow DEF ItemTypes
  <1>4. dialog = "none" => Sound(form)
    BY <1>1, SoundNow
  <1>5. CASE SelectItem
    <2>1. dialog = "none" /\ UNCHANGED <<stored, dialog, shown, picked>>
      BY <1>2, <1>5 DEF SelectItem
    <2>2. Show(stored) /\ Click
      BY <1>5 DEF SelectItem
    <2>3. ClockTypes' /\ BarInv' /\ screen' = "view" /\ form' = stored
      BY <1>3, <2>2, ShowWatch
    <2>4. ViewTypes'
      BY <1>1, <2>1, <2>3 DEF ViewTypes
    <2>5. Sound(stored)' /\ Sound(form)'
      BY <1>3, <2>1, <2>3
    <2> QED
      BY <1>1, <2>1, <2>2, <2>3, <2>4, <2>5, ClickCounts, Outside
  <1>6. CASE AddItem
    <2>1. /\ dialog = "none" /\ UNCHANGED <<stored, dialog, shown, picked>>
          /\ screen' = "edit" /\ Still /\ Click /\ \E i \in NewItems : form' = i
      BY <1>2, <1>6 DEF AddItem
    <2>2. ViewTypes'
      BY <1>1, <2>1 DEF ViewTypes
    <2>3. Sound(stored)' /\ Sound(form)'
      BY <1>3, <2>1, NewItemsSound
    <2> QED
      BY <1>1, <2>1, <2>2, <2>3, StillWatch, ClickCounts, Outside
  <1>7. CASE EditItem
    <2>1. /\ dialog = "none" /\ UNCHANGED <<stored, form, dialog, shown, picked>>
          /\ screen' = "edit" /\ Still /\ Click
      BY <1>2, <1>7 DEF EditItem
    <2>2. ViewTypes'
      BY <1>1, <2>1 DEF ViewTypes
    <2>3. Sound(stored)' /\ Sound(form)'
      BY <1>3, <1>4, <2>1
    <2> QED
      BY <1>1, <2>1, <2>2, <2>3, StillWatch, ClickCounts, Outside
  <1>8. CASE Back
    <2>1. /\ dialog = "none" /\ UNCHANGED <<stored, dialog, shown, picked>>
          /\ screen' = "list" /\ form' = NoItem /\ Still /\ Click
      BY <1>8 DEF Back
    <2>2. ViewTypes'
      BY <1>1, <2>1 DEF ViewTypes
    <2>3. Sound(stored)' /\ Sound(form)'
      BY <1>3, <2>1, NewItemsSound
    <2> QED
      BY <1>1, <2>1, <2>2, <2>3, StillWatch, ClickCounts, Outside
  <1>9. CASE Save
    <2>1. /\ dialog = "none" /\ UNCHANGED <<dialog, shown, picked>>
          /\ stored' = form /\ Show(form) /\ Click
      BY <1>9 DEF Save, Editing
    <2>2. ClockTypes' /\ BarInv' /\ screen' = "view" /\ form' = form
      BY <1>3, <2>1, ShowWatch
    <2>3. ViewTypes'
      BY <1>1, <2>1, <2>2 DEF ViewTypes
    <2>4. Sound(stored)' /\ Sound(form)'
      BY <1>4, <2>1, <2>2
    <2> QED
      BY <1>1, <2>1, <2>2, <2>3, <2>4, ClickCounts, Outside
  <1>10. CASE Restart
    <2>1. /\ dialog = "none" /\ UNCHANGED <<stored, dialog, clicks, suspends>>
          /\ screen' = "list" /\ form' = NoItem /\ shown' = Empty /\ picked' = None /\ Still
      BY <1>2, <1>10 DEF Restart
    <2>2. ViewTypes'
      BY <2>1, ValueTypes DEF ViewTypes, KeyFields
    <2>3. Sound(stored)' /\ Sound(form)'
      BY <1>3, <2>1, NewItemsSound
    <2>4. CountTypes'
      BY <1>1, <2>1 DEF CountTypes
    <2> QED
      BY <2>1, <2>2, <2>3, <2>4, StillWatch, Outside
  <1> QED
    BY <1>5, <1>6, <1>7, <1>8, <1>9, <1>10

LEMMA TimeNext ==
    ASSUME ItemInv, Tick \/ Suspend
    PROVE  ItemInv'
  <1>1. ItemTypes /\ ViewTypes /\ ClockTypes /\ CountTypes /\ FitInv /\ BarInv
    BY DEF ItemInv, EditorTypes
  <1>2. /\ dialog = "none" /\ UNCHANGED <<stored, form, screen, dialog, shown, picked>>
    BY <1>1 DEF ViewTypes, Tick, Suspend
  <1>3. ClockTypes' /\ BarInv'
    BY <1>1, TickWatch, SuspendWatch
  <1>4. CountTypes'
    <2>1. CASE Tick
      BY <1>1, <2>1 DEF Tick, CountTypes
    <2>2. CASE Suspend
      BY <1>1, <2>2, ItemEditorAssumption DEF Suspend, CountTypes
    <2> QED
      BY <2>1, <2>2
  <1>5. ViewTypes'
    BY <1>1, <1>2 DEF ViewTypes
  <1>6. Sound(stored)' /\ Sound(form)'
    BY <1>1, <1>2, SoundNow
  <1> QED
    BY <1>2, <1>3, <1>4, <1>5, <1>6, Outside

\* A change to the form while no generator is open.
LEMMA FormNext ==
    ASSUME ItemInv, TypePassword \/ EnterSecret \/ TOTPSettings
    PROVE  ItemInv'
  <1>1. ItemTypes /\ ViewTypes /\ ClockTypes /\ CountTypes /\ FitInv /\ BarInv
    BY DEF ItemInv, EditorTypes
  <1>2. /\ Click /\ screen = "edit" /\ dialog = "none"
        /\ UNCHANGED <<stored, screen, dialog, shown, picked>> /\ UNCHANGED clock
    BY DEF TypePassword, EnterSecret, TOTPSettings, Editing, Form
  <1>3. Sound(stored) /\ Sound(form) /\ form \in ItemRec /\ KeysFit(form)
    BY <1>1, <1>2, SoundNow DEF Sound
  <1>4. ClockTypes' /\ BarInv'
    BY <1>1, <1>2, SameWatch
  <1>5. ViewTypes'
    BY <1>1, <1>2 DEF ViewTypes
  <1>6. Sound(form')
    <2>1. CASE TypePassword
      <3>1. form' = [form EXCEPT !.pw.value = Typed]
        BY <2>1 DEF TypePassword, Form
      <3> QED
        BY <1>3, <3>1, TypedSound
    <2>2. CASE EnterSecret
      <3>1. form' = [form EXCEPT !.secret = ~@]
        BY <2>2 DEF EnterSecret, Form
      <3>2. form' \in ItemRec
        BY <1>3, <3>1 DEF ItemRec
      <3>3. form'.keys = form.keys /\ form'.pw = form.pw
        BY <1>3, <3>1 DEF ItemRec
      <3> QED
        BY <1>3, <3>2, <3>3 DEF Sound, KeysFit
    <2>3. CASE TOTPSettings
      <3>1. PICK h \in Hashes, n \in Intervals :
               form' = [form EXCEPT !.hash = h, !.interval = n]
        BY <2>3 DEF TOTPSettings, Form
      <3>2. form' \in ItemRec /\ form'.keys = form.keys /\ form'.pw = form.pw
        BY <1>3, <3>1 DEF ItemRec
      <3> QED
        BY <1>3, <3>2 DEF Sound, KeysFit
    <2> QED
      BY <2>1, <2>2, <2>3
  <1>7. Sound(stored)' /\ Sound(form)'
    BY <1>2, <1>3, <1>6
  <1> QED
    BY <1>1, <1>2, <1>4, <1>5, <1>7, ClickCounts, Outside

\* Keys are set as a pair, by the generation and by every way of the import.
LEMMA KeyNext ==
    ASSUME ItemInv,
           GenerateKey \/ ImportKey \/ ImportFile \/ ImportCancelled \/ ImportProtected
    PROVE  ItemInv'
  <1>1. ItemTypes /\ ViewTypes /\ ClockTypes /\ CountTypes /\ FitInv /\ BarInv
    BY DEF ItemInv, EditorTypes
  <1>2. dialog # "none" => screen = "edit"
    BY <1>1 DEF ViewTypes
  <1>3. /\ Click /\ screen = "edit" /\ dialog # "generator"
        /\ stored' = stored /\ shown' = shown /\ UNCHANGED clock
    BY <1>2 DEF GenerateKey, ImportKey, ImportFile, ImportCancelled, ImportProtected,
                Editing, Form
  <1>4. Sound(stored) /\ Sound(form) /\ form \in ItemRec /\ KeysFit(form) /\ Fits(form.pw)
    BY <1>1, <1>3, SoundNow DEF Sound
  <1>5. ClockTypes' /\ BarInv'
    BY <1>1, <1>3, SameWatch
  <1>6. picked \in KeyFields /\ shown \in Values /\ None \in KeyFields
        /\ Keys \subseteq KeyFields /\ Locked \subseteq Keys
    BY <1>1, ItemEditorAssumption DEF ViewTypes, KeyFields
  <1>7. ASSUME NEW k \in KeyFields, form' = [form EXCEPT !.keys = KeyPair(k)]
        PROVE  Sound(form')
    BY <1>4, <1>7, WithKeys DEF Sound
  <1> DEFINE Result == /\ Sound(form') /\ picked' \in KeyFields
                       /\ dialog' \in {"none", "file", "passphrase"}
                       /\ \/ screen' = "edit"
                          \/ screen' = "crashed" /\ dialog' = "none"
  <1>8. ASSUME GenerateKey PROVE Result
    <2>1. PICK k \in Keys : Form([form EXCEPT !.keys = KeyPair(k)])
      BY <1>8 DEF GenerateKey
    <2>2. form' = [form EXCEPT !.keys = KeyPair(k)] /\ screen' = screen /\ picked' = picked
          /\ dialog' = dialog /\ dialog = "none"
      BY <1>8, <2>1 DEF Form, GenerateKey, Editing
    <2> QED
      BY <1>3, <1>6, <1>7, <2>2
  <1>9. ASSUME ImportKey PROVE Result
    BY <1>3, <1>4, <1>6, <1>9 DEF ImportKey, Form
  <1>10. ASSUME ImportFile PROVE Result
    <2>1. CASE \E k \in Keys \ Locked :
                  Form([form EXCEPT !.keys = KeyPair(k)]) /\ dialog' = "none"
      <3>1. PICK k \in Keys \ Locked :
               Form([form EXCEPT !.keys = KeyPair(k)]) /\ dialog' = "none"
        BY <2>1
      <3>2. form' = [form EXCEPT !.keys = KeyPair(k)] /\ screen' = screen /\ picked' = picked
        BY <3>1 DEF Form
      <3> QED
        BY <1>3, <1>6, <1>7, <3>1, <3>2
    <2>2. CASE Form(form) /\ dialog' = "none"
      BY <1>3, <1>4, <1>6, <2>2 DEF Form
    <2>3. CASE \E k \in Locked : /\ picked' = k /\ dialog' = "passphrase"
                                 /\ UNCHANGED <<stored, form, screen, shown>>
      BY <1>3, <1>4, <1>6, <2>3
    <2> QED
      BY <1>10, <2>1, <2>2, <2>3 DEF ImportFile
  <1>11. ASSUME ImportCancelled PROVE Result
    BY <1>4, <1>6, <1>11 DEF ImportCancelled
  <1>12. ASSUME ImportProtected PROVE Result
    <2>1. dialog' = "none" /\ picked' = None /\ screen' = screen
      BY <1>12 DEF ImportProtected
    <2>2. CASE form' = [form EXCEPT !.keys = KeyPair(picked), !.pw.value = Typed]
      <3> DEFINE i == [form EXCEPT !.keys = KeyPair(picked)]
      <3>1. i \in ItemRec /\ KeysFit(i)
        BY <1>4, <1>6, WithKeys
      <3>2. form' = [i EXCEPT !.pw.value = Typed]
        BY <1>4, <2>2 DEF ItemRec
      <3> HIDE DEF i
      <3>3. Sound(form')
        BY <3>1, <3>2, TypedSound
      <3> QED
        BY <1>3, <1>6, <2>1, <3>3
    <2>3. CASE UNCHANGED form
      BY <1>3, <1>4, <1>6, <2>1, <2>3
    <2> QED
      BY <1>12, <2>2, <2>3 DEF ImportProtected
  <1>13. Result
    BY <1>8, <1>9, <1>10, <1>11, <1>12
  <1>14. ViewTypes'
    BY <1>3, <1>6, <1>13 DEF ViewTypes
  <1>15. Sound(stored)' /\ Sound(form)' /\ dialog' # "generator"
    BY <1>3, <1>4, <1>13
  <1> QED
    BY <1>1, <1>3, <1>5, <1>14, <1>15, ClickCounts, Outside


\* What the generator does not touch.
LEMMA InTheGenerator ==
    ASSUME ItemInv, dialog = "generator"
    PROVE  /\ ItemTypes /\ ViewTypes /\ ClockTypes /\ CountTypes /\ FitInv /\ BarInv
           /\ screen = "edit" /\ Sound(stored) /\ form \in ItemRec /\ form.pw \in Passwords
           /\ KeysFit(form) /\ shown \in Values /\ form.pw.mode \in Generated
           /\ form.pw.length \in Modes[form.pw.mode].min .. Modes[form.pw.mode].max
           /\ shown = Typed \/ Fails(form.pw) \/ shown = Secret(form.pw)
  <1>1. ItemTypes /\ ViewTypes /\ ClockTypes /\ CountTypes /\ FitInv /\ BarInv /\ DialogInv
    BY DEF ItemInv, EditorTypes
  <1>2. Sound(stored) /\ form \in ItemRec /\ form.pw \in Passwords /\ KeysFit(form)
    BY <1>1, SoundNow, ItemFields DEF ItemTypes, FitInv
  <1>3. screen = "edit" /\ shown \in Values
    BY <1>1 DEF ViewTypes
  <1> QED
    BY <1>1, <1>2, <1>3 DEF DialogInv

\* A step that leaves the generator open, with a value for its options.
LEMMA Inside ==
    ASSUME Sound(stored)', (form \in ItemRec)', KeysFit(form)', (dialog = "generator")',
           (form.pw.mode \in Generated)',
           (form.pw.length \in Modes[form.pw.mode].min .. Modes[form.pw.mode].max)',
           (shown = Typed \/ Fails(form.pw) \/ shown = Secret(form.pw))',
           ViewTypes', ClockTypes', BarInv', CountTypes'
    PROVE  ItemInv'
  BY DEF ItemInv, EditorTypes, ItemTypes, DialogInv, FitInv, Sound

LEMMA ChangedNext ==
    ASSUME ItemInv, InGenerator, NEW pw \in Passwords, pw.mode \in Generated,
           pw.length \in Modes[pw.mode].min .. Modes[pw.mode].max, Changed(pw)
    PROVE  ItemInv'
  <1>1. /\ Click /\ dialog = "generator" /\ dialog' = "generator" /\ screen' = screen
        /\ stored' = stored /\ picked' = picked /\ UNCHANGED clock
        /\ form' = [form EXCEPT !.pw = pw]
        /\ shown' = IF Fails(pw) THEN shown ELSE Secret(pw)
    BY DEF InGenerator, Changed, pwgen
  <1>2. /\ ViewTypes /\ ClockTypes /\ CountTypes /\ BarInv /\ screen = "edit"
        /\ Sound(stored) /\ form \in ItemRec /\ KeysFit(form) /\ shown \in Values
    BY <1>1, InTheGenerator
  <1>3. form' \in ItemRec /\ KeysFit(form') /\ form'.pw = pw
    BY <1>1, <1>2, WithPassword
  <1>4. shown' \in Values
    BY <1>1, <1>2, SecretType
  <1>5. ViewTypes'
    BY <1>1, <1>2, <1>4 DEF ViewTypes
  <1>6. ClockTypes' /\ BarInv'
    BY <1>1, <1>2, SameWatch
  <1>7. Fails(form'.pw) \/ shown' = Secret(form'.pw)
    BY <1>1, <1>3
  <1>8. CountTypes'
    BY <1>1, <1>2, ClickCounts
  <1>9. Sound(stored)'
    BY <1>1, <1>2
  <1>10. form'.pw.mode \in Generated
         /\ form'.pw.length \in Modes[form'.pw.mode].min .. Modes[form'.pw.mode].max
    BY <1>3
  <1> QED
    BY <1>1, <1>3, <1>5, <1>6, <1>7, <1>8, <1>9, <1>10, Inside

LEMMA OpenGeneratorNext ==
    ASSUME ItemInv, OpenGenerator
    PROVE  ItemInv'
  <1> DEFINE m == IF form.pw.mode = "custom" THEN "random" ELSE form.pw.mode
             qw == [form.pw EXCEPT !.mode = m]
             pw == Options(qw, m)
  <1>1. /\ Click /\ screen = "edit" /\ dialog = "none" /\ dialog' = "generator"
        /\ stored' = stored /\ screen' = screen /\ picked' = picked /\ UNCHANGED clock
        /\ form' = [form EXCEPT !.pw = pw] /\ shown' = Secret(pw)
    BY DEF OpenGenerator, Editing
  <1>2. ItemTypes /\ ViewTypes /\ ClockTypes /\ CountTypes /\ FitInv /\ BarInv
    BY DEF ItemInv, EditorTypes
  <1>3. Sound(stored) /\ Sound(form) /\ form \in ItemRec /\ KeysFit(form)
        /\ form.pw \in Passwords
    BY <1>1, <1>2, SoundNow, ItemFields DEF Sound
  <1>4. m \in Generated
    BY <1>3, PasswordFields DEF Generated
  <1> HIDE DEF m
  <1>5. qw \in Passwords
    BY <1>3, <1>4 DEF Passwords
  <1> HIDE DEF qw
  <1>6. pw \in Passwords /\ pw.mode = m /\ pw.length \in Modes[m].min .. Modes[m].max
    BY <1>4, <1>5, OptionsType
  <1> HIDE DEF pw
  <1>7. form' \in ItemRec /\ KeysFit(form') /\ form'.pw = pw
    BY <1>1, <1>3, <1>6, WithPassword
  <1>8. shown' \in Values /\ shown' = Secret(form'.pw)
    BY <1>1, <1>6, <1>7, SecretType
  <1>9. ViewTypes'
    BY <1>1, <1>2, <1>8 DEF ViewTypes
  <1>10. ClockTypes' /\ BarInv'
    BY <1>1, <1>2, SameWatch
  <1>11. CountTypes'
    BY <1>1, <1>2, ClickCounts
  <1>12. Sound(stored)'
    BY <1>1, <1>3
  <1>13. form'.pw.mode \in Generated
         /\ form'.pw.length \in Modes[form'.pw.mode].min .. Modes[form'.pw.mode].max
    BY <1>4, <1>6, <1>7
  <1> QED
    BY <1>1, <1>7, <1>8, <1>9, <1>10, <1>11, <1>12, <1>13, Inside

\* The form's password once the generator is left: the entry, or the old value
\* marked as one whose options changed.
LEMMA LeaveGenerator ==
    ASSUME ItemInv, UseGenerated \/ CancelGenerator
    PROVE  ItemInv'
  <1>1. /\ Click /\ dialog = "generator" /\ dialog' = "none" /\ shown' = Empty
        /\ stored' = stored /\ screen' = screen /\ picked' = picked /\ UNCHANGED clock
    BY DEF UseGenerated, CancelGenerator, InGenerator
  <1>2. /\ ViewTypes /\ ClockTypes /\ CountTypes /\ BarInv /\ screen = "edit"
        /\ Sound(stored) /\ form \in ItemRec /\ form.pw \in Passwords /\ KeysFit(form)
        /\ shown \in Values
        /\ shown = Typed \/ Fails(form.pw) \/ shown = Secret(form.pw)
    BY <1>1, InTheGenerator
  <1>3. ASSUME UseGenerated PROVE Sound(form')
    <2> DEFINE pw == [form.pw EXCEPT !.value = shown, !.altered = FALSE]
    <2>1. form' = [form EXCEPT !.pw = pw]
      BY <1>2, <1>3 DEF UseGenerated, ItemRec
    <2>2. pw \in Passwords
      BY <1>2 DEF Passwords
    <2>3. pw.value = shown /\ pw.mode = form.pw.mode /\ pw.format = form.pw.format
          /\ pw.length = form.pw.length
      BY <1>2 DEF Passwords
    <2> HIDE DEF pw
    <2>4. Secret(pw) = Secret(form.pw) /\ (Fails(pw) <=> Fails(form.pw))
      BY <2>3, SameOptions
    <2>5. Fits(pw)
      BY <1>2, <2>3, <2>4 DEF Fits
    <2> QED
      BY <1>2, <2>1, <2>2, <2>5, WithPassword DEF Sound
  <1>4. ASSUME CancelGenerator PROVE Sound(form')
    <2> DEFINE pw == [form.pw EXCEPT !.altered = TRUE]
    <2>1. form' = [form EXCEPT !.pw = pw]
      BY <1>2, <1>4 DEF CancelGenerator, ItemRec
    <2>2. pw \in Passwords /\ pw.altered = TRUE
      BY <1>2 DEF Passwords
    <2> HIDE DEF pw
    <2>3. Fits(pw)
      BY <2>2 DEF Fits
    <2> QED
      BY <1>2, <2>1, <2>2, <2>3, WithPassword DEF Sound
  <1>5. ViewTypes'
    BY <1>1, <1>2, ValueTypes DEF ViewTypes
  <1>6. ClockTypes' /\ BarInv'
    BY <1>1, <1>2, SameWatch
  <1>7. CountTypes'
    BY <1>1, <1>2, ClickCounts
  <1>8. Sound(stored)' /\ Sound(form)'
    BY <1>1, <1>2, <1>3, <1>4
  <1> QED
    BY <1>1, <1>5, <1>6, <1>7, <1>8, Outside

LEMMA GeneratorNext ==
    ASSUME ItemInv,
           \/ OpenGenerator \/ SelectType \/ SetLength \/ ToggleClass \/ RefreshPassword
           \/ TypeInGenerator \/ UseGenerated \/ CancelGenerator
    PROVE  ItemInv'
  <1>1. ASSUME InGenerator
        PROVE  /\ form \in ItemRec /\ form.pw \in Passwords /\ form.pw.mode \in Generated
               /\ form.pw.length \in Modes[form.pw.mode].min .. Modes[form.pw.mode].max
    BY <1>1, InTheGenerator DEF InGenerator
  <1>2. CASE SelectType
    <2>1. PICK m \in Generated : Changed(Options(form.pw, m))
      BY <1>2 DEF SelectType
    <2>2. InGenerator
      BY <1>2 DEF SelectType
    <2> QED
      BY <1>1, <2>1, <2>2, OptionsType, ChangedNext
  <1>3. CASE SetLength
    <2>1. PICK n \in Modes[form.pw.mode].min .. Modes[form.pw.mode].max :
             Changed([form.pw EXCEPT !.length = n])
      BY <1>3 DEF SetLength
    <2>2. InGenerator
      BY <1>3 DEF SetLength
    <2> DEFINE pw == [form.pw EXCEPT !.length = n]
    <2>3. n \in Lengths
      BY <1>1, <2>2, LengthsHold
    <2>4. pw \in Passwords /\ pw.mode = form.pw.mode /\ pw.length = n
      BY <1>1, <2>2, <2>3 DEF Passwords
    <2>5. Changed(pw)
      BY <2>1
    <2> HIDE DEF pw
    <2> QED
      BY <1>1, <2>2, <2>4, <2>5, ChangedNext
  <1>4. CASE ToggleClass
    <2>1. PICK c \in Classes :
             Changed([form.pw EXCEPT !.format = IF c \in @ THEN @ \ {c} ELSE @ \cup {c}])
      BY <1>4 DEF ToggleClass
    <2>2. InGenerator
      BY <1>4 DEF ToggleClass
    <2> DEFINE pw == [form.pw EXCEPT !.format = IF c \in @ THEN @ \ {c} ELSE @ \cup {c}]
    <2>3. form.pw.format \in SUBSET Classes
      BY <1>1, <2>2, PasswordFields
    <2>4. form.pw.format \ {c} \in SUBSET Classes /\ form.pw.format \cup {c} \in SUBSET Classes
      BY <2>3
    <2>5. pw \in Passwords /\ pw.mode = form.pw.mode /\ pw.length = form.pw.length
      BY <1>1, <2>2, <2>4 DEF Passwords
    <2>6. Changed(pw)
      BY <2>1
    <2> HIDE DEF pw
    <2> QED
      BY <1>1, <2>2, <2>5, <2>6, ChangedNext
  <1>5. CASE RefreshPassword
    BY <1>1, <1>5, ChangedNext DEF RefreshPassword
  <1>6. CASE TypeInGenerator
    <2>1. /\ Click /\ dialog = "generator" /\ shown' = Typed
          /\ stored' = stored /\ form' = form /\ screen' = screen /\ dialog' = dialog
          /\ picked' = picked /\ UNCHANGED clock
      BY <1>6 DEF TypeInGenerator, InGenerator
    <2>2. /\ ViewTypes /\ ClockTypes /\ CountTypes /\ BarInv /\ screen = "edit"
          /\ Sound(stored) /\ form \in ItemRec /\ KeysFit(form) /\ form.pw.mode \in Generated
          /\ form.pw.length \in Modes[form.pw.mode].min .. Modes[form.pw.mode].max
      BY <2>1, InTheGenerator
    <2>3. ViewTypes'
      BY <2>1, <2>2, ValueTypes DEF ViewTypes
    <2>4. ClockTypes' /\ BarInv'
      BY <2>1, <2>2, SameWatch
    <2>5. CountTypes'
      BY <2>1, <2>2, ClickCounts
    <2>6. Sound(stored)' /\ KeysFit(form)'
      BY <2>1, <2>2
    <2> QED
      BY <2>1, <2>2, <2>3, <2>4, <2>5, <2>6, Inside
  <1> QED
    BY <1>2, <1>3, <1>4, <1>5, <1>6, OpenGeneratorNext, LeaveGenerator

\* The commands change the storage behind the window.
LEMMA CommandNext ==
    ASSUME ItemInv,
           \/ addLoginItem \/ addPasswordItem \/ addSSHKeyItem \/ importSSHKey
           \/ editLoginItem \/ editPasswordItem
    PROVE  ItemInv'
  <1>1. ItemTypes /\ ViewTypes /\ ClockTypes /\ CountTypes /\ FitInv /\ BarInv /\ DialogInv
    BY DEF ItemInv, EditorTypes
  <1>2. Sound(stored) /\ stored \in ItemRec /\ KeysFit(stored)
    BY <1>1, SoundNow DEF Sound
  <1>3. Command
    BY DEF addLoginItem, addPasswordItem, addSSHKeyItem, importSSHKey, editLoginItem,
           editPasswordItem, AddWithPassword, EditWithPassword
  <1>4. Click /\ UNCHANGED <<form, screen, dialog, shown, picked>> /\ UNCHANGED clock
    BY <1>3 DEF Command
  <1>5. ASSUME NEW kind \in Kinds
        PROVE  /\ [NoItem EXCEPT !.kind = kind] \in ItemRec
               /\ KeysFit([NoItem EXCEPT !.kind = kind])
               /\ [NoItem EXCEPT !.kind = kind].pw = NewPassword
    <2>1. NoItem \in ItemRec /\ NoItem.keys = NoKeys /\ NoItem.pw = NewPassword
      BY NewItemsSound DEF NoItem, Sound
    <2>2. [NoItem EXCEPT !.kind = kind].keys = NoKeys
      BY <2>1 DEF ItemRec
    <2>3. KeysFit([NoItem EXCEPT !.kind = kind])
      BY <2>2 DEF KeysFit
    <2> QED
      BY <2>1, <2>3 DEF ItemRec
  <1>6. ASSUME NEW kind, AddWithPassword(kind) PROVE Sound(stored')
    <2>1. PICK pw \in Pwgen : stored' = [NoItem EXCEPT !.kind = kind, !.pw = pw]
      BY <1>6 DEF AddWithPassword
    <2>2. kind \in Kinds
      BY <1>6 DEF AddWithPassword
    <2> DEFINE i == [NoItem EXCEPT !.kind = kind]
    <2>3. stored' = [i EXCEPT !.pw = pw]
      BY <2>1 DEF NoItem
    <2>4. i \in ItemRec /\ KeysFit(i)
      BY <1>5, <2>2
    <2> HIDE DEF i
    <2> QED
      BY <2>3, <2>4, PwgenType, WithPassword DEF Sound
  <1>7. ASSUME NEW kind, EditWithPassword(kind) PROVE Sound(stored')
    <2>1. PICK pw \in Pwgen : stored' = [stored EXCEPT !.pw = pw]
      BY <1>7 DEF EditWithPassword
    <2> QED
      BY <1>2, <2>1, PwgenType, WithPassword DEF Sound
  <1> DEFINE i == [NoItem EXCEPT !.kind = "sshkey"]
             j(k) == [i EXCEPT !.keys = KeyPair(k)]
  <1>8. ASSUME NEW k \in Keys, "sshkey" \in Kinds
        PROVE  Sound(j(k)) /\ j(k) \in ItemRec
    <2>1. i \in ItemRec /\ i.pw = NewPassword
      BY <1>5, <1>8
    <2> HIDE DEF i
    <2>2. k \in KeyFields
      BY DEF KeyFields
    <2>3. j(k) \in ItemRec /\ KeysFit(j(k)) /\ j(k).pw = NewPassword
      BY <2>1, <2>2, WithKeys
    <2> QED
      BY <2>3, NewPasswordType DEF Sound
  <1>9. ASSUME addSSHKeyItem PROVE Sound(stored')
    <2>1. PICK k \in Keys : stored' = [NoItem EXCEPT !.kind = "sshkey", !.keys = KeyPair(k)]
      BY <1>9 DEF addSSHKeyItem
    <2>2. "sshkey" \in Kinds
      BY <1>9 DEF addSSHKeyItem
    <2>3. stored' = j(k)
      BY <2>1 DEF NoItem
    <2> QED
      BY <1>8, <2>2, <2>3
  <1>10. ASSUME importSSHKey PROVE Sound(stored')
    <2>1. PICK k \in Keys :
             stored' = [NoItem EXCEPT !.kind = "sshkey", !.keys = KeyPair(k),
                          !.pw = IF k \in Locked THEN [@ EXCEPT !.value = Typed] ELSE @]
      BY <1>10 DEF importSSHKey
    <2>2. Sound(j(k)) /\ j(k) \in ItemRec
      BY <1>8, <1>10 DEF importSSHKey
    <2>3. CASE k \in Locked
      <3>1. stored' = [j(k) EXCEPT !.pw.value = Typed]
        BY <2>1, <2>3 DEF NoItem
      <3> HIDE DEF j, i
      <3> QED
        BY <2>2, <3>1, TypedSound DEF Sound
    <2>4. CASE k \notin Locked
      <3> DEFINE pw == IF k \in Locked THEN [NoItem.pw EXCEPT !.value = Typed] ELSE NoItem.pw
      <3>1. stored' = [NoItem EXCEPT !.kind = "sshkey", !.keys = KeyPair(k), !.pw = pw]
        BY <2>1
      <3>2. pw = NoItem.pw
        BY <2>4
      <3> HIDE DEF pw
      <3>3. stored' = j(k)
        <4>1. NoItem \in ItemRec
          BY NewItemsSound DEF Sound
        <4> QED
          BY <3>1, <3>2, <4>1 DEF ItemRec
      <3> QED
        BY <2>2, <3>3
    <2> QED
      BY <2>3, <2>4
  <1>11. Sound(stored')
    BY <1>6, <1>7, <1>9, <1>10
       DEF addLoginItem, addPasswordItem, editLoginItem, editPasswordItem
  <1>12. (stored \in ItemRec)' /\ KeysFit(stored)' /\ Fits(stored.pw)'
    BY <1>11 DEF Sound
  <1>13. ItemTypes' /\ FitInv' /\ DialogInv'
    <2>1. ItemTypes'
      BY <1>1, <1>4, <1>12 DEF ItemTypes
    <2>2. FitInv'
      BY <1>1, <1>4, <1>12 DEF FitInv
    <2>3. DialogInv'
      BY <1>1, <1>4 DEF DialogInv
    <2> QED
      BY <2>1, <2>2, <2>3
  <1>14. ViewTypes' /\ CountTypes'
    BY <1>1, <1>4, ClickCounts DEF ViewTypes
  <1>15. ClockTypes' /\ BarInv'
    BY <1>1, <1>4 DEF ClockTypes, BarInv, clock
  <1> QED
    BY <1>13, <1>14, <1>15 DEF ItemInv, EditorTypes

-----------------------------------------------------------------------------
(* The theorems *)

LEMMA InitIInv == ItemInit => ItemInv
  <1> SUFFICES ASSUME ItemInit PROVE ItemInv
    OBVIOUS
  <1>1. Sound(stored) /\ Sound(form)
    BY NewItemsSound DEF ItemInit
  <1>2. ViewTypes
    BY ValueTypes DEF ItemInit, ViewTypes, KeyFields
  <1>3. NoCode \in CodeRec
    BY DEF NoCode, TOTP, CodeRec
  <1>4. 0 \in 0 .. Day - 1 /\ 0 \in 0 .. Minute /\ ~(0 > 0)
    BY Clocks
  <1>5. now = 0 /\ bar = 0 /\ code = NoCode /\ skewed = FALSE /\ dialog = "none"
    BY DEF ItemInit
  <1>6. ClockTypes
    BY <1>3, <1>4, <1>5 DEF ClockTypes
  <1>7. BarInv
    BY <1>4, <1>5 DEF BarInv
  <1>8. CountTypes
    BY ItemEditorAssumption DEF ItemInit, CountTypes
  <1> QED
    BY <1>1, <1>2, <1>5, <1>6, <1>7, <1>8
       DEF ItemInv, EditorTypes, ItemTypes, DialogInv, FitInv, Sound

LEMMA SameIInv == ItemInv /\ UNCHANGED itemVars => ItemInv'
  <1> SUFFICES ASSUME ItemInv, UNCHANGED itemVars PROVE ItemInv'
    OBVIOUS
  <1>1. UNCHANGED <<stored, form, screen, dialog, shown, picked, now, bar, code,
                    clicks, suspends, skewed>>
    BY DEF itemVars
  <1>2. ItemTypes' /\ ViewTypes' /\ ClockTypes' /\ CountTypes'
    BY <1>1 DEF ItemInv, EditorTypes, ItemTypes, ViewTypes, ClockTypes, CountTypes
  <1>3. DialogInv'
    BY <1>1 DEF ItemInv, DialogInv
  <1>4. FitInv'
    BY <1>1 DEF ItemInv, FitInv
  <1>5. BarInv'
    BY <1>1 DEF ItemInv, BarInv
  <1> QED
    BY <1>2, <1>3, <1>4, <1>5 DEF ItemInv, EditorTypes

\* The invariant of the views holds in every state.
THEOREM ItemInductive == ItemSpec => []ItemInv
  <1>1. ItemInv /\ [ItemNext]_itemVars => ItemInv'
    <2> SUFFICES ASSUME ItemInv, [ItemNext]_itemVars PROVE ItemInv'
      OBVIOUS
    <2>1. CASE Window
      BY <2>1, ViewNext, FormNext, GeneratorNext, KeyNext DEF Window
    <2>2. CASE Tick \/ Suspend
      BY <2>2, TimeNext
    <2>3. CASE Restart
      BY <2>3, ViewNext
    <2>4. CASE \/ addLoginItem \/ addPasswordItem \/ addSSHKeyItem \/ importSSHKey
               \/ editLoginItem \/ editPasswordItem
      BY <2>4, CommandNext
    <2>5. CASE UNCHANGED itemVars
      BY <2>5, SameIInv
    <2> QED
      BY <2>1, <2>2, <2>3, <2>4, <2>5 DEF ItemNext
  <1> QED
    BY <1>1, InitIInv, PTL DEF ItemSpec

\* Items, entries, clocks and counters keep their types for any preferences.
THEOREM ItemTypeCorrect == ItemSpec => []ItemTypeOK
  <1>1. ItemInv => ItemTypeOK
    <2> SUFFICES ASSUME ItemInv PROVE ItemTypeOK
      OBVIOUS
    <2>1. ItemTypes /\ ViewTypes /\ ClockTypes /\ CountTypes
      BY DEF ItemInv, EditorTypes
    <2>2. \A i \in ItemRec : IsItem(i)
      BY ItemFields DEF IsItem, KeyRec
    <2>3. IsItem(stored) /\ IsItem(form)
      BY <2>1, <2>2 DEF ItemTypes
    <2> QED
      BY <2>1, <2>3 DEF ItemTypeOK, ViewTypes, ClockTypes, CountTypes, CodeRec
  <1> QED
    BY <1>1, ItemInductive, PTL

\* The generator offers what it generated from the options it shows, and these are
\* within the limits, for any limits the preferences allow.
THEOREM OfferFits == ItemSpec => []DialogValueFits
  <1>1. ItemInv => DialogValueFits
    BY DEF ItemInv, DialogInv, DialogValueFits
  <1> QED
    BY <1>1, ItemInductive, PTL

\* A stored password was generated from the options stored beside it, and a stored
\* key is one key, whichever view or command made it.
THEOREM StoredFits == ItemSpec => []StoredItemFits
  <1>1. ItemInv => StoredItemFits
    BY DEF ItemInv, FitInv, KeysFit, Fits, StoredItemFits
  <1> QED
    BY <1>1, ItemInductive, PTL

\* The code on the screen is the one of this second for every interval that divides
\* the minute, at whatever second the view was opened.
THEOREM CodeStaysCurrent == ItemSpec => []CodeIsCurrent
  <1>1. ItemInv => CodeIsCurrent
    BY DEF ItemInv, BarInv, CodeIsCurrent
  <1> QED
    BY <1>1, ItemInductive, PTL

=============================================================================
