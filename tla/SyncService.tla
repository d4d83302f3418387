---------------------------- MODULE SyncService ----------------------------
(***************************************************************************)
(* The life of the sync services of one program: Start, Stop, the          *)
(* background loop and the restart of mDNS (sync/service.go), the program  *)
(* that makes the first service (main.go) and the preferences that stop it *)
(* and make others (ui/preferences.go); the sessions other peers open on a *)
(* running service, the dialogs that lock the window meanwhile             *)
(* (ui/discovery.go), and the one staging directory they share.            *)
(***************************************************************************)
EXTENDS Naturals, FiniteSets

CONSTANTS MaxServices,   \* bound: services ever made
          Sessions,      \* sessions opened by peers, each from a peer of its own
          MaxFaults,     \* bound: failing starts and broken sessions
          MaxRestarts    \* bound: restarts of mDNS

ASSUME ServiceAssumption ==
    /\ MaxServices \in Nat \ {0} /\ {MaxFaults, MaxRestarts} \subseteq Nat
    /\ Sessions \subseteq Nat \ {0} /\ IsFiniteSet(Sessions)

Services == 1..MaxServices
Modes == {"disabled", "relaxed", "strict"}
Files == {"vault.age", "item"}
Local == 0     \* the copy of the vault the user has

VARIABLES
    pref,     \* Preferences.Sync.Mode
    held,     \* a.syncService (0: nil)
    made,     \* services made so far; the first is made by main
    mode,     \* config.SyncMode of each service
    calls,    \* the services with the callbacks of the window
    running,  \* the running flag of each service
    host, mdns, \* "none", "open" or "closed": what the fields of a service point to
    lock,     \* who holds the mutex of a service ("none")
    loop,     \* the background goroutine: "none", "select", "restart", "ended"
    done,     \* the channel that ends it is closed
    pc,       \* where the window and the starting goroutine of main are
    closing,  \* what Stop has taken out of the fields: may hold "mdns", "host"
    restarts, faults,
    session,  \* where each incoming session is
    on,       \* the service that serves it
    overlapped, \* history: two peers have had a session open at the same time
    cut,      \* the sessions whose stream was closed with the host
    got,      \* the files each session has received
    dialogs,  \* the sessions whose dialog locks the window
    staging,  \* the session that wrote each file of .sync-staging (Local: none)
    staged,   \* the staging directory exists
    live      \* whose copy each file of the vault is

service == <<held, made, mode, calls>>
fields == <<running, host, mdns, lock>>
thread == <<loop, done, pc, closing>>
bounds == <<restarts, faults>>
origin == <<on, overlapped>>
receiving == <<session, origin, cut, got, dialogs, staging, staged, live>>
vars == <<pref, service, fields, thread, bounds, receiving>>

Fault == faults < MaxFaults /\ faults' = faults + 1
Goes(t, s) == pc' = [pc EXCEPT ![t] = s]
Threads == {"window", "main"}
At(t, s) == pc[t] = s

\* The service a thread starts: main's own, or the one the window has just made.
Mine(t) == IF t = "main" THEN 1 ELSE made

-----------------------------------------------------------------------------
(* Start, with the mutex held from beginning to end *)

StartLock(t) ==
    /\ At(t, "start") /\ lock[Mine(t)] = "none"
    /\ IF running[Mine(t)] \/ mode[Mine(t)] = "disabled"
       THEN Goes(t, "idle") /\ UNCHANGED lock
       ELSE Goes(t, "host") /\ lock' = [lock EXCEPT ![Mine(t)] = t]
    /\ UNCHANGED <<pref, service, running, host, mdns, loop, done, closing, bounds, receiving>>

\* The identity is loaded and the host made, or one of them fails.
StartHost(t) ==
    /\ At(t, "host")
    /\ \/ host' = [host EXCEPT ![Mine(t)] = "open"] /\ Goes(t, "mdns") /\ UNCHANGED <<lock, faults>>
       \/ /\ Fault /\ Goes(t, "idle") /\ UNCHANGED host
          /\ lock' = [lock EXCEPT ![Mine(t)] = "none"]
    /\ UNCHANGED <<pref, service, running, mdns, loop, done, closing, restarts, receiving>>

\* Mutant of StartMDNS: the host is left open when mDNS does not start.
StartMDNSLeaks(t) ==
    /\ At(t, "mdns")
    /\ \/ /\ mdns' = [mdns EXCEPT ![Mine(t)] = "open"]
          /\ loop' = [loop EXCEPT ![Mine(t)] = "select"]
          /\ running' = [running EXCEPT ![Mine(t)] = TRUE]
          /\ UNCHANGED <<host, faults>>
       \/ Fault /\ UNCHANGED <<host, mdns, loop, running>>
    /\ lock' = [lock EXCEPT ![Mine(t)] = "none"] /\ Goes(t, "started")
    /\ UNCHANGED <<pref, service, done, closing, restarts, receiving>>

\* When mDNS does not start the host is closed, and the field keeps it.
StartMDNS(t) ==
    /\ At(t, "mdns")
    /\ \/ /\ mdns' = [mdns EXCEPT ![Mine(t)] = "open"]
          /\ loop' = [loop EXCEPT ![Mine(t)] = "select"]
          /\ running' = [running EXCEPT ![Mine(t)] = TRUE]
          /\ UNCHANGED <<host, faults>>
       \/ /\ Fault /\ host' = [host EXCEPT ![Mine(t)] = "closed"]
          /\ UNCHANGED <<mdns, loop, running>>
    /\ lock' = [lock EXCEPT ![Mine(t)] = "none"] /\ Goes(t, "started")
    /\ UNCHANGED <<pref, service, done, closing, restarts, receiving>>

\* Start returned: the window takes the service it made if it runs.
Started(t) ==
    /\ At(t, "started") /\ Goes(t, "idle")
    /\ held' = IF t = "window" /\ running[made] THEN made ELSE held
    /\ UNCHANGED <<pref, made, mode, calls, fields, loop, done, closing, bounds, receiving>>

-----------------------------------------------------------------------------
(* The preferences *)

\* IsRunning takes the mutex.
Free(s) == s # 0 => lock[s] = "none"
IsRunning(s) == s # 0 /\ running[s]

\* A mode is chosen and stored; then applySyncMode makes, stops, or does
\* nothing.  A service made here gets no callbacks and no catalogue manager.
\* main's Start has its lock before the window can be used.
applySyncMode(m) ==
    /\ At("window", "idle") /\ pc["main"] # "start" /\ Free(held) /\ dialogs = {}
    /\ m # pref /\ pref' = m
    /\ IF m # "disabled" /\ ~IsRunning(held)
       THEN /\ made < MaxServices /\ made' = made + 1
            /\ mode' = [mode EXCEPT ![made + 1] = m]
            /\ Goes("window", "start")
       ELSE /\ Goes("window", IF m = "disabled" /\ IsRunning(held) THEN "stop" ELSE "idle")
            /\ UNCHANGED <<made, mode>>
    /\ UNCHANGED <<held, calls, fields, loop, done, closing, bounds, receiving>>

-----------------------------------------------------------------------------
(* Stop, called by the window *)

\* Mutant of StopTake: the mutex is kept until Stop returns.
StopTakeKeepsLock ==
    /\ At("window", "stop") /\ lock[held] = "none"
    /\ closing' = {x \in {"mdns", "host"} : IF x = "mdns" THEN mdns[held] = "open"
                                            ELSE host[held] = "open"}
    /\ running' = [running EXCEPT ![held] = FALSE]
    /\ host' = [host EXCEPT ![held] = "none"] /\ mdns' = [mdns EXCEPT ![held] = "none"]
    /\ lock' = [lock EXCEPT ![held] = "window"]
    /\ done' = [done EXCEPT ![held] = TRUE]
    /\ Goes("window", "wait")
    /\ UNCHANGED <<pref, service, loop, bounds, receiving>>

\* The fields are emptied under the mutex and the channel closed after it.
StopTake ==
    /\ At("window", "stop") /\ lock[held] = "none"
    /\ closing' = {x \in {"mdns", "host"} : IF x = "mdns" THEN mdns[held] = "open"
                                            ELSE host[held] = "open"}
    /\ running' = [running EXCEPT ![held] = FALSE]
    /\ host' = [host EXCEPT ![held] = "none"] /\ mdns' = [mdns EXCEPT ![held] = "none"]
    /\ done' = [done EXCEPT ![held] = TRUE]
    /\ Goes("window", "wait")
    /\ UNCHANGED <<pref, service, lock, loop, bounds, receiving>>

\* backgroundWG.Wait, then mDNS and the host are closed: sessions break.
StopClose ==
    /\ At("window", "wait") /\ loop[held] \in {"none", "ended"}
    /\ closing' = {} /\ held' = 0 /\ Goes("window", "idle")
    /\ cut' = cut \cup {k \in Sessions : session[k] # "none" /\ on[k] = held}
    /\ UNCHANGED <<pref, made, mode, calls, fields, loop, done, bounds, session, origin, got,
                   dialogs, staging, staged, live>>

-----------------------------------------------------------------------------
(* The background loop *)

\* The select may take a tick although the channel is closed too.
MDNSTick(s) ==
    /\ loop[s] = "select" /\ restarts < MaxRestarts
    /\ restarts' = restarts + 1
    /\ loop' = [loop EXCEPT ![s] = "restart"]
    /\ UNCHANGED <<pref, service, fields, done, pc, closing, faults, receiving>>

\* Mutant of restartMDNS: the running flag is not looked at again.
restartMDNSAnyway(s) ==
    /\ loop[s] = "restart" /\ lock[s] = "none"
    /\ loop' = [loop EXCEPT ![s] = "select"]
    /\ mdns' = [mdns EXCEPT ![s] = "open"]
    /\ UNCHANGED <<pref, service, running, host, lock, done, pc, closing, bounds, receiving>>

\* Under the mutex: the old service is closed; a failed start leaves it so.
restartMDNS(s) ==
    /\ loop[s] = "restart" /\ lock[s] = "none"
    /\ loop' = [loop EXCEPT ![s] = "select"]
    /\ IF running[s] /\ host[s] # "none"
       THEN \/ mdns' = [mdns EXCEPT ![s] = "open"] /\ UNCHANGED faults
            \/ mdns' = [mdns EXCEPT ![s] = "closed"] /\ Fault
       ELSE UNCHANGED <<mdns, faults>>
    /\ UNCHANGED <<pref, service, running, host, lock, done, pc, closing, restarts, receiving>>

LoopEnds(s) ==
    /\ loop[s] = "select" /\ done[s]
    /\ loop' = [loop EXCEPT ![s] = "ended"]
    /\ UNCHANGED <<pref, service, fields, done, pc, closing, bounds, receiving>>

-----------------------------------------------------------------------------
(* Sessions opened by trusted peers *)

\* Mutant of Notify: the session does not wait for the dialog.
NotifyLater(k) ==
    /\ session[k] = "opened" /\ At("window", "idle")
    /\ session' = [session EXCEPT ![k] = "read"]
    /\ UNCHANGED <<pref, service, fields, thread, bounds, origin, cut, got, dialogs, staging, staged, live>>

\* A stream is accepted while the host of the service is open.
SessionOpens(k, s) ==
    /\ session[k] = "none" /\ running[s] /\ host[s] = "open"
    /\ overlapped' = (overlapped \/ \E j \in Sessions \ cut :
                                       session[j] \in {"opened", "read", "more"})
    /\ session' = [session EXCEPT ![k] = "opened"] /\ on' = [on EXCEPT ![k] = s]
    /\ UNCHANGED <<pref, service, fields, thread, bounds, cut, dialogs, got, staging, staged, live>>

\* With a callback the session waits until the window shows its dialog.
Notify(k) ==
    /\ session[k] = "opened"
    /\ on[k] \in calls => At("window", "idle")
    /\ dialogs' = IF on[k] \in calls THEN dialogs \cup {k} ELSE dialogs
    /\ session' = [session EXCEPT ![k] = "read"]
    /\ UNCHANGED <<pref, service, fields, thread, bounds, origin, cut, got, staging, staged, live>>

\* receiveVault: an empty staging directory, one file after the other, then
\* the commit of whatever the directory holds.
ReceiveBegins(k) ==
    /\ session[k] = "read" /\ k \notin cut
    /\ staged' = TRUE /\ staging' = [f \in Files |-> Local]
    /\ session' = [session EXCEPT ![k] = "more"]
    /\ UNCHANGED <<pref, service, fields, thread, bounds, origin, cut, dialogs, got, live>>

ReceiveFile(k, f) ==
    /\ session[k] = "more" /\ k \notin cut /\ staged /\ f \notin got[k]
    /\ staging' = [staging EXCEPT ![f] = k] /\ got' = [got EXCEPT ![k] = @ \cup {f}]
    /\ UNCHANGED <<pref, service, fields, thread, bounds, session, origin, cut, dialogs, staged, live>>

\* Mutant of ReceiveEnds: an ended stream counts as the end of the transfer.
ReceiveEndsEarly(k) ==
    /\ session[k] = "more" /\ staged /\ got[k] # {}
    /\ live' = staging
    /\ staged' = FALSE /\ staging' = [f \in Files |-> Local]
    /\ session' = [session EXCEPT ![k] = "finished"]
    /\ UNCHANGED <<pref, service, fields, thread, bounds, origin, cut, dialogs, got>>

\* transfer_end: all files were sent.
ReceiveEnds(k) ==
    /\ session[k] = "more" /\ k \notin cut /\ staged /\ got[k] = Files
    /\ live' = staging
    /\ staged' = FALSE /\ staging' = [f \in Files |-> Local]
    /\ session' = [session EXCEPT ![k] = "finished"]
    /\ UNCHANGED <<pref, service, fields, thread, bounds, origin, cut, dialogs, got>>

\* The stream breaks or the directory is gone: what is staged is removed,
\* whoever staged it.
Broken(k) == IF k \in cut \/ (session[k] = "more" /\ ~staged) THEN UNCHANGED faults ELSE Fault
ReceiveFails(k) ==
    /\ session[k] = "more" /\ Broken(k)
    /\ staged' = FALSE /\ staging' = [f \in Files |-> Local]
    /\ session' = [session EXCEPT ![k] = "finished"]
    /\ UNCHANGED <<pref, service, fields, thread, restarts, origin, cut, dialogs, got, live>>

\* It breaks before a vault is received.
SessionFails(k) ==
    /\ session[k] = "read" /\ Broken(k)
    /\ session' = [session EXCEPT ![k] = "finished"]
    /\ UNCHANGED <<pref, service, fields, thread, restarts, origin, cut, dialogs, got, staging,
                   staged, live>>

\* The deferred call of done hides this session's dialog, in the window's loop.
SessionDone(k) ==
    /\ session[k] = "finished" /\ At("window", "idle")
    /\ session' = [session EXCEPT ![k] = "over"]
    /\ dialogs' = dialogs \ {k}
    /\ UNCHANGED <<pref, service, fields, thread, bounds, origin, cut, got, staging, staged, live>>

\* The user edits the vault; a dialog would be in the way.
Edit ==
    /\ At("window", "idle") /\ dialogs = {}
    /\ live' = [f \in Files |-> Local]
    /\ UNCHANGED <<pref, service, fields, thread, bounds, session, origin, cut, got, dialogs, staging, staged>>

-----------------------------------------------------------------------------
\* main reads the preferences; in an enabled mode it makes the first service,
\* the window registers its callbacks, and a goroutine starts it.
Init ==
    /\ pref \in Modes
    /\ made = (IF pref = "disabled" THEN 0 ELSE 1) /\ held = made /\ calls = {held} \ {0}
    /\ mode = [s \in Services |-> pref]
    /\ running = [s \in Services |-> FALSE]
    /\ host = [s \in Services |-> "none"] /\ mdns = [s \in Services |-> "none"]
    /\ lock = [s \in Services |-> "none"]
    /\ loop = [s \in Services |-> "none"] /\ done = [s \in Services |-> FALSE]
    /\ pc = [t \in Threads |-> IF t = "main" /\ held = 1 THEN "start" ELSE "idle"]
    /\ closing = {} /\ restarts = 0 /\ faults = 0
    /\ session = [k \in Sessions |-> "none"] /\ on = [k \in Sessions |-> 1]
    /\ overlapped = FALSE
    /\ cut = {} /\ got = [k \in Sessions |-> {}]
    /\ dialogs = {} /\ staged = FALSE
    /\ staging = [f \in Files |-> Local] /\ live = [f \in Files |-> Local]

StartSteps(t) == StartLock(t) \/ StartHost(t) \/ StartMDNS(t) \/ Started(t)
StopSteps == StopTake \/ StopClose
LoopSteps(s) == restartMDNS(s) \/ LoopEnds(s)
Receive(k) == \/ Notify(k) \/ ReceiveBegins(k) \/ SessionDone(k) \/ ReceiveFails(k) \/ SessionFails(k)
              \/ \E f \in Files : ReceiveFile(k, f)
              \/ ReceiveEnds(k)

Next == \/ \E t \in Threads : StartSteps(t)
        \/ \E m \in Modes : applySyncMode(m)
        \/ StopSteps \/ Edit
        \/ \E s \in Services : LoopSteps(s) \/ MDNSTick(s)
        \/ \E k \in Sessions : Receive(k) \/ \E s \in Services : SessionOpens(k, s)

\* Goroutines run, and a session ends by its five minute deadline.
Fairness == /\ \A t \in Threads : WF_vars(StartSteps(t))
            /\ WF_vars(StopSteps)
            /\ \A s \in Services : WF_vars(LoopSteps(s)) /\ WF_vars(LoopEnds(s))
            /\ \A k \in Sessions : WF_vars(Receive(k))
Spec == Init /\ [][Next]_vars /\ Fairness

-----------------------------------------------------------------------------
(* Properties *)

\* Every variable has its type; a mutex is held only by a thread inside Start.
TypeOK ==
    /\ pref \in Modes /\ held \in 0..made /\ made \in 0..MaxServices
    /\ mode \in [Services -> Modes] /\ calls \subseteq {1}
    /\ running \in [Services -> BOOLEAN]
    /\ host \in [Services -> {"none", "open", "closed"}]
    /\ mdns \in [Services -> {"none", "open", "closed"}]
    /\ lock \in [Services -> {"none"} \cup Threads]
    /\ \A s \in Services : lock[s] # "none" => At(lock[s], "host") \/ At(lock[s], "mdns")
    /\ loop \in [Services -> {"none", "select", "restart", "ended"}]
    /\ done \in [Services -> BOOLEAN]
    /\ pc \in [Threads -> {"idle", "start", "host", "mdns", "started", "stop", "wait"}]
    /\ closing \subseteq {"mdns", "host"} /\ restarts \in 0..MaxRestarts /\ faults \in 0..MaxFaults
    /\ session \in [Sessions -> {"none", "opened", "read", "more", "finished", "over"}]
    /\ on \in [Sessions -> Services] /\ overlapped \in BOOLEAN /\ cut \subseteq Sessions
    /\ got \in [Sessions -> SUBSET Files] /\ dialogs \subseteq Sessions
    /\ staging \in [Files -> Sessions \cup {Local}] /\ staged \in BOOLEAN
    /\ live \in [Files -> Sessions \cup {Local}]

\* However often the user changes the mode and whatever fails to start, no
\* two hosts of the one peer identity are in the network at a time.
HostOpen(s) == host[s] = "open" \/ (s = held /\ "host" \in closing)
OneHostAtATime == \A s, t \in Services : HostOpen(s) /\ HostOpen(t) => s = t

\* When Stop has returned its service is gone: no background loop, no mDNS,
\* no host, also when a restart of mDNS was waiting for the mutex.
StopLeavesNothing ==
    \A s \in Services : done[s] /\ ~At("window", "wait")
        => loop[s] = "ended" /\ mdns[s] # "open" /\ host[s] # "open"

\* The window is locked as long as a session on a service it has registered
\* its callbacks with may change files, also when sessions overlap.
LockedWhileReceiving ==
    \A k \in Sessions : session[k] \in {"read", "more"} /\ on[k] \in calls => k \in dialogs

\* As long as no two sessions are open at once, the vault is the copy of one
\* peer, never a mixture, also when a session breaks with its service and the
\* next one receives into the same directory.
VaultIsOneCopy == ~overlapped => \A f, g \in Files : live[f] = live[g]

\* Stop returns: the loop it waits for does not wait for it.
StopReturns == At("window", "stop") ~> At("window", "idle")

=============================================================================
