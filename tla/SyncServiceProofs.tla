---------------------------- MODULE SyncServiceProofs ----------------------------
(***************************************************************************)
(* Proofs about SyncService for any number of services, any finite set of  *)
(* sessions and any number of faults and restarts of mDNS.                 *)
(*                                                                         *)
(* ServiceInv says which service each thread is working on and what that   *)
(* service is like; SessionInv says who has written the staging directory. *)
(* The two are independent of each other.                                  *)
(***************************************************************************)
EXTENDS SyncService, TLAPS

Starting(t) == pc[t] \in {"start", "host", "mdns"}

\* A mutex is held exactly by the thread inside Start of that service.
LockInv ==
    /\ \A t \in Threads : At(t, "host") \/ At(t, "mdns") => lock[Mine(t)] = t
    /\ \A s \in Services : lock[s] # "none" =>
          Mine(lock[s]) = s /\ (At(lock[s], "host") \/ At(lock[s], "mdns"))

\* main starts the first service before the window can do anything.
MainInv ==
    /\ pc["main"] \in {"idle", "start", "host", "mdns", "started"}
    /\ Starting("main") => held = 1 /\ made = 1 /\ At("window", "idle")

\* The window starts a service only when the one it holds does not run, and
\* stops only one that runs.
WindowInv ==
    /\ Starting("window") \/ At("window", "started") =>
          held < made /\ (held # 0 => ~running[held])
    /\ At("window", "stop") => held # 0 /\ running[held]
    /\ At("window", "wait") => held # 0 /\ done[held]
    /\ closing # {} => At("window", "wait")

\* A host is open only in a service that runs or is just being started, and
\* only the service the window holds, or has just started, runs.
HostInv ==
    \A s \in Services :
       /\ host[s] = "open" => running[s] \/ \E t \in Threads : At(t, "mdns") /\ Mine(t) = s
       /\ running[s] => s = held \/ (At("window", "started") /\ s = made)

\* The life of a service: not made, started for the first time, running, and
\* stopped for good.
LifeInv ==
    \A s \in Services :
       /\ s > made => host[s] = "none"
       /\ s > made \/ (\E t \in Threads : Starting(t) /\ Mine(t) = s) =>
             ~running[s] /\ ~done[s] /\ loop[s] = "none" /\ mdns[s] = "none"
       /\ running[s] => loop[s] \in {"select", "restart"} /\ ~done[s]
       /\ done[s] => /\ mdns[s] # "open" /\ host[s] # "open" /\ loop[s] # "none"
                     /\ loop[s] = "ended" \/ (At("window", "wait") /\ s = held)

ServiceInv == LockInv /\ MainInv /\ WindowInv /\ HostInv /\ LifeInv

Active(k) == session[k] \in {"opened", "read", "more"}

\* While no two sessions were open at once, the files in the staging directory
\* are those of the one session that goes on; and a session that may change
\* files has its dialog.
SessionInv ==
    /\ \A k \in Sessions : session[k] \in {"none", "opened", "read"} => got[k] = {}
    /\ ~overlapped =>
          /\ \A j, k \in Sessions \ cut : Active(j) /\ Active(k) => j = k
          /\ staged => \A k \in Sessions \ cut :
                          session[k] = "more" => \A f \in got[k] : staging[f] = k
    /\ VaultIsOneCopy
    /\ LockedWhileReceiving

IInv == TypeOK /\ ServiceInv /\ SessionInv

\* The two halves of the program: its services, and the sessions on them.
ServiceTypes ==
    /\ pref \in Modes /\ held \in 0..made /\ made \in 0..MaxServices
    /\ mode \in [Services -> Modes] /\ calls \subseteq {1}
    /\ running \in [Services -> BOOLEAN]
    /\ host \in [Services -> {"none", "open", "closed"}]
    /\ mdns \in [Services -> {"none", "open", "closed"}]
    /\ lock \in [Services -> {"none"} \cup Threads]
    /\ loop \in [Services -> {"none", "select", "restart", "ended"}]
    /\ done \in [Services -> BOOLEAN]
    /\ pc \in [Threads -> {"idle", "start", "host", "mdns", "started", "stop", "wait"}]
    /\ closing \subseteq {"mdns", "host"}

BoundTypes == restarts \in 0..MaxRestarts /\ faults \in 0..MaxFaults

SessionTypes ==
    /\ session \in [Sessions -> {"none", "opened", "read", "more", "finished", "over"}]
    /\ on \in [Sessions -> Services] /\ overlapped \in BOOLEAN /\ cut \subseteq Sessions
    /\ got \in [Sessions -> SUBSET Files] /\ dialogs \subseteq Sessions
    /\ staging \in [Files -> Sessions \cup {Local}] /\ staged \in BOOLEAN
    /\ live \in [Files -> Sessions \cup {Local}]

ServiceStep ==
    \/ \E t \in Threads : StartSteps(t)
    \/ \E m \in Modes : applySyncMode(m)
    \/ StopSteps
    \/ \E s \in Services : LoopSteps(s) \/ MDNSTick(s)

SessionStep ==
    Edit \/ \E k \in Sessions : Receive(k) \/ \E s \in Services : SessionOpens(k, s)

--------------------------------------------------------------------------------
(* The two halves, and what each leaves alone of the other *)

LEMMA TypeParts == TypeOK => ServiceTypes /\ BoundTypes /\ SessionTypes
  BY DEF TypeOK, ServiceTypes, BoundTypes, SessionTypes

LEMMA StepParts == [Next]_vars => ServiceStep \/ SessionStep \/ UNCHANGED vars
  BY DEF Next, ServiceStep, SessionStep

\* Only StopClose touches the sessions: it cuts those of the service.
LEMMA ServiceFrame ==
    ServiceStep => /\ UNCHANGED <<session, origin, got, dialogs, staging, staged, live>>
                   /\ cut \subseteq cut' /\ cut' \subseteq cut \cup Sessions
  <1>1. ASSUME NEW t \in Threads, StartSteps(t)
        PROVE  UNCHANGED receiving
    BY <1>1 DEF StartSteps, StartLock, StartHost, StartMDNS, Started
  <1>2. ASSUME NEW m \in Modes, applySyncMode(m) PROVE UNCHANGED receiving
    BY <1>2 DEF applySyncMode
  <1>3. StopTake => UNCHANGED receiving
    BY DEF StopTake
  <1>4. ASSUME NEW s \in Services, LoopSteps(s) \/ MDNSTick(s) PROVE UNCHANGED receiving
    BY <1>4 DEF LoopSteps, restartMDNS, LoopEnds, MDNSTick
  <1>5. StopClose => /\ UNCHANGED <<session, origin, got, dialogs, staging, staged, live>>
                     /\ cut \subseteq cut' /\ cut' \subseteq cut \cup Sessions
    BY DEF StopClose
  <1> QED
    BY <1>1, <1>2, <1>3, <1>4, <1>5 DEF ServiceStep, StopSteps, receiving

LEMMA SessionFrame == SessionStep => UNCHANGED <<pref, service, fields, thread, restarts>>
  BY DEF SessionStep, Receive, Edit, SessionOpens, Notify, ReceiveBegins, SessionDone,
     ReceiveFails, SessionFails, ReceiveFile, ReceiveEnds, bounds

--------------------------------------------------------------------------------
(* Type correctness of the two halves *)

\* Every step of a service keeps its variables in their sets.
LEMMA ServiceTypesNext ==
    ServiceTypes /\ ServiceStep => ServiceTypes'
  <1> SUFFICES ASSUME ServiceTypes, ServiceStep
               PROVE  ServiceTypes'
    OBVIOUS
  <1> USE DEF ServiceTypes, Threads, service, fields, thread
  <1>1. ASSUME NEW t \in Threads, StartLock(t) PROVE ServiceTypes'
    BY <1>1 DEF StartLock, Goes
  <1>2. ASSUME NEW t \in Threads, StartHost(t) PROVE ServiceTypes'
    BY <1>2 DEF StartHost, Goes, Fault
  <1>3. ASSUME NEW t \in Threads, StartMDNS(t) PROVE ServiceTypes'
    <2> DEFINE s == Mine(t)
    <2>1. /\ mdns' \in {mdns, [mdns EXCEPT ![s] = "open"]}
          /\ loop' \in {loop, [loop EXCEPT ![s] = "select"]}
          /\ running' \in {running, [running EXCEPT ![s] = TRUE]}
          /\ host' \in {host, [host EXCEPT ![s] = "closed"]}
      BY <1>3 DEF StartMDNS
    <2>2. /\ lock' = [lock EXCEPT ![s] = "none"] /\ pc' = [pc EXCEPT ![t] = "started"]
          /\ UNCHANGED <<pref, held, made, mode, calls, done, closing>>
      BY <1>3 DEF StartMDNS, Goes
    <2> HIDE DEF s
    <2>3. mdns' \in [Services -> {"none", "open", "closed"}]
      BY <2>1
    <2>4. host' \in [Services -> {"none", "open", "closed"}]
      BY <2>1
    <2>5. loop' \in [Services -> {"none", "select", "restart", "ended"}]
      BY <2>1
    <2>6. running' \in [Services -> BOOLEAN]
      BY <2>1
    <2> QED
      BY <2>2, <2>3, <2>4, <2>5, <2>6
  <1>4. ASSUME NEW t \in Threads, Started(t) PROVE ServiceTypes'
    BY <1>4 DEF Started, Goes
  <1>5. ASSUME NEW m \in Modes, applySyncMode(m) PROVE ServiceTypes'
    BY <1>5, ServiceAssumption DEF applySyncMode, Goes, Services
  <1>6. CASE StopTake
    BY <1>6 DEF StopTake, Goes
  <1>7. CASE StopClose
    BY <1>7 DEF StopClose, Goes
  <1>8. ASSUME NEW s \in Services, restartMDNS(s) PROVE ServiceTypes'
    BY <1>8 DEF restartMDNS, Fault
  <1>9. ASSUME NEW s \in Services, LoopEnds(s) PROVE ServiceTypes'
    BY <1>9 DEF LoopEnds
  <1>10. ASSUME NEW s \in Services, MDNSTick(s) PROVE ServiceTypes'
    BY <1>10 DEF MDNSTick
  <1> QED
    BY <1>1, <1>2, <1>3, <1>4, <1>5, <1>6, <1>7, <1>8, <1>9, <1>10
       DEF ServiceStep, StartSteps, StopSteps, LoopSteps

\* Every step of a session keeps its variables in their sets.
LEMMA SessionTypesNext == SessionTypes /\ SessionStep => SessionTypes'
  <1> SUFFICES ASSUME SessionTypes, SessionStep PROVE SessionTypes'
    OBVIOUS
  <1> USE DEF SessionTypes, Local, origin
  <1>1. CASE Edit
    BY <1>1 DEF Edit
  <1>2. ASSUME NEW k \in Sessions, Notify(k) PROVE SessionTypes'
    BY <1>2 DEF Notify
  <1>3. ASSUME NEW k \in Sessions, ReceiveBegins(k) PROVE SessionTypes'
    BY <1>3 DEF ReceiveBegins
  <1>4. ASSUME NEW k \in Sessions, SessionDone(k) PROVE SessionTypes'
    BY <1>4 DEF SessionDone
  <1>5. ASSUME NEW k \in Sessions, ReceiveFails(k) PROVE SessionTypes'
    BY <1>5 DEF ReceiveFails
  <1>6. ASSUME NEW k \in Sessions, SessionFails(k) PROVE SessionTypes'
    BY <1>6 DEF SessionFails
  <1>7. ASSUME NEW k \in Sessions, NEW f \in Files, ReceiveFile(k, f) PROVE SessionTypes'
    BY <1>7 DEF ReceiveFile
  <1>8. ASSUME NEW k \in Sessions, ReceiveEnds(k) PROVE SessionTypes'
    BY <1>8 DEF ReceiveEnds
  <1>9. ASSUME NEW k \in Sessions, NEW s \in Services, SessionOpens(k, s) PROVE SessionTypes'
    BY <1>9 DEF SessionOpens
  <1> QED
    BY <1>1, <1>2, <1>3, <1>4, <1>5, <1>6, <1>7, <1>8, <1>9 DEF SessionStep, Receive

LEMMA BoundTypesNext == BoundTypes /\ (ServiceStep \/ SessionStep) => BoundTypes'
  <1> SUFFICES ASSUME BoundTypes, ServiceStep \/ SessionStep PROVE BoundTypes'
    OBVIOUS
  <1>1. \/ UNCHANGED bounds
        \/ UNCHANGED faults /\ restarts < MaxRestarts /\ restarts' = restarts + 1
        \/ UNCHANGED restarts /\ (UNCHANGED faults \/ Fault)
    <2>1. CASE ServiceStep
      BY <2>1 DEF ServiceStep, StartSteps, StopSteps, LoopSteps, StartLock, StartHost, StartMDNS,
         Started, applySyncMode, StopTake, StopClose, restartMDNS, LoopEnds, MDNSTick, bounds
    <2>2. CASE SessionStep
      BY <2>2 DEF SessionStep, Receive, Edit, SessionOpens, Notify, ReceiveBegins, SessionDone,
         ReceiveFails, SessionFails, ReceiveFile, ReceiveEnds, Broken, bounds
    <2> QED
      BY <2>1, <2>2
  <1> QED
    BY <1>1, ServiceAssumption DEF BoundTypes, Fault, bounds

--------------------------------------------------------------------------------
(* The services *)

LEMMA ServicesStay == ServiceInv /\ UNCHANGED <<pref, service, fields, thread>> => ServiceInv'
  BY DEF service, fields, thread, ServiceInv, LockInv, MainInv, WindowInv, HostInv, LifeInv,
     Starting, Mine, At

\* Every step of a thread or of a loop keeps the service as its life has it.
LEMMA ServiceInvNext == ServiceTypes /\ ServiceInv /\ ServiceStep => ServiceInv'
  <1> SUFFICES ASSUME ServiceTypes, ServiceInv, ServiceStep PROVE ServiceInv'
    OBVIOUS
  <1> USE DEF ServiceTypes, ServiceInv, LockInv, MainInv, WindowInv, HostInv, LifeInv, Starting,
          Mine, At, Threads, service, fields, thread
  <1>1. ASSUME NEW t \in Threads, StartLock(t) PROVE ServiceInv'
    BY <1>1, ServiceAssumption DEF StartLock, Goes, Services
  <1>2. ASSUME NEW t \in Threads, StartHost(t) PROVE ServiceInv'
    BY <1>2 DEF StartHost, Goes, Fault
  <1>3. ASSUME NEW t \in Threads, StartMDNS(t) PROVE ServiceInv'
    BY <1>3, ServiceAssumption DEF StartMDNS, Goes, Fault, Services
  <1>4. ASSUME NEW t \in Threads, Started(t) PROVE ServiceInv'
    BY <1>4, ServiceAssumption DEF Started, Goes, Services
  <1>5. ASSUME NEW m \in Modes, applySyncMode(m) PROVE ServiceInv'
    <2>1. LockInv' /\ MainInv'
      BY <1>5 DEF applySyncMode, Goes, Free
    <2>2. WindowInv' /\ HostInv'
      BY <1>5, ServiceAssumption DEF applySyncMode, Goes, IsRunning, Services
    <2>3. LifeInv'
      BY <1>5, ServiceAssumption DEF applySyncMode, Goes, IsRunning, Services
    <2> QED
      BY <2>1, <2>2, <2>3
  <1>6. CASE StopTake
    <2>1. LockInv'
      BY <1>6 DEF StopTake, Goes
    <2>2. MainInv'
      BY <1>6 DEF StopTake, Goes
    <2>3. WindowInv'
      <3> HIDE DEF HostInv, LifeInv
      <3> QED
        BY <1>6, ServiceAssumption DEF StopTake, Goes, Services
    <2>4. HostInv'
      <3> HIDE DEF LifeInv
      <3> QED
        BY <1>6 DEF StopTake, Goes
    <2>5. LifeInv'
      BY <1>6 DEF StopTake, Goes
    <2> QED
      BY <2>1, <2>2, <2>3, <2>4, <2>5
  <1>7. CASE StopClose
    BY <1>7 DEF StopClose, Goes
  <1>8. ASSUME NEW s \in Services, restartMDNS(s) PROVE ServiceInv'
    BY <1>8 DEF restartMDNS, Fault
  <1>9. ASSUME NEW s \in Services, LoopEnds(s) PROVE ServiceInv'
    BY <1>9 DEF LoopEnds
  <1>10. ASSUME NEW s \in Services, MDNSTick(s) PROVE ServiceInv'
    BY <1>10 DEF MDNSTick
  <1> HIDE DEF ServiceTypes, ServiceInv, LockInv, MainInv, WindowInv, HostInv, LifeInv,
          Starting, Mine, At, Threads, service, fields, thread
  <1> QED
    BY <1>1, <1>2, <1>3, <1>4, <1>5, <1>6, <1>7, <1>8, <1>9, <1>10
       DEF ServiceStep, StartSteps, StopSteps, LoopSteps

LEMMA NextService == TypeOK /\ ServiceInv /\ [Next]_vars => ServiceInv'
  BY StepParts, TypeParts, ServiceInvNext, SessionFrame, ServicesStay DEF vars

LEMMA NextType == TypeOK /\ ServiceInv /\ [Next]_vars => TypeOK'
  <1> SUFFICES ASSUME TypeOK, ServiceInv, [Next]_vars
               PROVE  ServiceTypes' /\ BoundTypes' /\ SessionTypes'
    BY NextService DEF TypeOK, ServiceTypes, BoundTypes, SessionTypes, ServiceInv, LockInv
  <1> ServiceTypes /\ BoundTypes /\ SessionTypes
    BY TypeParts
  <1>1. CASE ServiceStep
    BY <1>1, ServiceTypesNext, BoundTypesNext, ServiceFrame DEF ServiceInv, SessionTypes, origin
  <1>2. CASE SessionStep
    BY <1>2, SessionTypesNext, BoundTypesNext, SessionFrame
       DEF ServiceTypes, service, fields, thread
  <1>3. CASE UNCHANGED vars
    BY <1>3 DEF ServiceTypes, BoundTypes, SessionTypes, vars, service, fields, thread, bounds,
       receiving, origin
  <1> QED
    BY <1>1, <1>2, <1>3, StepParts


--------------------------------------------------------------------------------
(* The sessions *)

LEMMA SessionInvNext == SessionTypes /\ SessionInv /\ SessionStep => SessionInv'
  <1> SUFFICES ASSUME SessionTypes, SessionInv, SessionStep PROVE SessionInv'
    OBVIOUS
  <1> USE DEF SessionTypes, SessionInv, Active, VaultIsOneCopy, LockedWhileReceiving, origin,
          service
  <1>1. CASE Edit
    BY <1>1 DEF Edit
  <1>2. ASSUME NEW k \in Sessions, Notify(k) PROVE SessionInv'
    BY <1>2 DEF Notify
  <1>3. ASSUME NEW k \in Sessions, ReceiveBegins(k) PROVE SessionInv'
    BY <1>3 DEF ReceiveBegins
  <1>4. ASSUME NEW k \in Sessions, SessionDone(k) PROVE SessionInv'
    BY <1>4 DEF SessionDone
  <1>5. ASSUME NEW k \in Sessions, ReceiveFails(k) PROVE SessionInv'
    BY <1>5 DEF ReceiveFails
  <1>6. ASSUME NEW k \in Sessions, SessionFails(k) PROVE SessionInv'
    BY <1>6 DEF SessionFails
  <1>7. ASSUME NEW k \in Sessions, NEW f \in Files, ReceiveFile(k, f) PROVE SessionInv'
    BY <1>7 DEF ReceiveFile
  <1>8. ASSUME NEW k \in Sessions, ReceiveEnds(k) PROVE SessionInv'
    BY <1>8 DEF ReceiveEnds
  <1>9. ASSUME NEW k \in Sessions, NEW s \in Services, SessionOpens(k, s) PROVE SessionInv'
    <2>1. ~overlapped' => ~overlapped /\ \A j \in Sessions \ cut : ~Active(j)
      BY <1>9 DEF SessionOpens
    <2>2. /\ UNCHANGED <<cut, got, staging, staged, live, dialogs, calls>>
          /\ \A j \in Sessions : j # k => session'[j] = session[j] /\ on'[j] = on[j]
          /\ session[k] = "none" /\ session'[k] = "opened"
      BY <1>9 DEF SessionOpens
    <2> QED
      BY <2>1, <2>2
  <1> QED
    BY <1>1, <1>2, <1>3, <1>4, <1>5, <1>6, <1>7, <1>8, <1>9 DEF SessionStep, Receive

\* A service leaves the sessions alone, or cuts some of them.
LEMMA SessionsStay ==
    ASSUME SessionInv, calls' = calls,
           UNCHANGED <<session, origin, got, dialogs, staging, staged, live>>, cut \subseteq cut'
    PROVE  SessionInv'
  BY DEF SessionInv, Active, VaultIsOneCopy, LockedWhileReceiving, origin

LEMMA CallsStay == ServiceStep => calls' = calls
  BY DEF ServiceStep, StartSteps, StopSteps, LoopSteps, StartLock, StartHost, StartMDNS,
     Started, applySyncMode, StopTake, StopClose, restartMDNS, LoopEnds, MDNSTick, service

LEMMA NextSession == TypeOK /\ SessionInv /\ [Next]_vars => SessionInv'
  BY StepParts, TypeParts, SessionInvNext, ServiceFrame, SessionsStay, CallsStay
     DEF vars, service, receiving

--------------------------------------------------------------------------------
(* The specification *)

LEMMA InitIInv == Init => IInv
  <1> SUFFICES ASSUME Init PROVE IInv
    OBVIOUS
  <1> USE ServiceAssumption DEF Init
  <1>1. TypeOK
    <2>1. ServiceTypes
      BY DEF ServiceTypes
    <2>2. BoundTypes
      BY DEF BoundTypes
    <2>3. SessionTypes
      <3>1. 1 \in Services
        BY DEF Services
      <3> QED
        BY <3>1 DEF SessionTypes
    <2> QED
      BY <2>1, <2>2, <2>3 DEF TypeOK, ServiceTypes, BoundTypes, SessionTypes
  <1>2. ServiceInv
    BY DEF ServiceInv, LockInv, MainInv, WindowInv, HostInv, LifeInv, Starting, Mine, At,
       Threads, Services
  <1>3. SessionInv
    BY DEF SessionInv, Active, VaultIsOneCopy, LockedWhileReceiving
  <1> QED
    BY <1>1, <1>2, <1>3 DEF IInv

\* IInv holds in every state the program reaches.
THEOREM Inductive == Spec => []IInv
  <1>1. IInv /\ [Next]_vars => IInv'
    BY NextType, NextService, NextSession DEF IInv
  <1> QED
    BY <1>1, InitIInv, PTL DEF Spec

\* Every variable of the services and of their sessions keeps its type, and a
\* mutex is held only by a thread inside Start (service.go, Start).
THEOREM TypeCorrect == Spec => []TypeOK
  <1>1. IInv => TypeOK
    BY DEF IInv
  <1> QED
    BY <1>1, Inductive, PTL

\* However the mode is changed and whatever fails to start, the hosts of two
\* services are never in the network at a time (service.go, Start and Stop).
THEOREM HostsExcludeEachOther == Spec => []OneHostAtATime
  <1>1. IInv => OneHostAtATime
    <2> SUFFICES ASSUME IInv, NEW s \in Services, NEW t \in Services, HostOpen(s), HostOpen(t)
                 PROVE  s = t
      BY DEF OneHostAtATime
    <2> USE DEF IInv, ServiceInv, MainInv, WindowInv, HostInv, Starting, Mine, At, Threads,
            HostOpen
    <2>1. CASE At("window", "mdns") \/ At("window", "started")
      <3>1. closing = {} /\ held # made /\ ~Starting("main")
        BY <2>1 DEF TypeOK
      <3>2. ASSUME NEW u \in Services, host[u] = "open" PROVE u = made
        BY <2>1, <3>1, <3>2 DEF Services
      <3> QED
        BY <3>1, <3>2
    <2>2. CASE At("main", "mdns")
      BY <2>2
    <2>3. CASE ~At("window", "mdns") /\ ~At("window", "started") /\ ~At("main", "mdns")
      BY <2>3
    <2> QED
      BY <2>1, <2>2, <2>3
  <1> QED
    BY <1>1, Inductive, PTL

\* A service that was stopped has no loop, no mDNS and no host, whatever its
\* loop was about to restart (service.go, Stop and restartMDNS).
THEOREM StoppedForGood == Spec => []StopLeavesNothing
  <1>1. IInv => StopLeavesNothing
    BY DEF IInv, ServiceInv, LifeInv, StopLeavesNothing
  <1> QED
    BY <1>1, Inductive, PTL

\* No session of a service with callbacks changes files while the user could
\* edit them (discovery.go, the dialog of a session).
THEOREM WindowLocked == Spec => []LockedWhileReceiving
  <1>1. IInv => LockedWhileReceiving
    BY DEF IInv, SessionInv
  <1> QED
    BY <1>1, Inductive, PTL

\* While no two sessions were open at once, the one staging directory is never
\* committed with the files of two peers in it (handler.go, receiveVault).
THEOREM CommitIsOneCopy == Spec => []VaultIsOneCopy
  <1>1. IInv => VaultIsOneCopy
    BY DEF IInv, SessionInv
  <1> QED
    BY <1>1, Inductive, PTL

================================================================================
