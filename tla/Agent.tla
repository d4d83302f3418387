------------------------------- MODULE Agent --------------------------------
(***************************************************************************)
(* The agent: a process (usm cli agent start, or the window's own          *)
(* goroutine) that serves a UNIX socket, keeps the keys of unlocked vaults *)
(* by session and holds the SSH keys of the items marked "add to agent".   *)
(* Its clients are separate processes: the command line, one process for   *)
(* each message of the browser extension, and the window.                  *)
(*                                                                         *)
(* A handler of the agent runs under its mutex and is one step.  A client  *)
(* is several: it connects, asks for a password, sends its request and     *)
(* goes through the items of the vault, and other clients, a second agent, *)
(* a hang-up signal or a kill come between any two of its steps.           *)
(***************************************************************************)
EXTENDS Naturals, Sequences, FiniteSets, TLC

CONSTANTS
    Instances,   \* processes that may start an agent, once each
    Clients,     \* processes of the command line and of the browser
    Vaults,
    FirstVault,  \* the vault that exists from the beginning
    SSHItems,    \* the SSH keys stored in FirstVault
    None,
    MaxSessions, \* sessions opened in a behaviour
    MaxCommands, \* commands begun in a behaviour, those of the window too,
    MaxKeyCommands, \* ... where the vault has SSH keys
    MaxFaults    \* kills, hang-ups and items that cannot be loaded
ASSUME AgentAssumption ==
    /\ FirstVault \in Vaults
    /\ None \notin Instances \cup Vaults \cup Clients
    /\ MaxSessions \in Nat /\ MaxCommands \in Nat /\ MaxKeyCommands \in Nat
    /\ MaxFaults \in Nat

VARIABLES
    agents,  \* each instance: where it is in Run, its sessions and SSH keys
    socket,  \* the instance the socket's path leads to, alive or not
    opened,  \* every session ever opened, in order: its vault and lifetime
    made,    \* the vaults that exist
    wanted,  \* the SSH items stored with "add to agent"
    listed,  \* the SSH items the vault has
    cmds,    \* what each client, and the window, is doing
    budget,  \* how many commands may still begin
    faults,
    ended,   \* history: sessions that a lock, their lifetime or a signal ended
    locks,   \* history: sessions a lock command has promised to close
    overlap  \* history: two instances were starting at the same time
vars == <<agents, socket, opened, made, wanted, listed, cmds, budget, faults,
          ended, locks, overlap>>
disk == <<made, wanted, listed>>
history == <<ended, locks, overlap>>

Window == "window"
Actors == Clients \cup {Window}
Ids == 1..Len(opened)

Idle == [op |-> "idle", vault |-> None, agent |-> None, at |-> "idle",
         todo |-> {}, calm |-> FALSE, began |-> {},
         barred |-> {}, given |-> 0, item |-> None]

(* The agent a new connection reaches: the path leads to a living process. *)
Reached == IF socket # None /\ agents[socket].at = "serving"
           THEN socket ELSE None
Alive(a) == a # None /\ agents[a].at = "serving"

Init == /\ agents = [a \in Instances |->
                       [at |-> "off", sessions |-> {}, keys |-> {}]]
        /\ socket = None
        /\ opened = <<>>
        /\ made = {FirstVault}
        /\ \/ listed = {} /\ budget = MaxCommands
           \/ listed = SSHItems /\ budget = MaxKeyCommands
        /\ wanted \in SUBSET listed
        /\ cmds = [p \in Actors |-> Idle]
        /\ faults = 0
        /\ ended = {} /\ locks = {} /\ overlap = FALSE

(* History: a command is calm while it has been the only one at work, the   *)
(* agent has not been disturbed and it has met no error.                    *)
Disturbed == [p \in Actors |-> [cmds[p] EXCEPT !.calm = FALSE]]

-----------------------------------------------------------------------------
(* The agent process. *)

Starting(a) == agents[a].at \in {"checked", "cleared"}

(* Mutant: a start does not look for a running agent. *)
CheckRunningSkipped(a) ==
    /\ agents[a].at = "off"
    /\ agents' = [agents EXCEPT ![a].at = "checked"]
    /\ overlap' = (overlap \/ \E b \in Instances : Starting(b))
    /\ UNCHANGED <<budget, socket, opened, disk, cmds, faults, ended, locks>>
(* main and AgentCmd.Run look for a running agent before they start one;    *)
(* if there is one the command exits and the window uses it.                *)
CheckRunning(a) ==
    /\ agents[a].at = "off" /\ Reached = None
    /\ agents' = [agents EXCEPT ![a].at = "checked"]
    /\ overlap' = (overlap \/ \E b \in Instances : Starting(b))
    /\ UNCHANGED <<budget, socket, opened, disk, cmds, faults, ended, locks>>

(* Run takes a socket that is at the path for stale and removes it. *)
ClearSocket(a) ==
    /\ agents[a].at = "checked"
    /\ socket' = None
    /\ agents' = [agents EXCEPT ![a].at = "cleared"]
    /\ cmds' = Disturbed
    /\ UNCHANGED <<budget, opened, disk, faults, history>>

(* A path that is taken again by now ends the process (log.Fatalln), which  *)
(* for the window's own agent is the window itself.                         *)
Listen(a) ==
    /\ agents[a].at = "cleared"
    /\ IF socket = None
       THEN /\ socket' = a
            /\ agents' = [agents EXCEPT ![a].at = "serving"]
       ELSE /\ agents' = [agents EXCEPT ![a].at = "failed"]
            /\ UNCHANGED socket
    /\ cmds' = Disturbed
    /\ UNCHANGED <<budget, opened, disk, faults, history>>

(* A kill runs no deferred call: the socket stays in the file system.       *)
Kill(a) ==
    /\ faults < MaxFaults
    /\ agents[a].at \in {"checked", "cleared", "serving"}
    /\ agents' = [agents EXCEPT ![a] = [at |-> "killed", sessions |-> {},
                                        keys |-> {}]]
    /\ ended' = ended \cup agents[a].sessions
    /\ cmds' = Disturbed
    /\ faults' = faults + 1
    /\ UNCHANGED <<budget, socket, opened, disk, locks, overlap>>

(* SIGHUP closes the agent's sessions and keys; it goes on serving. *)
Close(a) ==
    /\ faults < MaxFaults /\ agents[a].at = "serving"
    /\ agents' = [agents EXCEPT ![a].sessions = {}, ![a].keys = {}]
    /\ ended' = ended \cup agents[a].sessions
    /\ cmds' = Disturbed
    /\ faults' = faults + 1
    /\ UNCHANGED <<budget, socket, opened, disk, locks, overlap>>

(* The lifetime of a session runs out. *)
Expire(id) ==
    /\ opened[id].life = "limited"
    /\ opened' = [opened EXCEPT ![id].life = "over"]
    /\ ended' = ended \cup {id}
    /\ UNCHANGED <<budget, agents, socket, disk, cmds,
                   faults, locks, overlap>>

-----------------------------------------------------------------------------
(* processSessionRequest: the answers of the agent, each under its mutex. *)

(* Key: the session is known, has not expired and is one of this vault.     *)
GivesKey(a, id, v) == /\ Alive(a)
                      /\ id \in agents[a].sessions
                      /\ opened[id].life # "over"
                      /\ opened[id].vault = v
(* ... and an expired session that is asked for is deleted. *)
AfterKey(a, id) == IF Alive(a) /\ opened[id].life = "over"
                   THEN [agents EXCEPT ![a].sessions = @ \ {id}] ELSE agents
(* Mutant: the loop of Lock stops after the first session it finds. *)
AfterLockOfOne(a, v) ==
    [agents EXCEPT ![a].sessions =
        LET mine == {id \in @ : opened[id].vault = v} IN
        IF mine = {} THEN @ ELSE @ \ {CHOOSE id \in mine : TRUE}]
(* Lock: every session of the vault goes. *)
AfterLock(a, v) ==
    [agents EXCEPT ![a].sessions = {id \in @ : opened[id].vault # v}]
(* Unlock: a new session, that ends or not. *)
AfterUnlock(a, id) == [agents EXCEPT ![a].sessions = @ \cup {id}]

-----------------------------------------------------------------------------
(* A command starts: lock and unlock of the command line, unlock and create *)
(* of the browser, and a read of either with a session's key.  The browser  *)
(* never asks for a lock.                                                   *)

Ops == {"lock", "unlock", "browse", "create", "read"}

Begin(p, op, v, a, k) ==
    [Idle EXCEPT !.op = op, !.vault = v, !.agent = a, !.at = "begun",
                 !.calm = (op \notin {"browse", "create", "read"} /\
                            \A q \in Actors : cmds[q].at = "idle"),
                 !.began = IF op = "lock" THEN Ids ELSE {},
                 !.barred = IF op \in {"unlock", "read"} THEN locks ELSE {},
                 !.item = k]

Connect(p, op, v) ==
    /\ budget > 0 /\ budget' = budget - 1
    /\ cmds[p].at = "idle" /\ Reached # None
    /\ op # "create" => v \in made
    /\ cmds' = [Disturbed EXCEPT ![p] = Begin(p, op, v, Reached, None)]
    /\ UNCHANGED <<agents, socket, opened, disk, faults, history>>

Goes(p, at) == cmds' = [cmds EXCEPT ![p].at = at]
Fails(p) == cmds' = [cmds EXCEPT ![p] = Idle]

(* loadVaultKey: the session named in the environment, asked for on a new   *)
(* connection, otherwise the password.  The browser has no session yet.     *)
AskKey(p) ==
    /\ cmds[p].at = "begun" /\ cmds[p].op \in {"unlock", "browse"}
    /\ Goes(p, "keyed") \/ Fails(p)
    /\ UNCHANGED <<budget, agents, socket, opened, disk, faults, history>>
SessionKey(p, id) ==
    LET a == IF cmds[p].op = "read" THEN cmds[p].agent ELSE Reached IN
    /\ cmds[p].at = "begun" /\ cmds[p].op \in {"unlock", "read"}
    /\ a # None
    /\ agents' = AfterKey(a, id)
    /\ IF GivesKey(a, id, cmds[p].vault)
       THEN cmds' = [cmds EXCEPT
                ![p].at = IF cmds[p].op = "read" THEN "done" ELSE "keyed",
                ![p].given = id]
       ELSE IF cmds[p].op = "read" THEN Fails(p) ELSE UNCHANGED cmds
    /\ UNCHANGED <<budget, socket, opened, disk, faults, history>>

(* The browser's create makes the vault before it asks for a session; a     *)
(* name that is taken is an error.                                          *)
MakeVault(p) ==
    /\ cmds[p].at = "begun" /\ cmds[p].op = "create"
    /\ IF cmds[p].vault \in made
       THEN Fails(p) /\ UNCHANGED made
       ELSE Goes(p, "keyed") /\ made' = made \cup {cmds[p].vault}
    /\ UNCHANGED <<budget, agents, socket, opened, wanted,
                   listed, faults, history>>

(* Unlock with the key that was read before; only the command line goes on  *)
(* to the SSH keys, and only it may limit the session's life.               *)
Unlock(p, life) ==
    LET a == cmds[p].agent
        id == Len(opened) + 1 IN
    /\ cmds[p].at = "keyed"
    /\ cmds[p].op # "unlock" => life = "forever"
    /\ IF Alive(a)
       THEN /\ Len(opened) < MaxSessions
            /\ opened' = Append(opened,
                                [vault |-> cmds[p].vault, life |-> life])
            /\ agents' = AfterUnlock(a, id)
            /\ Goes(p, IF cmds[p].op = "unlock" THEN "sshkeys" ELSE "done")
       ELSE Fails(p) /\ UNCHANGED <<opened, agents>>
    /\ UNCHANGED <<budget, socket, disk, faults, history>>

(* Lock the vault in the agent; an agent that is gone is an error. *)
Lock(p) ==
    LET c == cmds[p] IN
    /\ c.at = "begun" /\ c.op = "lock"
    /\ IF Alive(c.agent)
       THEN /\ agents' = AfterLock(c.agent, c.vault)
            /\ ended' = ended \cup {id \in agents[c.agent].sessions :
                                      opened[id].vault = c.vault}
            /\ locks' = locks \cup {id \in c.began : opened[id].vault = c.vault}
            /\ Goes(p, "sshkeys")
       ELSE Fails(p) /\ UNCHANGED <<agents, ended, locks>>
    /\ UNCHANGED <<budget, socket, opened, disk, faults, overlap>>

(* LoadVault for the SSH keys: lock asks for the password again first, and  *)
(* reports the vault locked whatever comes of it.                           *)
LoadVault(p) ==
    /\ cmds[p].at = "sshkeys"
    /\ \/ cmds' = [cmds EXCEPT ![p].at = "range", ![p].todo =
                     IF cmds[p].vault = FirstVault THEN listed ELSE {}]
       \/ Fails(p)
    /\ UNCHANGED <<budget, agents, socket, opened, disk, faults, history>>

(* Mutant: an item not meant for the agent ends the loop. *)
HandleKeyOrStop(p, k) ==
    LET a == IF p = Window THEN Reached ELSE cmds[p].agent IN
    /\ cmds[p].at = "range" /\ k \in cmds[p].todo /\ k \in listed
    /\ cmds' = [cmds EXCEPT ![p].todo = IF k \in wanted THEN @ \ {k} ELSE {},
                            ![p].calm = @ /\ Alive(a)]
    /\ IF k \in wanted /\ Alive(a)
       THEN agents' = [agents EXCEPT ![a].keys =
                IF cmds[p].op = "lock" THEN @ \ {k} ELSE @ \cup {k}]
       ELSE UNCHANGED agents
    /\ UNCHANGED <<budget, socket, opened, disk, faults, history>>
(* One item of vault.Range.  An item that cannot be loaded stops the loop;  *)
(* an item not meant for the agent, or a refusal of the agent, does not.    *)
(* The window connects anew for each key and goes on without an agent.      *)
HandleKey(p, k) ==
    LET a == IF p = Window THEN Reached ELSE cmds[p].agent IN
    /\ cmds[p].at = "range" /\ k \in cmds[p].todo /\ k \in listed
    /\ cmds' = [cmds EXCEPT ![p].todo = @ \ {k},
                            ![p].calm = @ /\ Alive(a)]
    /\ IF k \in wanted /\ Alive(a)
       THEN agents' = [agents EXCEPT ![a].keys =
                IF cmds[p].op = "lock" THEN @ \ {k} ELSE @ \cup {k}]
       ELSE UNCHANGED agents
    /\ UNCHANGED <<budget, socket, opened, disk, faults, history>>
ItemUnreadable(p, k) ==
    /\ cmds[p].at = "range" /\ k \in cmds[p].todo
    /\ k \in listed => faults < MaxFaults
    /\ faults' = IF k \in listed THEN faults + 1 ELSE faults
    /\ Fails(p)
    /\ UNCHANGED <<budget, agents, socket, opened, disk, history>>
Ranged(p) ==
    /\ cmds[p].at = "range" /\ cmds[p].todo = {}
    /\ Goes(p, "done")
    /\ UNCHANGED <<budget, agents, socket, opened, disk, faults, history>>

Exit(p) ==
    /\ cmds[p].at = "done"
    /\ cmds' = [cmds EXCEPT ![p] = Idle]
    /\ UNCHANGED <<budget, agents, socket, opened, disk, faults, history>>

-----------------------------------------------------------------------------
(* The window.  Its steps run in one thread, beside the other processes.    *)

(* A vault unlocked in the window puts its keys into the agent. *)
AddSSHKeysToAgent ==
    /\ budget > 0 /\ budget' = budget - 1
    /\ cmds[Window].at = "idle"
    /\ cmds' = [Disturbed EXCEPT ![Window] =
         [Begin(Window, "show", FirstVault, None, None) EXCEPT
            !.at = "range", !.todo = listed]]
    /\ UNCHANGED <<agents, socket, opened, disk, faults, history>>

(* OnSave: the item is stored with its preference, the key is taken out of  *)
(* the agent and put back if the preference asks for it.                    *)
SaveItem(k, want) ==
    /\ budget > 0 /\ budget' = budget - 1
    /\ cmds[Window].at = "idle" /\ k \in listed
    /\ wanted' = IF want THEN wanted \cup {k} ELSE wanted \ {k}
    /\ cmds' = [Disturbed EXCEPT ![Window] =
         [Begin(Window, IF want THEN "keep" ELSE "drop", FirstVault, None, k)
            EXCEPT !.at = "stored"]]
    /\ UNCHANGED <<agents, socket, opened, made, listed, faults, history>>
(* OnDelete: the item's file goes, then its key. *)
DeleteItem(k) ==
    /\ budget > 0 /\ budget' = budget - 1
    /\ cmds[Window].at = "idle" /\ k \in listed
    /\ listed' = listed \ {k}
    /\ cmds' = [Disturbed EXCEPT ![Window] =
         [Begin(Window, "drop", FirstVault, None, k) EXCEPT !.at = "stored"]]
    /\ UNCHANGED <<agents, socket, opened, made, wanted, faults, history>>
RemoveSSHKeyFromAgent ==
    /\ cmds[Window].at = "stored"
    /\ agents' = IF Reached = None THEN agents
                 ELSE [agents EXCEPT ![Reached].keys = @ \ {cmds[Window].item}]
    /\ cmds' = [cmds EXCEPT
         ![Window].at = IF cmds[Window].op = "keep" THEN "removed" ELSE "done",
         ![Window].calm = @ /\ Reached # None]
    /\ UNCHANGED <<budget, socket, opened, disk, faults, history>>
AddSSHKeyToAgent ==
    /\ cmds[Window].at = "removed"
    /\ agents' = IF Reached = None THEN agents
                 ELSE [agents EXCEPT
                         ![Reached].keys = @ \cup {cmds[Window].item}]
    /\ cmds' = [cmds EXCEPT ![Window].at = "done",
                            ![Window].calm = @ /\ Reached # None]
    /\ UNCHANGED <<budget, socket, opened, disk, faults, history>>

-----------------------------------------------------------------------------
Next == \/ \E a \in Instances : \/ CheckRunning(a) \/ ClearSocket(a)
                                \/ Listen(a) \/ Kill(a) \/ Close(a)
        \/ \E id \in Ids : Expire(id)
        \/ \E p \in Clients :
             \/ \E op \in Ops, v \in Vaults : Connect(p, op, v)
             \/ AskKey(p) \/ MakeVault(p) \/ Lock(p) \/ LoadVault(p)
             \/ \E id \in Ids : SessionKey(p, id)
             \/ \E life \in {"forever", "limited"} : Unlock(p, life)
        \/ \E p \in Actors :
             \/ \E k \in SSHItems : HandleKey(p, k) \/ ItemUnreadable(p, k)
             \/ Ranged(p) \/ Exit(p)
        \/ AddSSHKeysToAgent \/ RemoveSSHKeyFromAgent \/ AddSSHKeyToAgent
        \/ \E k \in SSHItems : \/ DeleteItem(k)
                               \/ \E want \in BOOLEAN : SaveItem(k, want)

Symmetry == Permutations(Instances) \cup Permutations(Clients)
            \cup Permutations(SSHItems)
Spec == Init /\ [][Next]_vars

-----------------------------------------------------------------------------
(* Type invariant.  A process that is not serving holds nothing.            *)
TypeOK ==
    /\ \A a \in Instances :
         /\ agents[a].at \in {"off", "checked", "cleared", "serving", "failed",
                              "killed"}
         /\ agents[a].sessions \subseteq Ids
         /\ agents[a].keys \subseteq SSHItems
         /\ agents[a].at # "serving" =>
              agents[a].sessions = {} /\ agents[a].keys = {}
    /\ socket \in Instances \cup {None}
    /\ \A id \in Ids : opened[id].vault \in made
    /\ wanted \subseteq SSHItems /\ listed \subseteq SSHItems
    /\ \A p \in Actors : /\ cmds[p].todo \subseteq SSHItems
                         /\ cmds[p].at = "idle" <=> cmds[p] = Idle
    /\ ended \cup locks \subseteq Ids

(* Once "usm cli lock" has locked a vault, no command that begins later is  *)
(* given the vault's key by a session opened before that lock: whatever     *)
(* other clients did meanwhile, and although a second agent may have taken  *)
(* over the socket.  (LockCmd: "removing all the associated sessions".)     *)
LockHolds == \A p \in Actors : cmds[p].given \notin cmds[p].barred

(* A session works until it is locked, its time is over or its agent is     *)
(* hung up or killed: locking another vault, a second start of the agent or *)
(* of the window, or a request for an expired session takes it from nobody. *)
(* (Two agents that start at the same moment may: see overlap.)             *)
SessionsSurvive ==
    ~overlap => \A id \in Ids \ ended :
                   Reached # None /\ id \in agents[Reached].sessions

(* What the agent holds after a command that met no error and no other      *)
(* command: after an unlock every key the vault wants there, after a lock   *)
(* none of them, after a save or a delete in the window what the stored     *)
(* preference says, whatever items the loop passed before.                  *)
KeysFollowTheCommand ==
    \A p \in Actors :
      LET c == cmds[p]
          a == IF p = Window THEN Reached ELSE c.agent
          keys == agents[a].keys IN
      c.at = "done" /\ c.calm /\ Alive(a) =>
        CASE c.op \in {"unlock", "show"} /\ c.vault = FirstVault ->
                                        wanted \cap listed \subseteq keys
          [] c.op = "lock" /\ c.vault = FirstVault ->
                                        wanted \cap listed \cap keys = {}
          [] c.op = "keep" -> c.item \in keys
          [] c.op = "drop" -> c.item \notin keys
          [] OTHER -> TRUE

=============================================================================
