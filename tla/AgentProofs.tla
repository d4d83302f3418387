---------------------------- MODULE AgentProofs ----------------------------
(***************************************************************************)
(* Proofs about Agent for any number of instances, clients, vaults, keys,  *)
(* sessions, commands and faults.                                          *)
(*                                                                         *)
(* An instance listens once.  LockInv rests on that: a session a lock has  *)
(* promised to close is held, if at all, by an agent the socket has left   *)
(* for good.  SurviveInv says which agent has the sessions that live, and  *)
(* which agents there are as long as no two started together.  KeyInv      *)
(* follows a command that nothing disturbs through its loop over the keys. *)
(***************************************************************************)
EXTENDS Agent, TLAPS

AgentAts == {"off", "checked", "cleared", "serving", "failed", "killed"}
AgentRec == [at : AgentAts, sessions : SUBSET Nat, keys : SUBSET SSHItems]

CmdOps == Ops \cup {"idle", "show", "keep", "drop"}
CmdAts == {"idle", "begun", "keyed", "sshkeys", "range", "stored", "removed", "done"}
VaultArgs == Vaults \cup {None}
AgentArgs == Instances \cup {None}
ItemArgs == SSHItems \cup {None}
CmdRec == [op : CmdOps, vault : VaultArgs, agent : AgentArgs, at : CmdAts,
           todo : SUBSET SSHItems, calm : BOOLEAN, began : SUBSET Nat, barred : SUBSET Nat,
           given : Nat, item : ItemArgs]

OpenedRec == [vault : Vaults, life : {"forever", "limited", "over"}]

AgentTypes == agents \in [Instances -> AgentRec] /\ socket \in AgentArgs
CmdTypes == cmds \in [Actors -> CmdRec]
OpenedTypes == opened \in Seq(OpenedRec)
SetTypes == made \subseteq Vaults /\ wanted \subseteq SSHItems /\ listed \subseteq SSHItems
Types == AgentTypes /\ CmdTypes /\ OpenedTypes /\ SetTypes /\ overlap \in BOOLEAN

\* A process that does not serve holds nothing.
AgentInv ==
    /\ \A a \in Instances :
          /\ agents[a].sessions \subseteq Ids
          /\ agents[a].at # "serving" => agents[a].sessions = {} /\ agents[a].keys = {}
    /\ ended \subseteq Ids /\ locks \subseteq Ids

\* A command knows only sessions that were opened, and vaults that exist.
CmdOK(c) ==
    /\ c.at = "idle" <=> c = Idle
    /\ c.began \subseteq Ids /\ c.barred \subseteq locks
    /\ c.at = "begun" => c.agent # None /\ c.vault \in Vaults
    /\ c.at = "begun" /\ c.op # "create" => c.vault \in made
    /\ c.at = "keyed" => c.vault \in made
    /\ c.at \in {"stored", "removed"} => c.item \in SSHItems
CmdInv == \A p \in Actors : CmdOK(cmds[p])

VaultsMade == \A id \in Ids : opened[id].vault \in made

\* The sessions in S are in no agent a connection can still reach.
Unreachable(S) == \A a \in Instances : socket = a => S \cap agents[a].sessions = {}

LockInv ==
    /\ Unreachable(locks)
    /\ \A p \in Actors : LET c == cmds[p] IN
          /\ c.at = "begun" /\ c.op = "read" => c.barred \cap agents[c.agent].sessions = {}
          /\ c.at = "begun" /\ c.op = "lock" =>
                \A a \in Instances : socket = a /\ a # c.agent =>
                                        c.began \cap agents[a].sessions = {}
    /\ LockHolds

\* An agent that starts is the only one that starts or serves, and the one
\* that serves is at the socket.
Alone == /\ \A a, b \in Instances : Starting(a) /\ Starting(b) => a = b
         /\ \A a, b \in Instances : Starting(a) => ~Alive(b)
         /\ \A a \in Instances : Alive(a) => socket = a
\* Every session that has not ended is in an agent that serves.
Kept == \A id \in Ids \ ended : \E a \in Instances : Alive(a) /\ id \in agents[a].sessions
OverEnded == \A id \in Ids : opened[id].life = "over" => id \in ended
SurviveInv == OverEnded /\ Kept /\ (~overlap => Alone)

\* The agent the keys of a command go to.
Target(p) == IF p = Window THEN Reached ELSE cmds[p].agent
Due == wanted \cap listed

\* What a command that nothing disturbs is doing.
Course(c) ==
    /\ c.at \in {"begun", "sshkeys"} => c.op \in {"lock", "unlock"}
    /\ c.at = "keyed" => c.op = "unlock"
    /\ c.at = "range" => c.op \in {"lock", "unlock", "show"}
    /\ c.at = "stored" => c.op \in {"keep", "drop"}
    /\ c.at = "removed" => c.op = "keep"

\* What the agent holds while the command is on its way.
Follows(c, keys, due) ==
    /\ c.vault = FirstVault /\ c.op \in {"unlock", "show"} =>
          /\ c.at = "range" => due \ c.todo \subseteq keys
          /\ c.at = "done" => due \subseteq keys
    /\ c.vault = FirstVault /\ c.op = "lock" =>
          /\ c.at = "range" => due \cap keys \subseteq c.todo
          /\ c.at = "done" => due \cap keys = {}
    /\ c.at = "done" /\ c.op = "keep" => c.item \in keys
    /\ c.at = "done" /\ c.op = "drop" => c.item \notin keys

Solo(p) == \A q \in Actors \ {p} : cmds[q].at = "idle"
Calm(p) == /\ Solo(p) /\ Course(cmds[p])
           /\ Alive(Target(p)) => Follows(cmds[p], agents[Target(p)].keys, Due)
KeyInv == \A p \in Actors : cmds[p].calm => Calm(p)

IInv == /\ Types /\ AgentInv /\ CmdInv /\ VaultsMade
        /\ LockInv /\ SurviveInv /\ KeyInv

-----------------------------------------------------------------------------
(* Types *)

LEMMA IdleRec == Idle \in CmdRec
  BY DEF Idle, CmdRec, CmdOps, CmdAts, VaultArgs, AgentArgs, ItemArgs

LEMMA CalmRec == \A c \in CmdRec, b \in BOOLEAN : [c EXCEPT !.calm = b] \in CmdRec
  BY DEF CmdRec

\* A command that goes on to x, and one whose loop goes on to the keys in S.
LEMMA NextRec ==
    ASSUME NEW c \in CmdRec, NEW x \in CmdAts, NEW S \in SUBSET SSHItems,
           NEW b \in BOOLEAN
    PROVE  /\ [c EXCEPT !.at = x] \in CmdRec
           /\ [c EXCEPT !.at = x, !.todo = S] \in CmdRec
           /\ [c EXCEPT !.todo = S, !.calm = b] \in CmdRec
  <1>1. [c EXCEPT !.at = x] \in CmdRec
    BY DEF CmdRec
  <1>2. [c EXCEPT !.at = x, !.todo = S] \in CmdRec
    BY DEF CmdRec
  <1>3. [c EXCEPT !.todo = S, !.calm = b] \in CmdRec
    BY DEF CmdRec
  <1> QED
    BY <1>1, <1>2, <1>3

LEMMA DisturbedRec == CmdTypes => Disturbed \in [Actors -> CmdRec]
  BY CalmRec DEF CmdTypes, Disturbed

LEMMA IdsNat == OpenedTypes => Ids \subseteq Nat
  BY DEF OpenedTypes, Ids

\* A command with nothing left to go through and no session given to it.
LEMMA CommandRec ==
    ASSUME NEW op \in CmdOps, NEW v \in VaultArgs, NEW a \in AgentArgs, NEW x \in CmdAts,
           NEW calm \in BOOLEAN, NEW began \in SUBSET Nat, NEW barred \in SUBSET Nat,
           NEW k \in ItemArgs
    PROVE  [op |-> op, vault |-> v, agent |-> a, at |-> x, todo |-> {},
            calm |-> calm, began |-> began, barred |-> barred, given |-> 0, item |-> k]
              \in CmdRec
  BY DEF CmdRec

\* The command a client begins, and the one the window does.
LEMMA BeginRec ==
    ASSUME AgentInv, OpenedTypes, NEW p, NEW op \in CmdOps, NEW v \in VaultArgs,
           NEW a \in AgentArgs, NEW k \in ItemArgs
    PROVE  Begin(p, op, v, a, k) \in CmdRec
  <1>1. "begun" \in CmdAts
    BY DEF CmdAts
  <1> QED
    <2> DEFINE calm == op \notin {"browse", "create", "read"} /\
                          \A q \in Actors : cmds[q].at = "idle"
               began == IF op = "lock" THEN Ids ELSE {}
               barred == IF op \in {"unlock", "read"} THEN locks ELSE {}
    <2>1. calm \in BOOLEAN
      OBVIOUS
    <2>3. began \in SUBSET Nat /\ barred \in SUBSET Nat
      <3>1. Ids \subseteq Nat /\ locks \subseteq Ids
        BY IdsNat DEF AgentInv
      <3> QED
        BY <3>1
    <2>2. Begin(p, op, v, a, k) =
             [Idle EXCEPT !.op = op, !.vault = v, !.agent = a, !.at = "begun",
                          !.calm = calm, !.began = began, !.barred = barred, !.item = k]
      BY Zenon DEF Begin
    <2> HIDE DEF calm, began, barred
    <2>4. Begin(p, op, v, a, k) =
             [op |-> op, vault |-> v, agent |-> a, at |-> "begun", todo |-> {},
              calm |-> calm, began |-> began, barred |-> barred, given |-> 0, item |-> k]
      BY <2>2 DEF Idle
    <2>5. [op |-> op, vault |-> v, agent |-> a, at |-> "begun", todo |-> {},
           calm |-> calm, began |-> began, barred |-> barred, given |-> 0, item |-> k]
             \in CmdRec
      BY <1>1, <2>1, <2>3, CommandRec, Zenon
    <2> QED
      BY <2>4, <2>5, Zenon

LEMMA WindowRec ==
    ASSUME AgentInv, OpenedTypes, SetTypes, NEW op \in {"show", "keep", "drop"},
           NEW k \in ItemArgs, NEW x \in CmdAts, NEW S \in SUBSET SSHItems
    PROVE  /\ [Begin(Window, op, FirstVault, None, k) EXCEPT !.at = x] \in CmdRec
           /\ [Begin(Window, op, FirstVault, None, k) EXCEPT !.at = x, !.todo = S] \in CmdRec
  <1>1. Begin(Window, op, FirstVault, None, k) \in CmdRec
    BY BeginRec, AgentAssumption DEF CmdOps, VaultArgs, AgentArgs
  <1> QED
    BY <1>1 DEF CmdRec

LEMMA AgentTypesNext == Types /\ CmdInv /\ [Next]_vars => AgentTypes'
  <1> SUFFICES ASSUME Types, CmdInv, [Next]_vars PROVE AgentTypes'
    OBVIOUS
  <1> USE DEF Types
  <1>1. ASSUME NEW a \in Instances, CheckRunning(a) PROVE AgentTypes'
    BY <1>1 DEF CheckRunning, AgentTypes, AgentRec, AgentAts, AgentArgs
  <1>2. ASSUME NEW a \in Instances, ClearSocket(a) PROVE AgentTypes'
    BY <1>2 DEF ClearSocket, AgentTypes, AgentRec, AgentAts, AgentArgs
  <1>3. ASSUME NEW a \in Instances, Listen(a) PROVE AgentTypes'
    BY <1>3 DEF Listen, AgentTypes, AgentRec, AgentAts, AgentArgs
  <1>4. ASSUME NEW a \in Instances, Kill(a) PROVE AgentTypes'
    BY <1>4 DEF Kill, AgentTypes, AgentRec, AgentAts, AgentArgs
  <1>5. ASSUME NEW a \in Instances, Close(a) PROVE AgentTypes'
    BY <1>5 DEF Close, AgentTypes, AgentRec, AgentAts, AgentArgs
  <1>6. ASSUME NEW id \in Ids, Expire(id) PROVE AgentTypes'
    BY <1>6 DEF Expire, AgentTypes
  <1>7. ASSUME NEW p \in Clients, NEW op \in Ops, NEW v \in Vaults, Connect(p, op, v)
        PROVE  AgentTypes'
    BY <1>7 DEF Connect, AgentTypes
  <1>8. ASSUME NEW p \in Clients, AskKey(p) PROVE AgentTypes'
    BY <1>8 DEF AskKey, AgentTypes
  <1>9. ASSUME NEW p \in Clients, NEW id \in Ids, SessionKey(p, id) PROVE AgentTypes'
    <2> DEFINE a == IF cmds[p].op = "read" THEN cmds[p].agent ELSE Reached
    <2>1. agents' = AfterKey(a, id) /\ UNCHANGED socket /\ a \in AgentArgs
      BY <1>9 DEF SessionKey, CmdTypes, CmdRec, Reached, AgentTypes, AgentArgs, Actors
    <2>2. CASE UNCHANGED agents
      BY <2>1, <2>2 DEF AgentTypes
    <2>3. CASE a \in Instances /\ agents' = [agents EXCEPT ![a].sessions = @ \ {id}]
      BY <2>1, <2>3 DEF AgentTypes, AgentRec
    <2> QED
      BY <2>1, <2>2, <2>3 DEF AfterKey, AgentArgs, Alive
  <1>10. ASSUME NEW p \in Clients, MakeVault(p) PROVE AgentTypes'
    BY <1>10 DEF MakeVault, AgentTypes
  <1>11. ASSUME NEW p \in Clients, NEW life \in {"forever", "limited"}, Unlock(p, life)
        PROVE  AgentTypes'
    <2> DEFINE a == cmds[p].agent
    <2>1. CASE UNCHANGED agents
      BY <1>11, <2>1 DEF AgentTypes, Unlock
    <2>2. CASE /\ a \in Instances
               /\ agents' = [agents EXCEPT ![a].sessions = @ \cup {Len(opened) + 1}]
      BY <1>11, <2>2 DEF AgentTypes, AgentRec, Unlock, OpenedTypes
    <2>3. a \in AgentArgs
      BY DEF CmdTypes, CmdRec, Actors
    <2> QED
      BY <1>11, <2>1, <2>2, <2>3 DEF Unlock, AfterUnlock, AgentArgs, Alive
  <1>12. ASSUME NEW p \in Clients, Lock(p) PROVE AgentTypes'
    <2> DEFINE a == cmds[p].agent
    <2>1. CASE UNCHANGED agents
      BY <1>12, <2>1 DEF AgentTypes, Lock
    <2>2. CASE a \in Instances /\ agents' = AfterLock(a, cmds[p].vault)
      BY <1>12, <2>2 DEF AgentTypes, AgentRec, Lock, AfterLock
    <2>3. a \in AgentArgs
      BY DEF CmdTypes, CmdRec, Actors
    <2> QED
      BY <1>12, <2>1, <2>2, <2>3 DEF Lock, AgentArgs, Alive
  <1>13. ASSUME NEW p \in Clients, LoadVault(p) PROVE AgentTypes'
    BY <1>13 DEF LoadVault, AgentTypes
  <1>14. ASSUME NEW p \in Actors, NEW k \in SSHItems, HandleKey(p, k) PROVE AgentTypes'
    <2> DEFINE a == IF p = Window THEN Reached ELSE cmds[p].agent
    <2>1. CASE UNCHANGED agents
      BY <1>14, <2>1 DEF AgentTypes, HandleKey
    <2>2. CASE /\ a \in Instances
               /\ \E S \in {agents[a].keys \ {k}, agents[a].keys \cup {k}} :
                     agents' = [agents EXCEPT ![a].keys = S]
      <3>1. PICK S \in {agents[a].keys \ {k}, agents[a].keys \cup {k}} :
                    agents' = [agents EXCEPT ![a].keys = S]
        BY <2>2
      <3>2. agents[a] \in AgentRec /\ S \subseteq SSHItems
        BY <2>2, <3>1 DEF AgentTypes, AgentRec
      <3>3. [agents[a] EXCEPT !.keys = S] \in AgentRec
        BY <3>2 DEF AgentRec
      <3>4. socket' = socket
        BY <1>14 DEF HandleKey
      <3> QED
        BY <2>2, <3>1, <3>3, <3>4 DEF AgentTypes
    <2>3. a \in AgentArgs
      BY DEF CmdTypes, CmdRec, AgentTypes, AgentArgs, Reached
    <2> QED
      BY <1>14, <2>1, <2>2, <2>3 DEF HandleKey, AgentArgs, Alive
  <1>15. ASSUME NEW p \in Actors, NEW k \in SSHItems, ItemUnreadable(p, k)
        PROVE  AgentTypes'
    BY <1>15 DEF ItemUnreadable, AgentTypes
  <1>16. ASSUME NEW p \in Actors, Ranged(p) PROVE AgentTypes'
    BY <1>16 DEF Ranged, AgentTypes
  <1>17. ASSUME NEW p \in Actors, Exit(p) PROVE AgentTypes'
    BY <1>17 DEF Exit, AgentTypes
  <1>18. CASE AddSSHKeysToAgent
    BY <1>18 DEF AddSSHKeysToAgent, AgentTypes
  <1>19. CASE RemoveSSHKeyFromAgent
    <2>1. CASE UNCHANGED agents
      BY <1>19, <2>1 DEF AgentTypes, RemoveSSHKeyFromAgent
    <2>2. CASE Reached \in Instances /\ Reached # None
      <3>1. cmds[Window].at = "removed" => cmds[Window].item \in SSHItems
        BY DEF CmdInv, CmdOK, Actors
      <3> QED
        BY <1>19, <2>2, <3>1 DEF AgentTypes, AgentRec, RemoveSSHKeyFromAgent
    <2>3. Reached \in AgentArgs
      BY DEF AgentTypes, AgentArgs, Reached
    <2> QED
      BY <1>19, <2>1, <2>2, <2>3 DEF RemoveSSHKeyFromAgent, AgentArgs
  <1>20. CASE AddSSHKeyToAgent
    <2>1. CASE UNCHANGED agents
      BY <1>20, <2>1 DEF AgentTypes, AddSSHKeyToAgent
    <2>2. CASE Reached \in Instances /\ Reached # None
      <3>1. cmds[Window].at = "removed" => cmds[Window].item \in SSHItems
        BY DEF CmdInv, CmdOK, Actors
      <3> QED
        BY <1>20, <2>2, <3>1 DEF AgentTypes, AgentRec, AddSSHKeyToAgent
    <2>3. Reached \in AgentArgs
      BY DEF AgentTypes, AgentArgs, Reached
    <2> QED
      BY <1>20, <2>1, <2>2, <2>3 DEF AddSSHKeyToAgent, AgentArgs
  <1>21. ASSUME NEW k \in SSHItems, DeleteItem(k) PROVE AgentTypes'
    BY <1>21 DEF DeleteItem, AgentTypes
  <1>22. ASSUME NEW k \in SSHItems, NEW want \in BOOLEAN, SaveItem(k, want)
        PROVE  AgentTypes'
    BY <1>22 DEF SaveItem, AgentTypes
  <1>23. CASE UNCHANGED vars
    BY <1>23 DEF vars, AgentTypes
  <1> QED
    BY <1>1, <1>2, <1>3, <1>4, <1>5, <1>6, <1>7, <1>8, <1>9, <1>10, <1>11, <1>12, <1>13,
       <1>14, <1>15, <1>16, <1>17, <1>18, <1>19, <1>20, <1>21, <1>22, <1>23
       DEF Next

LEMMA CmdTypesNext == Types /\ AgentInv /\ [Next]_vars => CmdTypes'
  <1> SUFFICES ASSUME Types, AgentInv, [Next]_vars PROVE CmdTypes'
    OBVIOUS
  <1> USE DEF Types
  <1>1. ASSUME NEW a \in Instances, CheckRunning(a) PROVE CmdTypes'
    BY <1>1 DEF CheckRunning, CmdTypes
  <1>2. ASSUME NEW a \in Instances, ClearSocket(a) PROVE CmdTypes'
    BY <1>2, DisturbedRec DEF ClearSocket, CmdTypes
  <1>3. ASSUME NEW a \in Instances, Listen(a) PROVE CmdTypes'
    BY <1>3, DisturbedRec DEF Listen, CmdTypes
  <1>4. ASSUME NEW a \in Instances, Kill(a) PROVE CmdTypes'
    BY <1>4, DisturbedRec DEF Kill, CmdTypes
  <1>5. ASSUME NEW a \in Instances, Close(a) PROVE CmdTypes'
    BY <1>5, DisturbedRec DEF Close, CmdTypes
  <1>6. ASSUME NEW id \in Ids, Expire(id) PROVE CmdTypes'
    BY <1>6 DEF Expire, CmdTypes
  <1>7. ASSUME NEW p \in Clients, NEW op \in Ops, NEW v \in Vaults, Connect(p, op, v)
        PROVE  CmdTypes'
    <2>1. Begin(p, op, v, Reached, None) \in CmdRec
      BY BeginRec DEF CmdOps, VaultArgs, AgentArgs, ItemArgs, Reached, AgentTypes
    <2> QED
      BY <1>7, <2>1, DisturbedRec DEF CmdTypes, Connect
  <1>8. ASSUME NEW p \in Clients, AskKey(p) PROVE CmdTypes'
    <2>1. CASE \E x \in CmdAts : cmds' = [cmds EXCEPT ![p].at = x]
      BY <2>1 DEF CmdTypes, CmdRec, Actors
    <2>2. CASE cmds' = [cmds EXCEPT ![p] = Idle]
      BY <2>2, IdleRec DEF CmdTypes
    <2> QED
      BY <1>8, <2>1, <2>2 DEF AskKey, Goes, Fails, CmdAts
  <1>9. ASSUME NEW p \in Clients, NEW id \in Ids, SessionKey(p, id) PROVE CmdTypes'
    BY <1>9, IdleRec, IdsNat DEF SessionKey, CmdTypes, Fails, CmdRec, CmdAts
  <1>10. ASSUME NEW p \in Clients, MakeVault(p) PROVE CmdTypes'
    <2>1. CASE \E x \in CmdAts : cmds' = [cmds EXCEPT ![p].at = x]
      BY <2>1 DEF CmdTypes, CmdRec, Actors
    <2>2. CASE cmds' = [cmds EXCEPT ![p] = Idle]
      BY <2>2, IdleRec DEF CmdTypes
    <2> QED
      BY <1>10, <2>1, <2>2 DEF MakeVault, Goes, Fails, CmdAts
  <1>11. ASSUME NEW p \in Clients, NEW life \in {"forever", "limited"}, Unlock(p, life)
        PROVE  CmdTypes'
    <2>1. CASE \E x \in CmdAts : cmds' = [cmds EXCEPT ![p].at = x]
      BY <2>1 DEF CmdTypes, CmdRec, Actors
    <2>2. CASE cmds' = [cmds EXCEPT ![p] = Idle]
      BY <2>2, IdleRec DEF CmdTypes
    <2> QED
      BY <1>11, <2>1, <2>2 DEF Unlock, Goes, Fails, CmdAts
  <1>12. ASSUME NEW p \in Clients, Lock(p) PROVE CmdTypes'
    <2>1. CASE \E x \in CmdAts : cmds' = [cmds EXCEPT ![p].at = x]
      BY <2>1 DEF CmdTypes, CmdRec, Actors
    <2>2. CASE cmds' = [cmds EXCEPT ![p] = Idle]
      BY <2>2, IdleRec DEF CmdTypes
    <2> QED
      BY <1>12, <2>1, <2>2 DEF Lock, Goes, Fails, CmdAts
  <1>13. ASSUME NEW p \in Clients, LoadVault(p) PROVE CmdTypes'
    <2> DEFINE S == IF cmds[p].vault = FirstVault THEN listed ELSE {}
    <2>1. CASE ~Fails(p)
      <3>1. cmds' = [cmds EXCEPT ![p] = [cmds[p] EXCEPT !.at = "range", !.todo = S]]
        BY <1>13, <2>1 DEF LoadVault, CmdTypes
      <3>2. cmds[p] \in CmdRec /\ S \in SUBSET SSHItems /\ "range" \in CmdAts
        BY DEF CmdTypes, CmdAts, Actors, SetTypes
      <3> HIDE DEF S
      <3>3. [cmds[p] EXCEPT !.at = "range", !.todo = S] \in CmdRec
        BY <3>2, NextRec
      <3> QED
        BY <3>1, <3>3 DEF CmdTypes
    <2>2. CASE Fails(p)
      BY <2>2, IdleRec DEF Fails, CmdTypes
    <2> QED
      BY <2>1, <2>2
  <1>14. ASSUME NEW p \in Actors, NEW k \in SSHItems, HandleKey(p, k) PROVE CmdTypes'
    <2> DEFINE S == cmds[p].todo \ {k}
               b == cmds[p].calm /\ Alive(IF p = Window THEN Reached ELSE cmds[p].agent)
               r == [cmds[p] EXCEPT !.todo = S, !.calm = b]
    <2>1. cmds[p] \in CmdRec
      BY DEF CmdTypes
    <2>2. cmds[p].todo \in SUBSET SSHItems
      BY <2>1 DEF CmdRec
    <2>3. r \in CmdRec
      BY <2>1, <2>2, NextRec DEF CmdAts
    <2>4. cmds' = [cmds EXCEPT ![p] = r]
      BY <1>14 DEF HandleKey, CmdTypes
    <2> HIDE DEF r
    <2> QED
      BY <2>3, <2>4 DEF CmdTypes
  <1>15. ASSUME NEW p \in Actors, NEW k \in SSHItems, ItemUnreadable(p, k)
        PROVE  CmdTypes'
    <2>1. CASE \E x \in CmdAts : cmds' = [cmds EXCEPT ![p].at = x]
      BY <2>1 DEF CmdTypes, CmdRec, Actors
    <2>2. CASE cmds' = [cmds EXCEPT ![p] = Idle]
      BY <2>2, IdleRec DEF CmdTypes
    <2> QED
      BY <1>15, <2>1, <2>2 DEF ItemUnreadable, Fails, CmdAts
  <1>16. ASSUME NEW p \in Actors, Ranged(p) PROVE CmdTypes'
    <2>1. CASE \E x \in CmdAts : cmds' = [cmds EXCEPT ![p].at = x]
      BY <2>1 DEF CmdTypes, CmdRec, Actors
    <2>2. CASE cmds' = [cmds EXCEPT ![p] = Idle]
      BY <2>2, IdleRec DEF CmdTypes
    <2> QED
      BY <1>16, <2>1, <2>2 DEF Ranged, Goes, CmdAts
  <1>17. ASSUME NEW p \in Actors, Exit(p) PROVE CmdTypes'
    <2>1. CASE \E x \in CmdAts : cmds' = [cmds EXCEPT ![p].at = x]
      BY <2>1 DEF CmdTypes, CmdRec, Actors
    <2>2. CASE cmds' = [cmds EXCEPT ![p] = Idle]
      BY <2>2, IdleRec DEF CmdTypes
    <2> QED
      BY <1>17, <2>1, <2>2 DEF Exit, CmdAts
  <1>18. CASE AddSSHKeysToAgent
    <2>1. [Begin(Window, "show", FirstVault, None, None) EXCEPT !.at = "range", !.todo = listed]
             \in CmdRec
      BY WindowRec DEF CmdAts, ItemArgs, SetTypes
    <2> QED
      BY <1>18, <2>1, DisturbedRec DEF CmdTypes, AddSSHKeysToAgent
  <1>19. CASE RemoveSSHKeyFromAgent
    <2>1. Window \in Actors
      BY DEF Actors
    <2>2. PICK x \in CmdAts, b \in BOOLEAN :
             cmds' = [cmds EXCEPT ![Window].at = x, ![Window].calm = b]
      BY <1>19, <2>1 DEF RemoveSSHKeyFromAgent, CmdAts, CmdTypes, CmdRec
    <2>3. [cmds[Window] EXCEPT !.at = x, !.calm = b] \in CmdRec
      BY <2>1 DEF CmdTypes, CmdRec
    <2> QED
      BY <2>1, <2>2, <2>3 DEF CmdTypes
  <1>20. CASE AddSSHKeyToAgent
    <2>1. Window \in Actors
      BY DEF Actors
    <2>2. PICK x \in CmdAts, b \in BOOLEAN :
             cmds' = [cmds EXCEPT ![Window].at = x, ![Window].calm = b]
      BY <1>20, <2>1 DEF AddSSHKeyToAgent, CmdAts, CmdTypes, CmdRec
    <2>3. [cmds[Window] EXCEPT !.at = x, !.calm = b] \in CmdRec
      BY <2>1 DEF CmdTypes, CmdRec
    <2> QED
      BY <2>1, <2>2, <2>3 DEF CmdTypes
  <1>21. ASSUME NEW k \in SSHItems, DeleteItem(k) PROVE CmdTypes'
    <2>1. [Begin(Window, "drop", FirstVault, None, k) EXCEPT !.at = "stored"] \in CmdRec
      BY WindowRec DEF CmdAts, ItemArgs
    <2> QED
      BY <1>21, <2>1, DisturbedRec DEF CmdTypes, DeleteItem
  <1>22. ASSUME NEW k \in SSHItems, NEW want \in BOOLEAN, SaveItem(k, want)
        PROVE  CmdTypes'
    <2>1. \A op \in {"keep", "drop"} :
             [Begin(Window, op, FirstVault, None, k) EXCEPT !.at = "stored"] \in CmdRec
      BY WindowRec DEF CmdAts, ItemArgs
    <2> QED
      BY <1>22, <2>1, DisturbedRec DEF CmdTypes, SaveItem
  <1>23. CASE UNCHANGED vars
    BY <1>23 DEF vars, CmdTypes
  <1> QED
    BY <1>1, <1>2, <1>3, <1>4, <1>5, <1>6, <1>7, <1>8, <1>9, <1>10, <1>11, <1>12, <1>13,
       <1>14, <1>15, <1>16, <1>17, <1>18, <1>19, <1>20, <1>21, <1>22, <1>23
       DEF Next

\* Only two steps change the list of sessions: one ends, or one is opened.
LEMMA OpenedSteps ==
    [Next]_vars => \/ UNCHANGED opened
                   \/ \E id \in Ids : Expire(id)
                   \/ \E p \in Clients, life \in {"forever", "limited"} :
                         /\ Unlock(p, life) /\ cmds[p].at = "keyed"
                         /\ opened' = Append(opened, [vault |-> cmds[p].vault, life |-> life])
  <1> SUFFICES ASSUME [Next]_vars
               PROVE  \/ UNCHANGED opened
                      \/ \E id \in Ids : Expire(id)
                      \/ \E p \in Clients, life \in {"forever", "limited"} :
                            /\ Unlock(p, life) /\ cmds[p].at = "keyed"
                            /\ opened' = Append(opened,
                                          [vault |-> cmds[p].vault, life |-> life])
    OBVIOUS
  <1>1. ASSUME NEW a \in Instances, CheckRunning(a) PROVE UNCHANGED opened
    BY <1>1 DEF CheckRunning
  <1>2. ASSUME NEW a \in Instances, ClearSocket(a) PROVE UNCHANGED opened
    BY <1>2 DEF ClearSocket
  <1>3. ASSUME NEW a \in Instances, Listen(a) PROVE UNCHANGED opened
    BY <1>3 DEF Listen
  <1>4. ASSUME NEW a \in Instances, Kill(a) PROVE UNCHANGED opened
    BY <1>4 DEF Kill
  <1>5. ASSUME NEW a \in Instances, Close(a) PROVE UNCHANGED opened
    BY <1>5 DEF Close
  <1>6. ASSUME NEW p \in Clients, NEW op \in Ops, NEW v \in Vaults, Connect(p, op, v)
        PROVE  UNCHANGED opened
    BY <1>6 DEF Connect
  <1>7. ASSUME NEW p \in Clients, AskKey(p) PROVE UNCHANGED opened
    BY <1>7 DEF AskKey
  <1>8. ASSUME NEW p \in Clients, NEW id \in Ids, SessionKey(p, id)
        PROVE  UNCHANGED opened
    BY <1>8 DEF SessionKey
  <1>9. ASSUME NEW p \in Clients, MakeVault(p) PROVE UNCHANGED opened
    BY <1>9 DEF MakeVault
  <1>10. ASSUME NEW p \in Clients, NEW life \in {"forever", "limited"}, Unlock(p, life)
         PROVE  \/ UNCHANGED opened
                \/ /\ cmds[p].at = "keyed"
                   /\ opened' = Append(opened, [vault |-> cmds[p].vault, life |-> life])
    BY <1>10 DEF Unlock
  <1>11. ASSUME NEW p \in Clients, Lock(p) PROVE UNCHANGED opened
    BY <1>11 DEF Lock
  <1>12. ASSUME NEW p \in Clients, LoadVault(p) PROVE UNCHANGED opened
    BY <1>12 DEF LoadVault
  <1>13. ASSUME NEW p \in Actors, NEW k \in SSHItems, HandleKey(p, k)
         PROVE  UNCHANGED opened
    BY <1>13 DEF HandleKey
  <1>14. ASSUME NEW p \in Actors, NEW k \in SSHItems, ItemUnreadable(p, k)
         PROVE  UNCHANGED opened
    BY <1>14 DEF ItemUnreadable
  <1>15. ASSUME NEW p \in Actors, Ranged(p) \/ Exit(p) PROVE UNCHANGED opened
    BY <1>15 DEF Ranged, Exit
  <1>16. ASSUME AddSSHKeysToAgent \/ RemoveSSHKeyFromAgent \/ AddSSHKeyToAgent
         PROVE  UNCHANGED opened
    BY <1>16 DEF AddSSHKeysToAgent, RemoveSSHKeyFromAgent, AddSSHKeyToAgent
  <1>17. ASSUME NEW k \in SSHItems, DeleteItem(k) PROVE UNCHANGED opened
    BY <1>17 DEF DeleteItem
  <1>18. ASSUME NEW k \in SSHItems, NEW want \in BOOLEAN, SaveItem(k, want)
         PROVE  UNCHANGED opened
    BY <1>18 DEF SaveItem
  <1>19. CASE UNCHANGED vars
    BY <1>19 DEF vars
  <1> QED
    BY <1>1, <1>2, <1>3, <1>4, <1>5, <1>6, <1>7, <1>8, <1>9, <1>10, <1>11, <1>12, <1>13,
       <1>14, <1>15, <1>16, <1>17, <1>18, <1>19 DEF Next

LEMMA OpenedTypesNext ==
    Types /\ CmdInv /\ [Next]_vars =>
       /\ OpenedTypes' /\ Ids \subseteq Ids'
       /\ \A id \in Ids : opened'[id].vault = opened[id].vault
  <1> SUFFICES ASSUME Types, CmdInv, [Next]_vars
               PROVE  /\ OpenedTypes' /\ Ids \subseteq Ids'
                      /\ \A id \in Ids : opened'[id].vault = opened[id].vault
    OBVIOUS
  <1>1. ASSUME NEW id \in Ids PROVE opened[id] \in OpenedRec
    BY DEF Types, OpenedTypes, Ids
  <1>2. CASE UNCHANGED opened
    BY <1>2 DEF Types, OpenedTypes, Ids
  <1>3. ASSUME NEW id \in Ids, Expire(id)
        PROVE  /\ OpenedTypes' /\ Ids' = Ids
               /\ \A i \in Ids : opened'[i].vault = opened[i].vault
    <2>1. [opened[id] EXCEPT !.life = "over"] \in OpenedRec
      BY <1>1 DEF OpenedRec
    <2>2. opened' = [opened EXCEPT ![id] = [opened[id] EXCEPT !.life = "over"]]
      BY <1>3 DEF Expire
    <2>3. OpenedTypes' /\ Ids' = Ids
      BY <2>1, <2>2 DEF Types, OpenedTypes, Ids
    <2> QED
      BY <1>1, <2>2, <2>3 DEF OpenedRec, Types, OpenedTypes, Ids
  <1>4. ASSUME NEW p \in Clients, NEW life \in {"forever", "limited"}, cmds[p].at = "keyed",
               opened' = Append(opened, [vault |-> cmds[p].vault, life |-> life])
        PROVE  /\ OpenedTypes' /\ Ids \subseteq Ids'
               /\ \A i \in Ids : opened'[i].vault = opened[i].vault
    <2>1. cmds[p].vault \in Vaults
      BY <1>4 DEF CmdInv, CmdOK, Types, SetTypes, Actors
    <2>2. [vault |-> cmds[p].vault, life |-> life] \in OpenedRec
      BY <2>1 DEF OpenedRec
    <2> QED
      BY <1>4, <2>2 DEF Types, OpenedTypes, Ids
  <1> QED
    BY <1>2, <1>3, <1>4, OpenedSteps

LEMMA SetTypesNext ==
    Types /\ CmdInv /\ [Next]_vars => SetTypes' /\ overlap' \in BOOLEAN /\ made \subseteq made'
  <1> SUFFICES ASSUME Types, CmdInv, [Next]_vars
               PROVE  SetTypes' /\ overlap' \in BOOLEAN /\ made \subseteq made'
    OBVIOUS
  <1> USE DEF Types, SetTypes
  <1>1. ASSUME NEW a \in Instances, CheckRunning(a)
        PROVE  UNCHANGED disk /\ overlap' \in BOOLEAN
    BY <1>1 DEF CheckRunning
  <1>2. ASSUME NEW p \in Clients, MakeVault(p)
        PROVE  SetTypes' /\ overlap' = overlap /\ made \subseteq made'
    BY <1>2 DEF MakeVault, CmdInv, CmdOK, Actors, history
  <1>3. ASSUME NEW k \in SSHItems, DeleteItem(k) \/ \E want \in BOOLEAN : SaveItem(k, want)
        PROVE  SetTypes' /\ overlap' = overlap /\ made' = made
    BY <1>3 DEF DeleteItem, SaveItem, history
  <1>4. \/ UNCHANGED <<disk, overlap>>
        \/ \E a \in Instances : CheckRunning(a)
        \/ \E p \in Clients : MakeVault(p)
        \/ \E k \in SSHItems : DeleteItem(k) \/ \E want \in BOOLEAN : SaveItem(k, want)
    <2>1. ASSUME NEW a \in Instances, ClearSocket(a) \/ Listen(a) \/ Kill(a) \/ Close(a)
          PROVE  UNCHANGED <<disk, overlap>>
      BY <2>1 DEF ClearSocket, Listen, Kill, Close, disk, history
    <2>2. ASSUME NEW id \in Ids, Expire(id) PROVE UNCHANGED <<disk, overlap>>
      BY <2>2 DEF Expire, disk, history
    <2>3. ASSUME NEW p \in Clients, NEW op \in Ops, NEW v \in Vaults, Connect(p, op, v)
          PROVE  UNCHANGED <<disk, overlap>>
      BY <2>3 DEF Connect, disk, history
    <2>4. ASSUME NEW p \in Clients, AskKey(p) \/ Lock(p) \/ LoadVault(p)
          PROVE  UNCHANGED <<disk, overlap>>
      BY <2>4 DEF AskKey, Lock, LoadVault, disk, history
    <2>5. ASSUME NEW p \in Clients, NEW id \in Ids, SessionKey(p, id)
          PROVE  UNCHANGED <<disk, overlap>>
      BY <2>5 DEF SessionKey, disk, history
    <2>6. ASSUME NEW p \in Clients, NEW life \in {"forever", "limited"}, Unlock(p, life)
          PROVE  UNCHANGED <<disk, overlap>>
      BY <2>6 DEF Unlock, disk, history
    <2>7. ASSUME NEW p \in Actors, NEW k \in SSHItems,
                 HandleKey(p, k) \/ ItemUnreadable(p, k)
          PROVE  UNCHANGED <<disk, overlap>>
      BY <2>7 DEF HandleKey, ItemUnreadable, disk, history
    <2>8. ASSUME NEW p \in Actors, Ranged(p) \/ Exit(p) PROVE UNCHANGED <<disk, overlap>>
      BY <2>8 DEF Ranged, Exit, disk, history
    <2>9. ASSUME AddSSHKeysToAgent \/ RemoveSSHKeyFromAgent \/ AddSSHKeyToAgent
          PROVE  UNCHANGED <<disk, overlap>>
      BY <2>9 DEF AddSSHKeysToAgent, RemoveSSHKeyFromAgent, AddSSHKeyToAgent, disk, history
    <2>10. CASE UNCHANGED vars
      BY <2>10 DEF vars, disk
    <2> QED
      BY <2>1, <2>2, <2>3, <2>4, <2>5, <2>6, <2>7, <2>8, <2>9, <2>10 DEF Next
  <1> QED
    BY <1>1, <1>2, <1>3, <1>4 DEF disk

LEMMA TypesNext == Types /\ AgentInv /\ CmdInv /\ [Next]_vars => Types'
  BY AgentTypesNext, CmdTypesNext, OpenedTypesNext, SetTypesNext DEF Types

\* An agent gets and loses sessions and keys only while it serves.
LEMMA AgentInvNext == Types /\ AgentInv /\ CmdInv /\ [Next]_vars => AgentInv'
  <1> SUFFICES ASSUME Types, AgentInv, CmdInv, [Next]_vars PROVE AgentInv'
    OBVIOUS
  <1> USE DEF Types, AgentInv
  <1>0. Ids \subseteq Ids'
    BY OpenedTypesNext
  <1>1. ASSUME NEW a \in Instances, CheckRunning(a) PROVE AgentInv'
    BY <1>1, <1>0 DEF CheckRunning, AgentRec, AgentTypes, history
  <1>2. ASSUME NEW a \in Instances, ClearSocket(a) PROVE AgentInv'
    BY <1>2, <1>0 DEF ClearSocket, AgentRec, AgentTypes, history
  <1>3. ASSUME NEW a \in Instances, Listen(a) PROVE AgentInv'
    BY <1>3, <1>0 DEF Listen, AgentRec, AgentTypes, history
  <1>4. ASSUME NEW a \in Instances, Kill(a) PROVE AgentInv'
    BY <1>4, <1>0 DEF Kill, AgentRec, AgentTypes, history
  <1>5. ASSUME NEW a \in Instances, Close(a) PROVE AgentInv'
    BY <1>5, <1>0 DEF Close, AgentRec, AgentTypes, history
  <1>6. ASSUME NEW id \in Ids, Expire(id) PROVE AgentInv'
    BY <1>6, <1>0 DEF Expire, history
  <1>7. ASSUME NEW p \in Clients, NEW op \in Ops, NEW v \in Vaults, Connect(p, op, v)
        PROVE  AgentInv'
    BY <1>7, <1>0 DEF Connect, history
  <1>8. ASSUME NEW p \in Clients, AskKey(p) PROVE AgentInv'
    BY <1>8, <1>0 DEF AskKey, history
  <1>9. ASSUME NEW p \in Clients, NEW id \in Ids, SessionKey(p, id) PROVE AgentInv'
    <2> DEFINE asked == IF cmds[p].op = "read" THEN cmds[p].agent ELSE Reached
    <2>3. /\ agents' = AfterKey(asked, id) /\ asked # None
          /\ ended' = ended /\ locks' = locks
      BY <1>9 DEF SessionKey, history
    <2>4. asked \in Instances
      BY <2>3 DEF Reached, AgentTypes, CmdTypes, CmdRec, Actors, AgentArgs
    <2> HIDE DEF asked
    <2>1. /\ ended' = ended /\ locks' = locks
          /\ \E a \in Instances : agents' = [agents EXCEPT ![a].sessions = @ \ {id}]
             \/ agents' = agents
      BY <2>3, <2>4 DEF AfterKey
    <2>2. \A a \in Instances : /\ agents'[a].at = agents[a].at
                                /\ agents'[a].keys = agents[a].keys
                                /\ agents'[a].sessions \subseteq agents[a].sessions
      <3>1. ASSUME NEW a \in Instances PROVE agents[a] \in AgentRec
        BY DEF AgentTypes
      <3> QED
        BY <2>1, <3>1 DEF AgentRec, AgentTypes
    <2> QED
      BY <2>1, <2>2, <1>0
  <1>10. ASSUME NEW p \in Clients, MakeVault(p) PROVE AgentInv'
    BY <1>10, <1>0 DEF MakeVault, history
  <1>11. ASSUME NEW p \in Clients, NEW life \in {"forever", "limited"}, Unlock(p, life)
        PROVE  AgentInv'
    <2>1. CASE UNCHANGED agents
      BY <1>11, <1>0, <2>1 DEF Unlock, history
    <2>2. CASE agents' = AfterUnlock(cmds[p].agent, Len(opened) + 1) /\ Alive(cmds[p].agent)
      <3>1. Len(opened) + 1 \in Ids'
        BY <1>11, <2>2 DEF Unlock, OpenedTypes, Ids
      <3> QED
        BY <1>11, <1>0, <2>2, <3>1 DEF Unlock, history, AfterUnlock, AgentRec,
           AgentTypes, Alive
    <2> QED
      BY <1>11, <2>1, <2>2 DEF Unlock
  <1>12. ASSUME NEW p \in Clients, Lock(p) PROVE AgentInv'
    <2>1. ended' \cup locks' \subseteq Ids' /\ Ids' = Ids
      <3>1. cmds[p].began \subseteq Ids
        BY DEF CmdInv, CmdOK, Actors
      <3>2. Ids' = Ids
        BY <1>12 DEF Lock, Ids
      <3>3. locks' \subseteq locks \cup cmds[p].began
        BY <1>12 DEF Lock
      <3>4. CASE ended' = ended
        BY <3>1, <3>2, <3>3, <3>4
      <3>5. CASE Alive(cmds[p].agent)
        <4>1. cmds[p].agent \in Instances
          BY <3>5 DEF Alive, CmdTypes, CmdRec, Actors, AgentArgs
        <4>2. ended' \subseteq ended \cup agents[cmds[p].agent].sessions
          BY <1>12, <3>5 DEF Lock
        <4> QED
          BY <3>1, <3>2, <3>3, <4>1, <4>2
      <3> QED
        BY <1>12, <3>4, <3>5 DEF Lock
    <2>2. CASE agents' = agents
      BY <2>1, <2>2
    <2>3. CASE agents' = AfterLock(cmds[p].agent, cmds[p].vault)
      BY <2>1, <2>3 DEF AfterLock, AgentRec, AgentTypes
    <2> QED
      BY <1>12, <2>2, <2>3 DEF Lock
  <1>13. ASSUME NEW p \in Clients, LoadVault(p) PROVE AgentInv'
    BY <1>13, <1>0 DEF LoadVault, history
  <1>14. ASSUME NEW p \in Actors, NEW k \in SSHItems, HandleKey(p, k) PROVE AgentInv'
    BY <1>14, <1>0 DEF HandleKey, AgentRec, AgentTypes, Alive, Reached, history
  <1>15. ASSUME NEW p \in Actors, NEW k \in SSHItems, ItemUnreadable(p, k)
        PROVE  AgentInv'
    BY <1>15, <1>0 DEF ItemUnreadable, history
  <1>16. ASSUME NEW p \in Actors, Ranged(p) PROVE AgentInv'
    BY <1>16, <1>0 DEF Ranged, history
  <1>17. ASSUME NEW p \in Actors, Exit(p) PROVE AgentInv'
    BY <1>17, <1>0 DEF Exit, history
  <1>18. CASE AddSSHKeysToAgent
    BY <1>18, <1>0 DEF AddSSHKeysToAgent, history
  <1>19. CASE RemoveSSHKeyFromAgent
    BY <1>19, <1>0 DEF RemoveSSHKeyFromAgent, AgentRec, AgentTypes, Alive, Reached,
       history
  <1>20. CASE AddSSHKeyToAgent
    BY <1>20, <1>0 DEF AddSSHKeyToAgent, AgentRec, AgentTypes, Alive, Reached, history
  <1>21. ASSUME NEW k \in SSHItems, DeleteItem(k) PROVE AgentInv'
    BY <1>21, <1>0 DEF DeleteItem, history
  <1>22. ASSUME NEW k \in SSHItems, NEW want \in BOOLEAN, SaveItem(k, want)
        PROVE  AgentInv'
    BY <1>22, <1>0 DEF SaveItem, history
  <1>23. CASE UNCHANGED vars
    BY <1>23, <1>0 DEF vars, history
  <1> QED
    BY <1>1, <1>2, <1>3, <1>4, <1>5, <1>6, <1>7, <1>8, <1>9, <1>10, <1>11, <1>12, <1>13,
       <1>14, <1>15, <1>16, <1>17, <1>18, <1>19, <1>20, <1>21, <1>22, <1>23
       DEF Next

LEMMA VaultsMadeNext == Types /\ CmdInv /\ VaultsMade /\ [Next]_vars => VaultsMade'
  <1> SUFFICES ASSUME Types, CmdInv, VaultsMade, [Next]_vars PROVE VaultsMade'
    OBVIOUS
  <1>1. /\ Ids \subseteq Ids' /\ made \subseteq made'
        /\ \A id \in Ids : opened'[id].vault = opened[id].vault
    BY OpenedTypesNext, SetTypesNext
  <1>2. CASE Ids' = Ids
    BY <1>1, <1>2 DEF VaultsMade
  <1>3. ASSUME NEW p \in Clients, NEW life, cmds[p].at = "keyed",
               opened' = Append(opened, [vault |-> cmds[p].vault, life |-> life])
        PROVE  VaultsMade'
    <2>1. cmds[p].vault \in made
      BY <1>3 DEF CmdInv, CmdOK, Actors
    <2>2. Ids' = Ids \cup {Len(opened) + 1} /\ opened'[Len(opened) + 1].vault = cmds[p].vault
      BY <1>3 DEF Ids, Types, OpenedTypes
    <2> QED
      BY <1>1, <2>1, <2>2 DEF VaultsMade
  <1>4. \/ Ids' = Ids
        \/ \E p \in Clients, life \in {"forever", "limited"} :
              /\ cmds[p].at = "keyed"
              /\ opened' = Append(opened, [vault |-> cmds[p].vault, life |-> life])
    <2>1. ASSUME NEW id \in Ids, Expire(id) PROVE Ids' = Ids
      BY <2>1 DEF Expire, Ids, Types, OpenedTypes
    <2> QED
      BY <2>1, OpenedSteps DEF Ids
  <1> QED
    BY <1>2, <1>3, <1>4

-----------------------------------------------------------------------------
(* What a step may make of a command *)

Same(c, d) == /\ d.op = c.op /\ d.vault = c.vault /\ d.agent = c.agent
              /\ d.began = c.began /\ d.barred = c.barred /\ d.item = c.item
\* It stays where it is, or goes on.
Stays(c, d) == Same(c, d) /\ d.given = c.given /\ d.at = c.at /\ c.at # "idle"
GoesOn(c, d) == /\ Same(c, d) /\ d.given = c.given
                /\ c.at # "idle" /\ d.at \notin {"idle", "begun", "stored"}
                /\ d.at = "keyed" => c.vault \in made'
                /\ d.at = "removed" => c.at = "stored"
\* A session gives it the key of its vault.
GetsKey(c, d) == /\ Same(c, d) /\ c.at = "begun" /\ c.op \in {"unlock", "read"}
                 /\ d.at \in {"keyed", "done"} /\ c.vault \in made
                 /\ LET a == IF c.op = "read" THEN c.agent ELSE Reached IN
                    a \in Instances /\ d.given \in agents[a].sessions
\* It begins.
Begins(c, d) == /\ c.at = "idle" /\ d.given = 0
                /\ d.began = IF d.op = "lock" THEN Ids ELSE {}
                /\ d.barred = IF d.op \in {"unlock", "read"} THEN locks ELSE {}
                /\ d.at \in {"begun", "range", "stored"}
                /\ d.at = "begun" =>
                      /\ d.agent = Reached /\ Reached # None /\ d.vault \in Vaults
                      /\ d.op # "create" => d.vault \in made
                /\ d.at = "stored" => d.item \in SSHItems
CmdStep(c, d) == \/ d = c \/ d = Idle
                 \/ Stays(c, d) \/ GoesOn(c, d) \/ GetsKey(c, d) \/ Begins(c, d)

LEMMA DisturbedStep ==
    ASSUME Types, CmdInv, NEW q \in Actors, cmds'[q] = Disturbed[q]
    PROVE  CmdStep(cmds[q], cmds'[q])
  <1>c. cmds \in [Actors -> CmdRec] /\ cmds[q] \in CmdRec
    BY DEF Types, CmdTypes
  <1>1. cmds'[q] = [cmds[q] EXCEPT !.calm = FALSE]
    BY DEF Disturbed
  <1>2. CASE cmds[q].at = "idle"
    <2>1. cmds[q] = Idle
      BY <1>2 DEF CmdInv, CmdOK
    <2>2. cmds[q].calm = FALSE
      BY <2>1 DEF Idle
    <2>3. cmds'[q] = cmds[q]
      BY <1>1, <1>c, <2>2 DEF CmdRec
    <2> QED
      BY <2>3 DEF CmdStep
  <1>3. CASE cmds[q].at # "idle"
    <2>1. Stays(cmds[q], cmds'[q])
      BY <1>1, <1>3, <1>c DEF Stays, Same, CmdRec
    <2> QED
      BY <2>1 DEF CmdStep
  <1> QED
    BY <1>2, <1>3

LEMMA FailsStep ==
    ASSUME Types, NEW p \in Actors, NEW q \in Actors, Fails(p)
    PROVE  CmdStep(cmds[q], cmds'[q])
  BY DEF Fails, CmdStep, Types, CmdTypes

LEMMA GoesStep ==
    ASSUME Types, NEW p \in Actors, NEW x, Goes(p, x), cmds[p].at # "idle",
           x \notin {"idle", "begun", "stored"}, x = "keyed" => cmds[p].vault \in made',
           x = "removed" => cmds[p].at = "stored", NEW q \in Actors
    PROVE  CmdStep(cmds[q], cmds'[q])
  <1>c. cmds \in [Actors -> CmdRec] /\ cmds[q] \in CmdRec
    BY DEF Types, CmdTypes
  <1>1. CASE q = p
    <2>1. cmds'[q] = [cmds[q] EXCEPT !.at = x]
      BY <1>1, <1>c DEF Goes
    <2>2. GoesOn(cmds[q], cmds'[q])
      BY <1>1, <2>1, <1>c DEF GoesOn, Same, CmdRec
    <2> QED
      BY <2>2 DEF CmdStep
  <1> QED
    BY <1>1, <1>c DEF Goes, CmdStep

LEMMA BeginFields ==
    ASSUME AgentInv, Types, NEW p, NEW op \in CmdOps, NEW v \in VaultArgs, NEW a \in AgentArgs,
           NEW k \in ItemArgs
    PROVE  LET b == Begin(p, op, v, a, k) IN
           /\ b \in CmdRec
           /\ b.op = op /\ b.vault = v /\ b.agent = a /\ b.item = k /\ b.given = 0
           /\ b.began = (IF op = "lock" THEN Ids ELSE {}) /\ b.at = "begun"
           /\ b.barred = (IF op \in {"unlock", "read"} THEN locks ELSE {})
  BY BeginRec DEF Begin, Idle, Types


LEMMA CmdSteps ==
    Types /\ AgentInv /\ CmdInv /\ [Next]_vars => \A q \in Actors : CmdStep(cmds[q], cmds'[q])
  <1> SUFFICES ASSUME Types, AgentInv, CmdInv, [Next]_vars, NEW q \in Actors
               PROVE  CmdStep(cmds[q], cmds'[q])
    OBVIOUS
  <1>c. cmds \in [Actors -> CmdRec] /\ cmds[q] \in CmdRec
    BY DEF Types, CmdTypes
  <1>k. \A p \in Clients : /\ cmds[p].at = "begun" /\ cmds[p].op # "create" => cmds[p].vault \in made
                           /\ cmds[p].at = "keyed" => cmds[p].vault \in made
                           /\ p \in Actors
    BY DEF CmdInv, CmdOK, Actors
  <1>m. made \subseteq made'
    BY SetTypesNext
  <1>1. ASSUME NEW a \in Instances, CheckRunning(a) PROVE CmdStep(cmds[q], cmds'[q])
    BY <1>1 DEF CheckRunning, CmdStep
  <1>2. ASSUME NEW a \in Instances, ClearSocket(a) PROVE CmdStep(cmds[q], cmds'[q])
    BY <1>2, DisturbedStep DEF ClearSocket
  <1>3. ASSUME NEW a \in Instances, Listen(a) PROVE CmdStep(cmds[q], cmds'[q])
    BY <1>3, DisturbedStep DEF Listen
  <1>4. ASSUME NEW a \in Instances, Kill(a) PROVE CmdStep(cmds[q], cmds'[q])
    BY <1>4, DisturbedStep DEF Kill
  <1>5. ASSUME NEW a \in Instances, Close(a) PROVE CmdStep(cmds[q], cmds'[q])
    BY <1>5, DisturbedStep DEF Close
  <1>6. ASSUME NEW id \in Ids, Expire(id) PROVE CmdStep(cmds[q], cmds'[q])
    BY <1>6 DEF Expire, CmdStep
  <1>7. ASSUME NEW p \in Clients, NEW op \in Ops, NEW v \in Vaults, Connect(p, op, v)
        PROVE  CmdStep(cmds[q], cmds'[q])
    <2>1. CASE q # p
      BY <1>7, <2>1, <1>c, DisturbedStep DEF Connect, Disturbed
    <2>2. CASE q = p
      <3> DEFINE b == Begin(p, op, v, Reached, None)
      <3>1. cmds'[q] = b
        BY <1>7, <2>2, <1>c DEF Connect, Disturbed
      <3>2. /\ b \in CmdRec
            /\ b.op = op /\ b.vault = v /\ b.agent = Reached /\ b.item = None /\ b.given = 0
            /\ b.began = (IF b.op = "lock" THEN Ids ELSE {}) /\ b.at = "begun"
            /\ b.barred = (IF b.op \in {"unlock", "read"} THEN locks ELSE {})
        <4>1. /\ op \in CmdOps /\ v \in VaultArgs /\ Reached \in AgentArgs
              /\ None \in ItemArgs
          BY AgentAssumption DEF CmdOps, Ops, Reached, VaultArgs, AgentArgs, ItemArgs,
             Types, AgentTypes
        <4> QED
          BY <4>1, BeginFields
      <3> HIDE DEF b
      <3>3. Begins(cmds[q], cmds'[q])
        <4>1. cmds[q].at = "idle" /\ Reached # None /\ (op # "create" => v \in made)
          BY <1>7, <2>2 DEF Connect
        <4> QED
          BY <3>1, <3>2, <4>1 DEF Begins, CmdRec
      <3> QED
        BY <3>3 DEF CmdStep
    <2> QED
      BY <2>1, <2>2
  <1>8. ASSUME NEW p \in Clients, AskKey(p) PROVE CmdStep(cmds[q], cmds'[q])
    BY <1>8, <1>k, <1>m, FailsStep, GoesStep DEF AskKey, Actors
  <1>9. ASSUME NEW p \in Clients, NEW id \in Ids, SessionKey(p, id)
        PROVE  CmdStep(cmds[q], cmds'[q])
    <2> DEFINE a == IF cmds[p].op = "read" THEN cmds[p].agent ELSE Reached
               x == IF cmds[p].op = "read" THEN "done" ELSE "keyed"
    <2>1. CASE Fails(p) \/ UNCHANGED cmds
      BY <2>1, FailsStep DEF Actors, CmdStep
    <2>2. CASE /\ GivesKey(a, id, cmds[p].vault)
               /\ cmds' = [cmds EXCEPT ![p].at = x, ![p].given = id]
      <3>1. CASE q = p
        <4>1. cmds'[q] = [cmds[q] EXCEPT !.at = x, !.given = id]
          BY <2>2, <3>1, <1>c
        <4>2. cmds[q].vault \in made /\ id \in agents[a].sessions /\ a \in Instances
          BY <1>9, <2>2, <3>1, <1>k, <1>c DEF SessionKey, GivesKey, Alive, Reached,
             Types, AgentTypes,
             AgentArgs, CmdRec
        <4>3. GetsKey(cmds[q], cmds'[q])
          BY <1>9, <3>1, <4>1, <4>2, <1>c DEF GetsKey, Same, CmdRec, SessionKey
        <4> QED
          BY <4>3 DEF CmdStep
      <3> QED
        BY <2>2, <3>1, <1>c DEF CmdStep
    <2> QED
      BY <1>9, <2>1, <2>2 DEF SessionKey
  <1>10. ASSUME NEW p \in Clients, MakeVault(p) PROVE CmdStep(cmds[q], cmds'[q])
    BY <1>10, FailsStep, GoesStep DEF MakeVault, Actors, Types, SetTypes, VaultArgs
  <1>11. ASSUME NEW p \in Clients, NEW life \in {"forever", "limited"}, Unlock(p, life)
        PROVE  CmdStep(cmds[q], cmds'[q])
    BY <1>11, FailsStep, GoesStep DEF Unlock, Actors
  <1>12. ASSUME NEW p \in Clients, Lock(p) PROVE CmdStep(cmds[q], cmds'[q])
    BY <1>12, FailsStep, GoesStep DEF Lock, Actors
  <1>13. ASSUME NEW p \in Clients, LoadVault(p) PROVE CmdStep(cmds[q], cmds'[q])
    <2>1. CASE q = p /\ ~Fails(p)
      <3>1. PICK S \in SUBSET SSHItems : cmds'[q] = [cmds[q] EXCEPT !.at = "range", !.todo = S]
        BY <1>13, <2>1, <1>c DEF LoadVault, Types, SetTypes
      <3>2. GoesOn(cmds[q], cmds'[q])
        BY <1>13, <2>1, <3>1, <1>c DEF GoesOn, Same, CmdRec, LoadVault
      <3> QED
        BY <3>2 DEF CmdStep
    <2>2. CASE q # p /\ ~Fails(p)
      BY <1>13, <2>2, <1>c DEF LoadVault, CmdStep
    <2> QED
      BY <2>1, <2>2, FailsStep DEF Actors
  <1>14. ASSUME NEW p \in Actors, NEW k \in SSHItems, HandleKey(p, k)
        PROVE  CmdStep(cmds[q], cmds'[q])
    <2>1. CASE q = p
      <3>1. cmds'[q] = [cmds[q] EXCEPT
                          !.todo = @ \ {k},
                          !.calm = cmds[q].calm
                                   /\ Alive(IF p = Window THEN Reached ELSE cmds[p].agent)]
        BY <1>14, <2>1, <1>c DEF HandleKey
      <3>2. Stays(cmds[q], cmds'[q])
        BY <1>14, <2>1, <3>1, <1>c DEF Stays, Same, CmdRec, HandleKey
      <3> QED
        BY <3>2 DEF CmdStep
    <2> QED
      BY <1>14, <2>1, <1>c DEF HandleKey, CmdStep
  <1>15. ASSUME NEW p \in Actors, NEW k \in SSHItems, ItemUnreadable(p, k)
        PROVE  CmdStep(cmds[q], cmds'[q])
    BY <1>15, FailsStep DEF ItemUnreadable
  <1>16. ASSUME NEW p \in Actors, Ranged(p) PROVE CmdStep(cmds[q], cmds'[q])
    BY <1>16, GoesStep DEF Ranged
  <1>17. ASSUME NEW p \in Actors, Exit(p) PROVE CmdStep(cmds[q], cmds'[q])
    BY <1>17, FailsStep DEF Exit, Fails
  <1>18. CASE AddSSHKeysToAgent
    <2>1. CASE q # Window
      BY <1>18, <2>1, <1>c, DisturbedStep DEF AddSSHKeysToAgent, Disturbed
    <2>2. CASE q = Window
      <3> DEFINE b == Begin(Window, "show", FirstVault, None, None)
      <3>1. cmds'[q] = [b EXCEPT !.at = "range", !.todo = listed]
        BY <1>18, <2>2, <1>c DEF AddSSHKeysToAgent, Disturbed
      <3>2. /\ b \in CmdRec
            /\ b.op = "show" /\ b.vault = FirstVault /\ b.agent = None
            /\ b.item = None /\ b.given = 0
            /\ b.began = (IF b.op = "lock" THEN Ids ELSE {}) /\ b.at = "begun"
            /\ b.barred = (IF b.op \in {"unlock", "read"} THEN locks ELSE {})
        <4>1. /\ "show" \in CmdOps /\ FirstVault \in VaultArgs /\ None \in AgentArgs
              /\ None \in ItemArgs
          BY AgentAssumption DEF CmdOps, VaultArgs, AgentArgs, ItemArgs, Types, AgentTypes
        <4> QED
          BY <4>1, BeginFields
      <3> HIDE DEF b
      <3>3. Begins(cmds[q], cmds'[q])
        <4>1. cmds[q].at = "idle"
          BY <1>18, <2>2 DEF AddSSHKeysToAgent
        <4> QED
          BY <3>1, <3>2, <4>1 DEF Begins, CmdRec
      <3> QED
        BY <3>3 DEF CmdStep
    <2> QED
      BY <2>1, <2>2
  <1>19. CASE RemoveSSHKeyFromAgent
    <2>1. CASE q = Window
      <3>1. cmds'[q] = [cmds[q] EXCEPT !.at = IF cmds[q].op = "keep" THEN "removed" ELSE "done",
                                        !.calm = cmds[q].calm /\ Reached # None]
        BY <1>19, <2>1, <1>c DEF RemoveSSHKeyFromAgent
      <3>2. GoesOn(cmds[q], cmds'[q])
        BY <1>19, <2>1, <3>1, <1>c DEF GoesOn, Same, CmdRec, RemoveSSHKeyFromAgent
      <3> QED
        BY <3>2 DEF CmdStep
    <2> QED
      BY <1>19, <2>1, <1>c DEF RemoveSSHKeyFromAgent, CmdStep
  <1>20. CASE AddSSHKeyToAgent
    <2>1. CASE q = Window
      <3>1. cmds'[q] = [cmds[q] EXCEPT !.at = "done", !.calm = cmds[q].calm /\ Reached # None]
        BY <1>20, <2>1, <1>c DEF AddSSHKeyToAgent
      <3>2. GoesOn(cmds[q], cmds'[q])
        BY <1>20, <2>1, <3>1, <1>c DEF GoesOn, Same, CmdRec, AddSSHKeyToAgent
      <3> QED
        BY <3>2 DEF CmdStep
    <2> QED
      BY <1>20, <2>1, <1>c DEF AddSSHKeyToAgent, CmdStep
  <1>21. ASSUME NEW k \in SSHItems, DeleteItem(k) PROVE CmdStep(cmds[q], cmds'[q])
    <2>1. CASE q # Window
      BY <1>21, <2>1, <1>c, DisturbedStep DEF DeleteItem, Disturbed
    <2>2. CASE q = Window
      <3> DEFINE b == Begin(Window, "drop", FirstVault, None, k)
      <3>1. cmds'[q] = [b EXCEPT !.at = "stored"]
        BY <1>21, <2>2, <1>c DEF DeleteItem, Disturbed
      <3>2. /\ b \in CmdRec
            /\ b.op = "drop" /\ b.vault = FirstVault /\ b.agent = None
            /\ b.item = k /\ b.given = 0
            /\ b.began = (IF b.op = "lock" THEN Ids ELSE {}) /\ b.at = "begun"
            /\ b.barred = (IF b.op \in {"unlock", "read"} THEN locks ELSE {})
        <4>1. /\ "drop" \in CmdOps /\ FirstVault \in VaultArgs /\ None \in AgentArgs
              /\ k \in ItemArgs
          BY AgentAssumption DEF CmdOps, VaultArgs, AgentArgs, ItemArgs, Types, AgentTypes
        <4> QED
          BY <4>1, BeginFields
      <3> HIDE DEF b
      <3>3. Begins(cmds[q], cmds'[q])
        <4>1. cmds[q].at = "idle"
          BY <1>21, <2>2 DEF DeleteItem
        <4> QED
          BY <3>1, <3>2, <4>1 DEF Begins, CmdRec
      <3> QED
        BY <3>3 DEF CmdStep
    <2> QED
      BY <2>1, <2>2
  <1>22. ASSUME NEW k \in SSHItems, NEW want \in BOOLEAN, SaveItem(k, want)
        PROVE  CmdStep(cmds[q], cmds'[q])
    <2>1. CASE q # Window
      BY <1>22, <2>1, <1>c, DisturbedStep DEF SaveItem, Disturbed
    <2>2. CASE q = Window
      <3> DEFINE b == Begin(Window, IF want THEN "keep" ELSE "drop", FirstVault, None, k)
      <3>1. cmds'[q] = [b EXCEPT !.at = "stored"]
        BY <1>22, <2>2, <1>c DEF SaveItem, Disturbed
      <3>2. /\ b \in CmdRec
            /\ b.op = (IF want THEN "keep" ELSE "drop") /\ b.vault = FirstVault
            /\ b.agent = None /\ b.item = k /\ b.given = 0
            /\ b.began = (IF b.op = "lock" THEN Ids ELSE {}) /\ b.at = "begun"
            /\ b.barred = (IF b.op \in {"unlock", "read"} THEN locks ELSE {})
        <4>1. /\ (IF want THEN "keep" ELSE "drop") \in CmdOps
              /\ FirstVault \in VaultArgs /\ None \in AgentArgs
              /\ k \in ItemArgs
          BY AgentAssumption DEF CmdOps, VaultArgs, AgentArgs, ItemArgs, Types, AgentTypes
        <4> QED
          BY <4>1, BeginFields
      <3> HIDE DEF b
      <3>3. Begins(cmds[q], cmds'[q])
        <4>1. cmds[q].at = "idle"
          BY <1>22, <2>2 DEF SaveItem
        <4> QED
          BY <3>1, <3>2, <4>1 DEF Begins, CmdRec
      <3> QED
        BY <3>3 DEF CmdStep
    <2> QED
      BY <2>1, <2>2
  <1>23. CASE UNCHANGED vars
    BY <1>23 DEF vars, CmdStep
  <1> QED
    BY <1>1, <1>2, <1>3, <1>4, <1>5, <1>6, <1>7, <1>8, <1>9, <1>10, <1>11, <1>12, <1>13,
       <1>14, <1>15, <1>16, <1>17, <1>18, <1>19, <1>20, <1>21, <1>22, <1>23
       DEF Next

-----------------------------------------------------------------------------
(* Commands and vaults *)

LEMMA LocksStep ==
    [Next]_vars => \/ UNCHANGED locks
                   \/ \E p \in Clients : Lock(p) /\ Alive(cmds[p].agent)
  BY DEF Next, vars, history, CheckRunning, ClearSocket, Listen, Kill, Close, Expire,
     Connect, AskKey, SessionKey, MakeVault, Unlock, Lock, LoadVault, HandleKey,
     ItemUnreadable, Ranged, Exit, AddSSHKeysToAgent, RemoveSSHKeyFromAgent,
     AddSSHKeyToAgent, DeleteItem, SaveItem

\* The vaults, the sessions and the locks only grow.
LEMMA Growth ==
    Types /\ CmdInv /\ [Next]_vars =>
       Ids \subseteq Ids' /\ made \subseteq made' /\ locks \subseteq locks'
  <1>1. [Next]_vars => locks \subseteq locks'
    BY LocksStep DEF Lock
  <1> QED
    BY <1>1, OpenedTypesNext, SetTypesNext

\* A command begins with the sessions and vaults there are.
LEMMA CmdInvNext == Types /\ AgentInv /\ CmdInv /\ [Next]_vars => CmdInv'
  <1> SUFFICES ASSUME Types, AgentInv, CmdInv, [Next]_vars, NEW q \in Actors
               PROVE  CmdOK(cmds[q])'
    BY DEF CmdInv
  <1> DEFINE c == cmds[q]
             d == cmds'[q]
  <1>1. /\ CmdOK(c) /\ CmdStep(c, d)
        /\ Ids \subseteq Ids' /\ made \subseteq made' /\ locks \subseteq locks'
    BY CmdSteps, Growth DEF CmdInv
  <1>i. c.at = "idle" <=> c = Idle
    BY <1>1 DEF CmdOK
  <1>2. d.at = "idle" <=> d = Idle
    <2>1. CASE d = c \/ d = Idle
      BY <2>1, <1>i DEF Idle
    <2>2. CASE d.at # "idle"
      BY <2>2 DEF Idle
    <2>3. \/ d = c \/ d = Idle \/ d.at # "idle"
      BY <1>1 DEF CmdStep, Stays, GoesOn, GetsKey, Begins
    <2> QED
      BY <2>1, <2>2, <2>3
  <1> DEFINE OK(e) == /\ e.began \subseteq Ids' /\ e.barred \subseteq locks'
                      /\ e.at = "begun" => e.agent # None /\ e.vault \in Vaults
                      /\ e.at = "begun" /\ e.op # "create" => e.vault \in made'
                      /\ e.at = "keyed" => e.vault \in made'
                      /\ e.at \in {"stored", "removed"} => e.item \in SSHItems
  <1>3. OK(c)
    BY <1>1 DEF CmdOK
  <1>4. OK(Idle)
    BY DEF Idle
  <1>5. OK(d)
    <2> HIDE DEF c, d
    <2>1. CASE Stays(c, d) \/ GoesOn(c, d) \/ GetsKey(c, d)
      BY <2>1, <1>1, <1>3 DEF Stays, GoesOn, GetsKey, Same
    <2>2. CASE Begins(c, d)
      BY <2>2, <1>1 DEF Begins
    <2> QED
      BY <1>1, <1>3, <1>4, <2>1, <2>2 DEF CmdStep
  <1> QED
    BY <1>2, <1>5 DEF CmdOK

-----------------------------------------------------------------------------
(* A lock holds *)

\* No agent gets back a session it has not, and only an agent that has none
\* comes to the socket.
SessionStep == \A b \in Instances : Ids \cap agents'[b].sessions \subseteq agents[b].sessions
SocketStep == socket' \in {socket, None} \/ agents'[socket'].sessions = {}

LEMMA SessionSteps ==
    Types /\ AgentInv /\ CmdInv /\ [Next]_vars => SessionStep /\ SocketStep
  <1> SUFFICES ASSUME Types, AgentInv, CmdInv, [Next]_vars PROVE SessionStep /\ SocketStep
    OBVIOUS
  <1> USE DEF SessionStep, SocketStep, Types
  <1>1. ASSUME NEW a \in Instances, CheckRunning(a) PROVE SessionStep /\ SocketStep
    BY <1>1 DEF CheckRunning, AgentTypes, AgentRec
  <1>2. ASSUME NEW a \in Instances, ClearSocket(a) PROVE SessionStep /\ SocketStep
    BY <1>2 DEF ClearSocket, AgentTypes, AgentRec
  <1>3. ASSUME NEW a \in Instances, Listen(a) PROVE SessionStep /\ SocketStep
    BY <1>3 DEF Listen, AgentTypes, AgentRec, AgentInv
  <1>4. ASSUME NEW a \in Instances, Kill(a) PROVE SessionStep /\ SocketStep
    BY <1>4 DEF Kill, AgentTypes, AgentRec
  <1>5. ASSUME NEW a \in Instances, Close(a) PROVE SessionStep /\ SocketStep
    BY <1>5 DEF Close, AgentTypes, AgentRec
  <1>6. ASSUME NEW id \in Ids, Expire(id) PROVE SessionStep /\ SocketStep
    BY <1>6 DEF Expire
  <1>7. ASSUME NEW p \in Clients, NEW op \in Ops, NEW v \in Vaults, Connect(p, op, v)
        PROVE  SessionStep /\ SocketStep
    BY <1>7 DEF Connect
  <1>8. ASSUME NEW p \in Clients, AskKey(p) PROVE SessionStep /\ SocketStep
    BY <1>8 DEF AskKey
  <1>9. ASSUME NEW p \in Clients, NEW id \in Ids, SessionKey(p, id)
        PROVE  SessionStep /\ SocketStep
    BY <1>9 DEF SessionKey, AgentTypes, AgentRec, AfterKey
  <1>10. ASSUME NEW p \in Clients, MakeVault(p) PROVE SessionStep /\ SocketStep
    BY <1>10 DEF MakeVault
  <1>11. ASSUME NEW p \in Clients, NEW life \in {"forever", "limited"}, Unlock(p, life)
        PROVE  SessionStep /\ SocketStep
    <2>1. CASE UNCHANGED <<agents, socket>>
      BY <2>1
    <2>2. CASE agents' = AfterUnlock(cmds[p].agent, Len(opened) + 1) /\ socket' = socket
      <3>1. Len(opened) + 1 \notin Ids
        BY DEF Ids, OpenedTypes
      <3> QED
        BY <2>2, <3>1 DEF AfterUnlock, AgentTypes, AgentRec
    <2> QED
      BY <1>11, <2>1, <2>2 DEF Unlock
  <1>12. ASSUME NEW p \in Clients, Lock(p) PROVE SessionStep /\ SocketStep
    BY <1>12 DEF Lock, AgentTypes, AgentRec, AfterLock
  <1>13. ASSUME NEW p \in Clients, LoadVault(p) PROVE SessionStep /\ SocketStep
    BY <1>13 DEF LoadVault
  <1>14. ASSUME NEW p \in Actors, NEW k \in SSHItems, HandleKey(p, k)
        PROVE  SessionStep /\ SocketStep
    BY <1>14 DEF HandleKey, AgentTypes, AgentRec
  <1>15. ASSUME NEW p \in Actors, NEW k \in SSHItems, ItemUnreadable(p, k)
        PROVE  SessionStep /\ SocketStep
    BY <1>15 DEF ItemUnreadable
  <1>16. ASSUME NEW p \in Actors, Ranged(p) PROVE SessionStep /\ SocketStep
    BY <1>16 DEF Ranged
  <1>17. ASSUME NEW p \in Actors, Exit(p) PROVE SessionStep /\ SocketStep
    BY <1>17 DEF Exit
  <1>18. CASE AddSSHKeysToAgent
    BY <1>18 DEF AddSSHKeysToAgent
  <1>19. CASE RemoveSSHKeyFromAgent
    BY <1>19 DEF RemoveSSHKeyFromAgent, AgentTypes, AgentRec
  <1>20. CASE AddSSHKeyToAgent
    BY <1>20 DEF AddSSHKeyToAgent, AgentTypes, AgentRec
  <1>21. ASSUME NEW k \in SSHItems, DeleteItem(k) PROVE SessionStep /\ SocketStep
    BY <1>21 DEF DeleteItem
  <1>22. ASSUME NEW k \in SSHItems, NEW want \in BOOLEAN, SaveItem(k, want)
        PROVE  SessionStep /\ SocketStep
    BY <1>22 DEF SaveItem
  <1>23. CASE UNCHANGED vars
    BY <1>23 DEF vars
  <1> QED
    BY <1>1, <1>2, <1>3, <1>4, <1>5, <1>6, <1>7, <1>8, <1>9, <1>10, <1>11, <1>12, <1>13,
       <1>14, <1>15, <1>16, <1>17, <1>18, <1>19, <1>20, <1>21, <1>22, <1>23
       DEF Next

LEMMA LockInvNext ==
    Types /\ AgentInv /\ CmdInv /\ LockInv /\ [Next]_vars => LockInv'
  <1> SUFFICES ASSUME Types, AgentInv, CmdInv, LockInv, [Next]_vars PROVE LockInv'
    OBVIOUS
  <1>1. /\ SessionStep /\ SocketStep
        /\ agents \in [Instances -> AgentRec] /\ socket \in AgentArgs
        /\ agents' \in [Instances -> AgentRec] /\ socket' \in AgentArgs
        /\ locks \subseteq Ids
    BY SessionSteps, AgentTypesNext DEF Types, AgentTypes, AgentInv
  <1>2. Unreachable(locks)'
    <2>1. \A a \in Instances : socket' = a => locks \cap agents'[a].sessions = {}
      BY <1>1, AgentAssumption DEF LockInv, Unreachable, SessionStep, SocketStep
    <2>2. CASE UNCHANGED locks
      BY <2>1, <2>2 DEF Unreachable
    <2>3. ASSUME NEW p \in Clients, Lock(p), Alive(cmds[p].agent), NEW a \in Instances, socket' = a
          PROVE  locks' \cap agents'[a].sessions = {}
      <3> DEFINE c == cmds[p]
                 S == {id \in c.began : opened[id].vault = c.vault}
      <3>1. /\ locks' = locks \cup S /\ agents' = AfterLock(c.agent, c.vault)
            /\ socket' = socket /\ c.at = "begun" /\ c.op = "lock" /\ p \in Actors
        BY <2>3 DEF Lock, Actors
      <3>2. S \cap agents'[a].sessions = {}
        <4>1. CASE a = c.agent
          BY <3>1, <4>1, <1>1 DEF AfterLock, AgentRec
        <4>2. CASE a # c.agent
          <5>1. c.began \cap agents[a].sessions = {}
            BY <2>3, <3>1, <4>2 DEF LockInv
          <5> QED
            BY <5>1, <3>1, <4>2, <1>1 DEF AfterLock
        <4> QED
          BY <4>1, <4>2
      <3> QED
        BY <2>1, <2>3, <3>1, <3>2
    <2> QED
      BY <2>2, <2>3, LocksStep DEF Unreachable
  <1> SUFFICES ASSUME NEW q \in Actors
      PROVE  LET c == cmds'[q] IN
             /\ c.at = "begun" /\ c.op = "read" => c.barred \cap agents'[c.agent].sessions = {}
             /\ c.at = "begun" /\ c.op = "lock" =>
                   \A a \in Instances : socket' = a /\ a # c.agent =>
                                          c.began \cap agents'[a].sessions = {}
             /\ c.given \notin c.barred
    BY <1>2 DEF LockInv, LockHolds
  <1> DEFINE c == cmds[q]
             d == cmds'[q]
  <1>3. /\ CmdStep(c, d) /\ CmdOK(c) /\ c \in CmdRec
        /\ c.at = "begun" /\ c.op = "read" => c.barred \cap agents[c.agent].sessions = {}
        /\ c.at = "begun" /\ c.op = "lock" =>
              \A a \in Instances : socket = a /\ a # c.agent => c.began \cap agents[a].sessions = {}
        /\ c.given \notin c.barred
    BY CmdSteps DEF CmdInv, LockInv, LockHolds, Types, CmdTypes
  <1>4. d.given \notin d.barred
    <2>1. CASE Stays(c, d) \/ GoesOn(c, d) \/ d = c
      BY <2>1, <1>3 DEF Stays, GoesOn, Same
    <2>2. CASE GetsKey(c, d)
      <3>1. CASE c.op = "read"
        BY <2>2, <3>1, <1>3 DEF GetsKey, Same
      <3>2. CASE c.op # "read"
        <4>1. socket \in Instances /\ d.given \in agents[socket].sessions /\ d.barred = c.barred
          BY <2>2, <3>2, AgentAssumption DEF GetsKey, Same, Reached
        <4>2. c.barred \subseteq locks
          BY <1>3 DEF CmdOK
        <4> QED
          BY <4>1, <4>2 DEF LockInv, Unreachable
      <3> QED
        BY <3>1, <3>2
    <2>3. CASE Begins(c, d)
      BY <2>3, <1>1 DEF Begins, Ids
    <2>4. CASE d = Idle
      BY <2>4 DEF Idle
    <2> QED
      BY <1>3, <2>1, <2>2, <2>3, <2>4 DEF CmdStep
  <1>5. d.at = "begun" => \/ Same(c, d) /\ c.at = "begun"
                          \/ Begins(c, d)
    BY <1>3 DEF CmdStep, Stays, GoesOn, GetsKey, Same, Idle
  <1>6. c.began \subseteq Ids /\ c.barred \subseteq Ids /\ (c.at = "begun" => c.agent \in Instances)
    BY <1>1, <1>3 DEF CmdOK, CmdRec, AgentArgs
  <1>7. ASSUME d.at = "begun", d.op = "read" PROVE d.barred \cap agents'[d.agent].sessions = {}
    <2>1. CASE Same(c, d) /\ c.at = "begun"
      BY <2>1, <1>1, <1>3, <1>6, <1>7 DEF Same, SessionStep
    <2>2. CASE Begins(c, d)
      <3>1. d.agent = socket /\ socket \in Instances /\ d.barred = locks
        BY <2>2, <1>1, <1>7 DEF Begins, Reached, AgentArgs
      <3> QED
        BY <3>1, <1>1 DEF LockInv, Unreachable, SessionStep
    <2> QED
      BY <1>5, <1>7, <2>1, <2>2
  <1>8. ASSUME d.at = "begun", d.op = "lock", NEW a \in Instances, socket' = a, a # d.agent
        PROVE  d.began \cap agents'[a].sessions = {}
    <2>1. CASE Same(c, d) /\ c.at = "begun"
      <3>1. d.began = c.began /\ d.agent = c.agent /\ c.op = "lock"
        BY <2>1, <1>8 DEF Same
      <3>2. socket = a \/ agents'[a].sessions = {}
        BY <1>1, <1>8, AgentAssumption DEF SocketStep
      <3>3. socket = a => c.began \cap agents[a].sessions = {}
        BY <2>1, <1>3, <1>8, <3>1
      <3> HIDE DEF c, d
      <3> QED
        BY <1>1, <1>6, <3>1, <3>2, <3>3 DEF SessionStep
    <2>2. CASE Begins(c, d)
      BY <2>2, <1>1, <1>8, AgentAssumption DEF Begins, Reached, AgentArgs, SocketStep
    <2> QED
      BY <1>5, <1>8, <2>1, <2>2
  <1> QED
    BY <1>4, <1>7, <1>8

-----------------------------------------------------------------------------
(* Sessions survive *)

\* While no two start together, a start finds no agent that serves.
LEMMA AloneNext == Types /\ (~overlap => Alone) /\ [Next]_vars => (~overlap => Alone)'
  <1> SUFFICES ASSUME Types, (~overlap => Alone), [Next]_vars PROVE (~overlap => Alone)'
    OBVIOUS
  <1> USE DEF Types, Alone, Starting, Alive
  <1>1. ASSUME NEW a \in Instances, CheckRunning(a) PROVE (~overlap => Alone)'
    BY <1>1, AgentAssumption DEF CheckRunning, AgentTypes, AgentArgs, AgentRec, Reached
  <1>2. ASSUME NEW a \in Instances, ClearSocket(a) PROVE (~overlap => Alone)'
    BY <1>2, AgentAssumption DEF ClearSocket, AgentTypes, AgentArgs, AgentRec, history
  <1>3. ASSUME NEW a \in Instances, Listen(a) PROVE (~overlap => Alone)'
    BY <1>3, AgentAssumption DEF Listen, AgentTypes, AgentArgs, AgentRec, history
  <1>4. ASSUME NEW a \in Instances, Kill(a) PROVE (~overlap => Alone)'
    BY <1>4, AgentAssumption DEF Kill, AgentTypes, AgentArgs, AgentRec, history
  <1>5. ASSUME NEW a \in Instances, Close(a) PROVE (~overlap => Alone)'
    <2>1. UNCHANGED <<socket, overlap>> /\ \A b \in Instances : agents'[b].at = agents[b].at
      BY <1>5 DEF AgentTypes, AgentRec, Close
    <2> QED
      BY <2>1, AgentAssumption
  <1>6. ASSUME NEW id \in Ids, Expire(id) PROVE (~overlap => Alone)'
    BY <1>6 DEF Expire, history
  <1>7. ASSUME NEW p \in Clients, NEW op \in Ops, NEW v \in Vaults, Connect(p, op, v)
        PROVE  (~overlap => Alone)'
    BY <1>7 DEF Connect, history
  <1>8. ASSUME NEW p \in Clients, AskKey(p) PROVE (~overlap => Alone)'
    BY <1>8 DEF AskKey, history
  <1>9. ASSUME NEW p \in Clients, NEW id \in Ids, SessionKey(p, id)
        PROVE  (~overlap => Alone)'
    <2>1. UNCHANGED <<socket, overlap>> /\ \A b \in Instances : agents'[b].at = agents[b].at
      BY <1>9 DEF AgentTypes, AgentRec, SessionKey, AfterKey, history
    <2> QED
      BY <2>1, AgentAssumption
  <1>10. ASSUME NEW p \in Clients, MakeVault(p) PROVE (~overlap => Alone)'
    BY <1>10 DEF MakeVault, history
  <1>11. ASSUME NEW p \in Clients, NEW life \in {"forever", "limited"}, Unlock(p, life)
        PROVE  (~overlap => Alone)'
    <2>1. UNCHANGED <<socket, overlap>> /\ \A b \in Instances : agents'[b].at = agents[b].at
      BY <1>11 DEF AgentTypes, AgentRec, Unlock, AfterUnlock, history
    <2> QED
      BY <2>1, AgentAssumption
  <1>12. ASSUME NEW p \in Clients, Lock(p) PROVE (~overlap => Alone)'
    <2>1. UNCHANGED <<socket, overlap>> /\ \A b \in Instances : agents'[b].at = agents[b].at
      BY <1>12 DEF AgentTypes, AgentRec, Lock, AfterLock
    <2> QED
      BY <2>1, AgentAssumption
  <1>13. ASSUME NEW p \in Clients, LoadVault(p) PROVE (~overlap => Alone)'
    BY <1>13 DEF LoadVault, history
  <1>14. ASSUME NEW p \in Actors, NEW k \in SSHItems, HandleKey(p, k)
        PROVE  (~overlap => Alone)'
    <2>1. UNCHANGED <<socket, overlap>> /\ \A b \in Instances : agents'[b].at = agents[b].at
      BY <1>14 DEF AgentTypes, AgentRec, HandleKey, history
    <2> QED
      BY <2>1, AgentAssumption
  <1>15. ASSUME NEW p \in Actors, NEW k \in SSHItems, ItemUnreadable(p, k)
        PROVE  (~overlap => Alone)'
    BY <1>15 DEF ItemUnreadable, history
  <1>16. ASSUME NEW p \in Actors, Ranged(p) PROVE (~overlap => Alone)'
    BY <1>16 DEF Ranged, history
  <1>17. ASSUME NEW p \in Actors, Exit(p) PROVE (~overlap => Alone)'
    BY <1>17 DEF Exit, history
  <1>18. CASE AddSSHKeysToAgent
    BY <1>18 DEF AddSSHKeysToAgent, history
  <1>19. CASE RemoveSSHKeyFromAgent
    <2>1. UNCHANGED <<socket, overlap>> /\ \A b \in Instances : agents'[b].at = agents[b].at
      BY <1>19 DEF AgentTypes, AgentRec, RemoveSSHKeyFromAgent, history
    <2> QED
      BY <2>1, AgentAssumption
  <1>20. CASE AddSSHKeyToAgent
    <2>1. UNCHANGED <<socket, overlap>> /\ \A b \in Instances : agents'[b].at = agents[b].at
      BY <1>20 DEF AgentTypes, AgentRec, AddSSHKeyToAgent, history
    <2> QED
      BY <2>1, AgentAssumption
  <1>21. ASSUME NEW k \in SSHItems, DeleteItem(k) PROVE (~overlap => Alone)'
    BY <1>21 DEF DeleteItem, history
  <1>22. ASSUME NEW k \in SSHItems, NEW want \in BOOLEAN, SaveItem(k, want)
        PROVE  (~overlap => Alone)'
    BY <1>22 DEF SaveItem, history
  <1>23. CASE UNCHANGED vars
    BY <1>23 DEF vars, history
  <1> QED
    BY <1>1, <1>2, <1>3, <1>4, <1>5, <1>6, <1>7, <1>8, <1>9, <1>10, <1>11, <1>12, <1>13,
       <1>14, <1>15, <1>16, <1>17, <1>18, <1>19, <1>20, <1>21, <1>22, <1>23
       DEF Next

\* What an agent has it goes on having, or the session has ended.
KeepsOn == \A b \in Instances, i \in Ids :
              Alive(b) /\ i \in agents[b].sessions =>
                 i \in ended' \/ (Alive(b)' /\ i \in agents'[b].sessions)

LEMMA KeepsOnNext == Types /\ OverEnded /\ [Next]_vars => KeepsOn /\ ended \subseteq ended'
  <1> SUFFICES ASSUME Types, OverEnded, [Next]_vars PROVE KeepsOn /\ ended \subseteq ended'
    OBVIOUS
  <1> USE DEF Types, KeepsOn, Alive
  <1>1. ASSUME NEW a \in Instances, CheckRunning(a)
        PROVE  KeepsOn /\ ended \subseteq ended'
    BY <1>1 DEF CheckRunning, AgentTypes, AgentRec, history
  <1>2. ASSUME NEW a \in Instances, ClearSocket(a)
        PROVE  KeepsOn /\ ended \subseteq ended'
    BY <1>2 DEF ClearSocket, AgentTypes, AgentRec, history
  <1>3. ASSUME NEW a \in Instances, Listen(a) PROVE KeepsOn /\ ended \subseteq ended'
    BY <1>3 DEF Listen, AgentTypes, AgentRec, history
  <1>4. ASSUME NEW a \in Instances, Kill(a) PROVE KeepsOn /\ ended \subseteq ended'
    BY <1>4 DEF Kill, AgentTypes, AgentRec, history
  <1>5. ASSUME NEW a \in Instances, Close(a) PROVE KeepsOn /\ ended \subseteq ended'
    BY <1>5 DEF Close, AgentTypes, AgentRec, history
  <1>6. ASSUME NEW id \in Ids, Expire(id) PROVE KeepsOn /\ ended \subseteq ended'
    BY <1>6 DEF Expire, history
  <1>7. ASSUME NEW p \in Clients, NEW op \in Ops, NEW v \in Vaults, Connect(p, op, v)
        PROVE  KeepsOn /\ ended \subseteq ended'
    BY <1>7 DEF Connect, history
  <1>8. ASSUME NEW p \in Clients, AskKey(p) PROVE KeepsOn /\ ended \subseteq ended'
    BY <1>8 DEF AskKey, history
  <1>9. ASSUME NEW p \in Clients, NEW id \in Ids, SessionKey(p, id)
        PROVE  KeepsOn /\ ended \subseteq ended'
    <2> DEFINE a == IF cmds[p].op = "read" THEN cmds[p].agent ELSE Reached
    <2>1. agents' = AfterKey(a, id) /\ ended' = ended
      BY <1>9 DEF SessionKey, history
    <2>2. opened[id].life = "over" => id \in ended
      BY DEF OverEnded
    <2> QED
      BY <2>1, <2>2 DEF AfterKey, AgentTypes, AgentRec
  <1>10. ASSUME NEW p \in Clients, MakeVault(p) PROVE KeepsOn /\ ended \subseteq ended'
    BY <1>10 DEF MakeVault, history
  <1>11. ASSUME NEW p \in Clients, NEW life \in {"forever", "limited"}, Unlock(p, life)
        PROVE  KeepsOn /\ ended \subseteq ended'
    BY <1>11 DEF Unlock, AfterUnlock, AgentTypes, AgentRec, history
  <1>12. ASSUME NEW p \in Clients, Lock(p) PROVE KeepsOn /\ ended \subseteq ended'
    BY <1>12 DEF Lock, AfterLock, AgentTypes, AgentRec
  <1>13. ASSUME NEW p \in Clients, LoadVault(p) PROVE KeepsOn /\ ended \subseteq ended'
    BY <1>13 DEF LoadVault, history
  <1>14. ASSUME NEW p \in Actors, NEW k \in SSHItems, HandleKey(p, k)
        PROVE  KeepsOn /\ ended \subseteq ended'
    BY <1>14 DEF HandleKey, AgentTypes, AgentRec, history
  <1>15. ASSUME NEW p \in Actors, NEW k \in SSHItems, ItemUnreadable(p, k)
        PROVE  KeepsOn /\ ended \subseteq ended'
    BY <1>15 DEF ItemUnreadable, history
  <1>16. ASSUME NEW p \in Actors, Ranged(p) PROVE KeepsOn /\ ended \subseteq ended'
    BY <1>16 DEF Ranged, history
  <1>17. ASSUME NEW p \in Actors, Exit(p) PROVE KeepsOn /\ ended \subseteq ended'
    BY <1>17 DEF Exit, history
  <1>18. CASE AddSSHKeysToAgent
    BY <1>18 DEF AddSSHKeysToAgent, history
  <1>19. CASE RemoveSSHKeyFromAgent
    BY <1>19 DEF RemoveSSHKeyFromAgent, AgentTypes, AgentRec, history
  <1>20. CASE AddSSHKeyToAgent
    BY <1>20 DEF AddSSHKeyToAgent, AgentTypes, AgentRec, history
  <1>21. ASSUME NEW k \in SSHItems, DeleteItem(k)
        PROVE  KeepsOn /\ ended \subseteq ended'
    BY <1>21 DEF DeleteItem, history
  <1>22. ASSUME NEW k \in SSHItems, NEW want \in BOOLEAN, SaveItem(k, want)
        PROVE  KeepsOn /\ ended \subseteq ended'
    BY <1>22 DEF SaveItem, history
  <1>23. CASE UNCHANGED vars
    BY <1>23 DEF vars, history
  <1> QED
    BY <1>1, <1>2, <1>3, <1>4, <1>5, <1>6, <1>7, <1>8, <1>9, <1>10, <1>11, <1>12, <1>13,
       <1>14, <1>15, <1>16, <1>17, <1>18, <1>19, <1>20, <1>21, <1>22, <1>23
       DEF Next

\* An agent gives up a session only when it ends.
LEMMA KeptNext ==
    Types /\ OverEnded /\ Kept /\ CmdInv /\ [Next]_vars => OverEnded' /\ Kept'
  <1> SUFFICES ASSUME Types, OverEnded, Kept, CmdInv, [Next]_vars PROVE OverEnded' /\ Kept'
    OBVIOUS
  <1>1. KeepsOn /\ ended \subseteq ended'
    BY KeepsOnNext
  <1>2. ASSUME Ids' = Ids PROVE Kept'
    <2> SUFFICES ASSUME NEW i \in Ids, i \notin ended'
                 PROVE  \E b \in Instances : Alive(b)' /\ i \in agents'[b].sessions
      BY <1>2 DEF Kept
    <2>1. PICK b \in Instances : Alive(b) /\ i \in agents[b].sessions
      BY <1>1 DEF Kept
    <2> QED
      BY <1>1, <2>1 DEF KeepsOn
  <1>3. CASE UNCHANGED opened
    <2>1. Ids' = Ids
      BY <1>3 DEF Ids
    <2> QED
      BY <1>1, <1>2, <1>3, <2>1 DEF OverEnded
  <1>4. ASSUME NEW id \in Ids, Expire(id) PROVE OverEnded' /\ Kept'
    <2>1. Ids' = Ids /\ \A i \in Ids : i # id => opened'[i] = opened[i]
      BY <1>4 DEF Expire, OpenedTypes, Ids, Types
    <2>2. ended' = ended \cup {id}
      BY <1>4 DEF Expire
    <2> QED
      BY <1>2, <2>1, <2>2 DEF OverEnded
  <1>5. ASSUME NEW p \in Clients, NEW life \in {"forever", "limited"}, Unlock(p, life),
               opened' = Append(opened, [vault |-> cmds[p].vault, life |-> life])
        PROVE  OverEnded' /\ Kept'
    <2>1. PICK new \in Nat : new = Len(opened) + 1
      BY DEF Types, OpenedTypes
    <2>2. /\ Ids' = Ids \cup {new} /\ \A i \in Ids : opened'[i] = opened[i]
          /\ opened'[new].life # "over" /\ opened' # opened
      BY <1>5, <2>1 DEF OpenedTypes, Ids, Types
    <2>3. /\ agents' = AfterUnlock(cmds[p].agent, new) /\ Alive(cmds[p].agent)
          /\ ended' = ended
      BY <1>5, <2>1, <2>2 DEF Unlock, history
    <2>4. PICK a \in Instances : a = cmds[p].agent
      BY <2>3 DEF Alive, Types, CmdTypes, CmdRec, Actors, AgentArgs
    <2>5. Alive(a)' /\ new \in agents'[a].sessions
      BY <2>3, <2>4 DEF AfterUnlock, Types, AgentTypes, AgentRec, Alive
    <2>6. Kept'
      <3> SUFFICES ASSUME NEW i \in Ids', i \notin ended'
                   PROVE  \E b \in Instances : Alive(b)' /\ i \in agents'[b].sessions
        BY DEF Kept
      <3>1. CASE i \in Ids
        <4>1. PICK b \in Instances : Alive(b) /\ i \in agents[b].sessions
          BY <1>1, <3>1 DEF Kept
        <4> QED
          BY <1>1, <3>1, <4>1 DEF KeepsOn
      <3>2. CASE i = new
        BY <2>4, <2>5, <3>2
      <3> QED
        BY <2>2, <3>1, <3>2
    <2> QED
      BY <1>1, <2>2, <2>3, <2>6 DEF OverEnded
  <1> QED
    BY <1>3, <1>4, <1>5, OpenedSteps

LEMMA SurviveInvNext == Types /\ CmdInv /\ SurviveInv /\ [Next]_vars => SurviveInv'
  BY AloneNext, KeptNext DEF SurviveInv

-----------------------------------------------------------------------------
(* Keys follow the command *)

\* A command that is calm after the step of q is the one of q, and was calm
\* before it.
LEMMA OwnStep ==
    ASSUME KeyInv, CmdTypes, NEW p \in Actors, NEW q \in Actors, cmds[q].at # "idle",
           \A r \in Actors \ {q} : cmds'[r] = cmds[r],
           cmds'[q].calm => cmds[q].calm, cmds'[p].calm
    PROVE  p = q /\ cmds[p].calm /\ Calm(p) /\ Solo(p)'
  <1>1. cmds[p].calm
    OBVIOUS
  <1>2. p = q
    BY <1>1 DEF KeyInv, Calm, Solo
  <1> QED
    BY <1>1, <1>2 DEF KeyInv, Calm, Solo

\* A step that leaves the commands alone, and the keys of the agents that
\* serve after it.
LEMMA KeysStay ==
    ASSUME Types, KeyInv, NEW p \in Actors, cmds'[p].calm,
           UNCHANGED <<cmds, wanted, listed, socket>>,
           \A a \in Instances : agents'[a].at = "serving" =>
               agents[a].at = "serving" /\ agents'[a].keys = agents[a].keys
    PROVE  Calm(p)'
  <1>1. cmds[p].calm /\ Calm(p) /\ cmds' = cmds
    BY DEF KeyInv
  <1>2. Solo(p)' /\ Course(cmds[p])'
    BY <1>1 DEF Calm, Solo, Course
  <1>3. ASSUME Alive(Target(p))'
        PROVE  /\ Target(p)' = Target(p) /\ Alive(Target(p))
               /\ agents'[Target(p)].keys = agents[Target(p)].keys
    <2>1. cmds[p] \in CmdRec /\ socket \in AgentArgs
      BY DEF Types, CmdTypes, AgentTypes
    <2>2. cmds[p].agent \in AgentArgs
      BY <2>1 DEF CmdRec
    <2>3. CASE p = Window
      BY <2>1, <2>3, <1>3 DEF Target, Reached, Alive, AgentArgs
    <2>4. CASE p # Window
      BY <2>2, <2>4, <1>1, <1>3 DEF Target, Alive, AgentArgs
    <2> QED
      BY <2>3, <2>4
  <1>4. Alive(Target(p))' => Follows(cmds[p], agents[Target(p)].keys, Due)'
    <2> SUFFICES ASSUME Alive(Target(p))' PROVE Follows(cmds[p], agents[Target(p)].keys, Due)'
      OBVIOUS
    <2>1. Follows(cmds[p], agents[Target(p)].keys, Due)
      BY <1>1, <1>3 DEF Calm
    <2> QED
      BY <1>1, <1>3, <2>1 DEF Follows, Due
  <1> QED
    BY <1>2, <1>4 DEF Calm

\* A step of a command to where nothing is asked of the keys.
LEMMA OnTheWay ==
    ASSUME KeyInv, CmdTypes, NEW p \in Actors, NEW q \in Actors, cmds[q].at # "idle",
           NEW x \in CmdAts \ {"range", "done"}, Goes(q, x),
           cmds[q].calm /\ Course(cmds[q]) => Course([cmds[q] EXCEPT !.at = x]),
           cmds'[p].calm
    PROVE  Calm(p)'
  <1>1. cmds \in [Actors -> CmdRec] /\ cmds[q] \in CmdRec
    BY DEF CmdTypes
  <1>2. /\ cmds'[q] = [cmds[q] EXCEPT !.at = x] /\ cmds'[q].calm = cmds[q].calm
        /\ cmds'[q].at = x /\ \A r \in Actors \ {q} : cmds'[r] = cmds[r]
    BY <1>1 DEF Goes, CmdRec
  <1>3. p = q /\ cmds[p].calm /\ Calm(p) /\ Solo(p)'
    BY <1>2, OwnStep
  <1>4. Course(cmds[p])'
    BY <1>2, <1>3 DEF Calm, Course
  <1>5. Follows(cmds[p], agents[Target(p)].keys, Due)'
    BY <1>2, <1>3 DEF Follows
  <1> QED
    BY <1>3, <1>4, <1>5 DEF Calm

\* A command that fails is over.
LEMMA NoMore ==
    ASSUME KeyInv, CmdTypes, NEW p \in Actors, NEW q \in Actors, cmds[q].at # "idle",
           cmds' = [cmds EXCEPT ![q] = Idle], cmds'[p].calm
    PROVE  FALSE
  <1>1. cmds'[q] = Idle /\ Idle.calm = FALSE /\ \A r \in Actors \ {q} : cmds'[r] = cmds[r]
    BY DEF CmdTypes, Idle
  <1>2. p = q
    BY <1>1, OwnStep
  <1> QED
    BY <1>1, <1>2

\* A command that begins disturbs the others, and is calm if there are none.
LEMMA Beginning ==
    ASSUME CmdTypes, NEW p \in Actors, NEW q \in Actors, NEW c \in CmdRec,
           cmds' = [Disturbed EXCEPT ![q] = c], cmds'[p].calm,
           c.calm => \A r \in Actors : cmds[r].at = "idle", c.calm => Course(c)
    PROVE  p = q /\ cmds'[p] = c /\ Solo(p)' /\ Course(cmds[p])'
  <1>1. /\ cmds'[q] = c /\ cmds \in [Actors -> CmdRec]
        /\ \A r \in Actors \ {q} : cmds'[r] = [cmds[r] EXCEPT !.calm = FALSE]
    BY DEF CmdTypes, Disturbed
  <1>2. \A r \in Actors \ {q} : cmds'[r].calm = FALSE /\ cmds'[r].at = cmds[r].at
    <2> SUFFICES ASSUME NEW r \in Actors \ {q}
                 PROVE  cmds'[r].calm = FALSE /\ cmds'[r].at = cmds[r].at
      OBVIOUS
    <2>1. cmds[r] \in CmdRec /\ cmds'[r] = [cmds[r] EXCEPT !.calm = FALSE]
      BY <1>1
    <2> QED
      BY <2>1 DEF CmdRec
  <1>3. p = q
    BY <1>2
  <1>4. Course(cmds[p])'
    BY <1>1, <1>3 DEF Course
  <1> QED
    BY <1>1, <1>2, <1>3, <1>4 DEF Solo

LEMMA DisturbedAll ==
    ASSUME CmdTypes, NEW p \in Actors, cmds' = Disturbed PROVE ~cmds'[p].calm
  <1>1. cmds'[p] = [cmds[p] EXCEPT !.calm = FALSE] /\ cmds[p] \in CmdRec
    BY DEF CmdTypes, Disturbed
  <1> QED
    BY <1>1 DEF CmdRec

\* The loop over the keys does what the command asks for.
LEMMA LoopStep ==
    ASSUME Types, KeyInv, NEW p \in Actors, NEW q \in Actors, NEW k \in SSHItems,
           HandleKey(q, k), cmds'[p].calm
    PROVE  Calm(p)'
  <1> DEFINE c == cmds[q]
             a == Target(q)
  <1>1. /\ cmds \in [Actors -> CmdRec] /\ c \in CmdRec
        /\ agents \in [Instances -> AgentRec] /\ socket \in AgentArgs
    BY DEF Types, CmdTypes, AgentTypes
  <1>2. /\ c.at = "range" /\ k \in c.todo /\ k \in listed
        /\ cmds' = [cmds EXCEPT ![q].todo = @ \ {k}, ![q].calm = @ /\ Alive(a)]
        /\ agents' = IF k \in wanted /\ Alive(a)
                     THEN [agents EXCEPT ![a].keys =
                             IF c.op = "lock" THEN @ \ {k} ELSE @ \cup {k}]
                     ELSE agents
        /\ UNCHANGED <<wanted, listed, socket>>
    BY DEF HandleKey, Target, disk
  <1>3. /\ cmds'[q] = [c EXCEPT !.todo = c.todo \ {k}, !.calm = c.calm /\ Alive(a)]
        /\ \A r \in Actors \ {q} : cmds'[r] = cmds[r]
    BY <1>1, <1>2 DEF CmdRec
  <1> DEFINE d == cmds'[q]
  <1>4. /\ d.todo = c.todo \ {k} /\ d.calm = (c.calm /\ Alive(a)) /\ d.op = c.op
        /\ d.vault = c.vault /\ d.agent = c.agent /\ d.at = "range" /\ d.item = c.item
    BY <1>1, <1>2, <1>3 DEF CmdRec
  <1>5. p = q /\ c.calm /\ Calm(q) /\ Solo(q)'
    <2>1. c.at # "idle" /\ (d.calm => c.calm)
      BY <1>2, <1>4
    <2> QED
      BY <2>1, <1>3, OwnStep DEF Types
  <1>6. Alive(a) /\ a \in Instances
    <2>1. Alive(a)
      BY <1>4, <1>5
    <2>2. c.agent \in AgentArgs
      BY <1>1 DEF CmdRec
    <2> QED
      BY <2>1, <2>2, <1>1 DEF Alive, Target, Reached, AgentArgs
  <1>7. \A b \in Instances : agents'[b].at = agents[b].at
    BY <1>1, <1>2 DEF AgentRec
  <1>8. Target(q)' = a
    BY <1>1, <1>2, <1>4, <1>7 DEF Target, Reached, AgentArgs
  <1>9. agents'[a].keys = IF k \notin wanted THEN agents[a].keys
                          ELSE IF c.op = "lock" THEN agents[a].keys \ {k}
                          ELSE agents[a].keys \cup {k}
    BY <1>1, <1>2, <1>6 DEF AgentRec
  <1>10. Follows(c, agents[a].keys, Due)
    BY <1>5, <1>6 DEF Calm
  <1>11. Follows(d, agents'[a].keys, Due')
    <2> DEFINE K == agents[a].keys
               L == agents'[a].keys
    <2>1. L = IF k \notin wanted THEN K ELSE IF c.op = "lock" THEN K \ {k} ELSE K \cup {k}
      BY <1>9
    <2>2. Due' = Due /\ (k \in Due => k \in wanted) /\ Due \subseteq wanted
      BY <1>2 DEF Due
    <2>3. Follows(c, K, Due)
      BY <1>10
    <2> HIDE DEF K, L, c, d
    <2>4. c.vault = FirstVault /\ c.op \in {"unlock", "show"} => Due \ d.todo \subseteq L
      BY <2>1, <2>2, <2>3, <1>2, <1>4 DEF Follows
    <2>5. c.vault = FirstVault /\ c.op = "lock" => Due \cap L \subseteq d.todo
      BY <2>1, <2>2, <2>3, <1>2, <1>4 DEF Follows
    <2>6. Follows(d, L, Due)
      BY <2>4, <2>5, <1>4 DEF Follows
    <2> QED
      BY <2>2, <2>6 DEF L
  <1>12. Course(d)
    BY <1>4, <1>5, <1>2 DEF Calm, Course
  <1>13. Solo(p)' /\ Course(cmds[p])'
    BY <1>5, <1>12 DEF Course
  <1>14. Follows(cmds[p], agents[Target(p)].keys, Due)'
    BY <1>5, <1>8, <1>11 DEF Follows
  <1> QED
    BY <1>13, <1>14 DEF Calm

\* A command that begins calm begins alone, and is one of those that work on
\* the keys.
LEMMA BeginCalm ==
    \A p, op, v, a, k : Begin(p, op, v, a, k).calm =>
        op \notin {"browse", "create", "read"} /\ \A q \in Actors : cmds[q].at = "idle"
  BY DEF Begin, Idle

LEMMA WindowBegins ==
    ASSUME AgentInv, Types, KeyInv, NEW op \in {"show", "keep", "drop"}, NEW k \in ItemArgs,
           NEW x \in {"range", "stored"}, NEW S \in SUBSET SSHItems, NEW c,
           x = "range" => op = "show" /\ Due' \subseteq S,
           x = "stored" => op \in {"keep", "drop"},
           \/ c = [Begin(Window, op, FirstVault, None, k) EXCEPT !.at = x, !.todo = S]
           \/ c = [Begin(Window, op, FirstVault, None, k) EXCEPT !.at = x] /\ x = "stored",
           cmds' = [Disturbed EXCEPT ![Window] = c], NEW p \in Actors, cmds'[p].calm
    PROVE  Calm(p)'
  <1> DEFINE b == Begin(Window, op, FirstVault, None, k)
  <1>1. /\ b \in CmdRec /\ b.op = op
        /\ b.calm => \A q \in Actors : cmds[q].at = "idle"
    <2>1. op \in CmdOps /\ FirstVault \in VaultArgs /\ None \in AgentArgs
      BY AgentAssumption DEF CmdOps, VaultArgs, AgentArgs
    <2>2. b \in CmdRec /\ b.op = op
      BY <2>1, BeginFields DEF CmdOps
    <2>3. b.calm => \A q \in Actors : cmds[q].at = "idle"
      BY BeginCalm
    <2> QED
      BY <2>2, <2>3
  <1> HIDE DEF b
  <1>2. c \in CmdRec
    <2>1. x \in CmdAts /\ OpenedTypes /\ SetTypes
      BY DEF Types, CmdAts
    <2>2. /\ [Begin(Window, op, FirstVault, None, k) EXCEPT !.at = x] \in CmdRec
          /\ [Begin(Window, op, FirstVault, None, k) EXCEPT !.at = x, !.todo = S] \in CmdRec
      BY <2>1, WindowRec, Zenon
    <2> QED
      BY <2>2
  <1>3. c.op = op /\ c.at = x /\ c.calm = b.calm /\ (x = "range" => c.todo = S)
    BY <1>1 DEF CmdRec, b
  <1>4. c.calm => Course(c)
    BY <1>3 DEF Course
  <1>5. Window \in Actors
    BY DEF Actors
  <1>6. c.calm => \A q \in Actors : cmds[q].at = "idle"
    BY <1>1, <1>3
  <1>7. cmds'[p] = c /\ Solo(p)' /\ Course(cmds[p])'
    BY <1>2, <1>4, <1>5, <1>6, Beginning DEF Types
  <1>8. \A K : Follows(c, K, Due')
    BY <1>3 DEF Follows
  <1>9. Follows(cmds[p], agents[Target(p)].keys, Due)'
    BY <1>7, <1>8
  <1> QED
    BY <1>7, <1>9 DEF Calm

\* The window takes a key out of the agent, or puts one into it.
LEMMA WindowKey ==
    ASSUME Types, KeyInv, NEW p \in Actors, cmds'[p].calm,
           RemoveSSHKeyFromAgent \/ AddSSHKeyToAgent
    PROVE  Calm(p)'
  <1> DEFINE c == cmds[Window]
             d == cmds'[Window]
             x == IF RemoveSSHKeyFromAgent /\ c.op = "keep" THEN "removed" ELSE "done"
  <1>1. /\ cmds \in [Actors -> CmdRec] /\ c \in CmdRec /\ Window \in Actors
        /\ agents \in [Instances -> AgentRec] /\ socket \in AgentArgs
    BY DEF Types, CmdTypes, AgentTypes, Actors
  <1>2. /\ c.at \in {"stored", "removed"} /\ UNCHANGED <<wanted, listed, socket>>
        /\ \E y \in {"removed", "done"} :
              cmds' = [cmds EXCEPT ![Window].at = y, ![Window].calm = @ /\ Reached # None]
    BY <1>1 DEF RemoveSSHKeyFromAgent, AddSSHKeyToAgent, disk
  <1>3. /\ \A r \in Actors \ {Window} : cmds'[r] = cmds[r]
        /\ d.calm = (c.calm /\ Reached # None) /\ d.op = c.op /\ d.item = c.item
    BY <1>1, <1>2 DEF CmdRec
  <1>4. p = Window /\ c.calm /\ Calm(Window) /\ Solo(Window)'
    <2>1. c.at # "idle" /\ (d.calm => c.calm)
      BY <1>2, <1>3
    <2> QED
      BY <2>1, <1>1, <1>3, OwnStep DEF Types
  <1>5. Reached \in Instances /\ Target(Window) = Reached
    BY <1>1, <1>3, <1>4 DEF Reached, Target, AgentArgs
  <1>6. \A b \in Instances : agents'[b].at = agents[b].at
    BY <1>1, <1>5 DEF RemoveSSHKeyFromAgent, AddSSHKeyToAgent, AgentRec
  <1>7. Target(Window)' = Reached
    BY <1>1, <1>2, <1>5, <1>6 DEF Target, Reached, AgentArgs
  <1>8. CASE RemoveSSHKeyFromAgent
    <2>1. /\ c.at = "stored" /\ d.at = IF c.op = "keep" THEN "removed" ELSE "done"
          /\ agents' = [agents EXCEPT ![Reached].keys = @ \ {c.item}]
      BY <1>1, <1>3, <1>4, <1>8 DEF RemoveSSHKeyFromAgent, CmdRec
    <2>5. agents'[Reached].keys = agents[Reached].keys \ {c.item}
      BY <2>1, <1>1, <1>5 DEF AgentRec
    <2>2. c.op \in {"keep", "drop"}
      BY <1>4, <2>1 DEF Calm, Course
    <2> HIDE DEF c, d
    <2>3. Follows(d, agents'[Reached].keys, Due')
      BY <2>1, <2>2, <2>5, <1>3 DEF Follows
    <2>4. Course(d)
      BY <2>1, <2>2, <1>3 DEF Course
    <2> QED
      BY <2>3, <2>4, <1>4, <1>7 DEF Calm, Course, d
  <1>9. CASE AddSSHKeyToAgent
    <2>1. /\ c.at = "removed" /\ d.at = "done"
          /\ agents' = [agents EXCEPT ![Reached].keys = @ \cup {c.item}]
      BY <1>1, <1>3, <1>4, <1>9 DEF AddSSHKeyToAgent, CmdRec
    <2>5. agents'[Reached].keys = agents[Reached].keys \cup {c.item}
      BY <2>1, <1>1, <1>5 DEF AgentRec
    <2>2. c.op = "keep"
      BY <1>4, <2>1 DEF Calm, Course
    <2> HIDE DEF c, d
    <2>3. Follows(d, agents'[Reached].keys, Due')
      BY <2>1, <2>2, <2>5, <1>3 DEF Follows
    <2>4. Course(d)
      BY <2>1, <2>2, <1>3 DEF Course
    <2> QED
      BY <2>3, <2>4, <1>4, <1>7 DEF Calm, Course, d
  <1> QED
    BY <1>8, <1>9

\* A loop that is over leaves nothing to do.
LEMMA LoopEnds ==
    ASSUME Types, KeyInv, NEW p \in Actors, NEW q \in Actors, Ranged(q), cmds'[p].calm
    PROVE  Calm(p)'
  <1> DEFINE c == cmds[q]
             d == cmds'[q]
  <1>1. cmds \in [Actors -> CmdRec] /\ c \in CmdRec
    BY DEF Types, CmdTypes
  <1>2. /\ c.at = "range" /\ c.todo = {} /\ UNCHANGED <<agents, wanted, listed, socket>>
        /\ d = [c EXCEPT !.at = "done"] /\ \A r \in Actors \ {q} : cmds'[r] = cmds[r]
    BY <1>1 DEF Ranged, Goes, disk
  <1>3. /\ d.at = "done" /\ d.calm = c.calm /\ d.op = c.op /\ d.vault = c.vault
        /\ d.agent = c.agent
    BY <1>1, <1>2 DEF CmdRec
  <1>4. p = q /\ c.calm /\ Calm(q) /\ Solo(q)'
    BY <1>2, <1>3, OwnStep DEF Types
  <1>5. Target(q)' = Target(q) /\ Alive(Target(q))' = Alive(Target(q)) /\ Due' = Due
    BY <1>2, <1>3 DEF Target, Reached, Alive, Due
  <1>6. ASSUME Alive(Target(q)) PROVE Follows(d, agents[Target(q)].keys, Due)
    <2>1. Follows(c, agents[Target(q)].keys, Due) /\ c.op \in {"lock", "unlock", "show"}
      BY <1>2, <1>4, <1>6 DEF Calm, Course
    <2> HIDE DEF c, d
    <2> QED
      BY <2>1, <1>2, <1>3 DEF Follows
  <1>7. Course(d)
    BY <1>3 DEF Course
  <1> QED
    BY <1>2, <1>4, <1>5, <1>6, <1>7 DEF Calm, Course

LEMMA KeyInvNext ==
    Types /\ AgentInv /\ CmdInv /\ KeyInv /\ [Next]_vars => KeyInv'
  <1> SUFFICES ASSUME Types, AgentInv, CmdInv, KeyInv, [Next]_vars,
                      NEW p \in Actors, cmds'[p].calm
               PROVE  Calm(p)'
    BY DEF KeyInv, Actors
  <1>c. /\ CmdTypes /\ cmds \in [Actors -> CmdRec] /\ agents \in [Instances -> AgentRec]
        /\ socket \in AgentArgs /\ Clients \subseteq Actors /\ Window \in Actors
    BY DEF Types, CmdTypes, AgentTypes, Actors
  <1>1. ASSUME NEW a \in Instances, CheckRunning(a) PROVE Calm(p)'
    <2>1. \A b \in Instances : agents'[b].at = "serving" =>
             agents[b].at = "serving" /\ agents'[b].keys = agents[b].keys
      BY <1>1, <1>c DEF CheckRunning, AgentRec
    <2> QED
      BY <1>1, <2>1, KeysStay DEF CheckRunning, disk
  <1>2. ASSUME NEW a \in Instances, ClearSocket(a) \/ Listen(a) \/ Kill(a) \/ Close(a)
        PROVE  Calm(p)'
    BY <1>2, <1>c, DisturbedAll DEF ClearSocket, Listen, Kill, Close
  <1>3. ASSUME NEW id \in Ids, Expire(id) PROVE Calm(p)'
    BY <1>3, KeysStay DEF Expire, disk
  <1>4. ASSUME NEW q \in Clients, NEW op \in Ops, NEW v \in Vaults, Connect(q, op, v)
        PROVE  Calm(p)'
    <2> DEFINE c == Begin(q, op, v, Reached, None)
    <2>1. op \in CmdOps /\ v \in VaultArgs /\ Reached \in AgentArgs /\ None \in ItemArgs
      BY <1>c DEF CmdOps, VaultArgs, ItemArgs, Reached, AgentArgs
    <2>2. /\ c \in CmdRec /\ c.op = op /\ c.at = "begun"
          /\ c.calm => op \notin {"browse", "create", "read"}
          /\ c.calm => \A r \in Actors : cmds[r].at = "idle"
      BY <2>1, BeginFields, BeginCalm
    <2>3. cmds' = [Disturbed EXCEPT ![q] = c]
      BY <1>4 DEF Connect
    <2> HIDE DEF c
    <2>4. c.calm => Course(c)
      BY <2>2 DEF Course, Ops
    <2>5. cmds'[p] = c /\ Solo(p)' /\ Course(cmds[p])'
      BY <2>2, <2>3, <2>4, <1>c, Beginning
    <2>6. Follows(cmds[p], agents[Target(p)].keys, Due)'
      BY <2>2, <2>5 DEF Follows
    <2> QED
      BY <2>5, <2>6 DEF Calm
  <1>5. ASSUME NEW q \in Clients, AskKey(q) PROVE Calm(p)'
    <2>1. cmds[q].at = "begun" /\ cmds[q].op \in {"unlock", "browse"} /\ cmds[q] \in CmdRec
      BY <1>5, <1>c DEF AskKey
    <2>2. CASE Goes(q, "keyed")
      <3>1. Course(cmds[q]) => Course([cmds[q] EXCEPT !.at = "keyed"])
        BY <2>1 DEF Course, CmdRec
      <3> QED
        BY <2>1, <2>2, <3>1, <1>c, OnTheWay DEF CmdAts
    <2>3. CASE Fails(q)
      BY <2>1, <2>3, <1>c, NoMore DEF Fails
    <2> QED
      BY <1>5, <2>2, <2>3 DEF AskKey
  <1>6. ASSUME NEW q \in Clients, NEW id \in Ids, SessionKey(q, id) PROVE Calm(p)'
    <2>1. /\ cmds[q].at = "begun" /\ cmds[q].op \in {"unlock", "read"} /\ cmds[q] \in CmdRec
          /\ UNCHANGED <<wanted, listed, socket>>
      BY <1>6, <1>c DEF SessionKey, disk
    <2>2. CASE Fails(q)
      BY <2>1, <2>2, <1>c, NoMore DEF Fails
    <2>3. CASE UNCHANGED cmds
      <3>1. PICK a \in AgentArgs : a # None /\ agents' = AfterKey(a, id)
        <4>1. cmds[q].agent \in AgentArgs /\ Reached \in AgentArgs
          BY <2>1, <1>c DEF CmdRec, Reached, AgentArgs
        <4> QED
          BY <4>1, <1>6 DEF SessionKey
      <3>2. \A b \in Instances : agents'[b].at = agents[b].at /\ agents'[b].keys = agents[b].keys
        BY <3>1, <1>c DEF AfterKey, AgentRec
      <3> QED
        BY <2>1, <2>3, <3>2, KeysStay
    <2>4. CASE cmds' = [cmds EXCEPT ![q].at = IF cmds[q].op = "read" THEN "done" ELSE "keyed",
                                    ![q].given = id]
      <3>1. /\ cmds'[q].calm = cmds[q].calm /\ cmds'[q].op = cmds[q].op
            /\ cmds'[q].at = IF cmds[q].op = "read" THEN "done" ELSE "keyed"
            /\ \A r \in Actors \ {q} : cmds'[r] = cmds[r]
        BY <2>1, <2>4, <1>c DEF CmdRec
      <3>2. p = q /\ cmds[p].calm /\ Calm(p) /\ Solo(p)'
        BY <2>1, <3>1, <1>c, OwnStep
      <3>3. cmds[q].op = "unlock"
        BY <2>1, <3>2 DEF Calm, Course
      <3>4. Course(cmds[p])'
        BY <3>1, <3>2, <3>3 DEF Course
      <3>5. Follows(cmds[p], agents[Target(p)].keys, Due)'
        BY <3>1, <3>2, <3>3 DEF Follows
      <3> QED
        BY <3>2, <3>4, <3>5 DEF Calm
    <2> QED
      BY <1>6, <2>2, <2>3, <2>4 DEF SessionKey
  <1>7. ASSUME NEW q \in Clients, MakeVault(q) PROVE Calm(p)'
    <2>1. cmds[q].at = "begun" /\ cmds[q].op = "create" /\ cmds[q] \in CmdRec
      BY <1>7, <1>c DEF MakeVault
    <2>2. CASE Goes(q, "keyed")
      <3>1. ~Course(cmds[q])
        BY <2>1 DEF Course
      <3> QED
        BY <2>1, <2>2, <3>1, <1>c, OnTheWay DEF CmdAts
    <2>3. CASE Fails(q)
      BY <2>1, <2>3, <1>c, NoMore DEF Fails
    <2> QED
      BY <1>7, <2>2, <2>3 DEF MakeVault
  <1>8. ASSUME NEW q \in Clients, NEW life \in {"forever", "limited"}, Unlock(q, life)
        PROVE  Calm(p)'
    <2>1. cmds[q].at = "keyed" /\ cmds[q] \in CmdRec
      BY <1>8, <1>c DEF Unlock
    <2>2. CASE Fails(q)
      BY <2>1, <2>2, <1>c, NoMore DEF Fails
    <2>3. CASE Goes(q, "sshkeys") /\ cmds[q].op = "unlock"
      <3>1. Course(cmds[q]) => Course([cmds[q] EXCEPT !.at = "sshkeys"])
        BY <2>1, <2>3 DEF Course, CmdRec
      <3> QED
        BY <2>1, <2>3, <3>1, <1>c, OnTheWay DEF CmdAts
    <2>4. CASE Goes(q, "done") /\ cmds[q].op # "unlock"
      <3>1. /\ cmds'[q].calm = cmds[q].calm
            /\ \A r \in Actors \ {q} : cmds'[r] = cmds[r]
        BY <2>1, <2>4, <1>c DEF Goes, CmdRec
      <3>2. p = q /\ Calm(p)
        BY <2>1, <3>1, <1>c, OwnStep
      <3> QED
        BY <2>1, <2>4, <3>2 DEF Calm, Course
    <2> QED
      BY <1>8, <2>2, <2>3, <2>4 DEF Unlock
  <1>9. ASSUME NEW q \in Clients, Lock(q) PROVE Calm(p)'
    <2>1. cmds[q].at = "begun" /\ cmds[q].op = "lock" /\ cmds[q] \in CmdRec
      BY <1>9, <1>c DEF Lock
    <2>2. CASE Goes(q, "sshkeys")
      <3>1. Course([cmds[q] EXCEPT !.at = "sshkeys"])
        BY <2>1 DEF Course, CmdRec
      <3> QED
        BY <2>1, <2>2, <3>1, <1>c, OnTheWay DEF CmdAts
    <2>3. CASE Fails(q)
      BY <2>1, <2>3, <1>c, NoMore DEF Fails
    <2> QED
      BY <1>9, <2>2, <2>3 DEF Lock
  <1>10. ASSUME NEW q \in Clients, LoadVault(q) PROVE Calm(p)'
    <2>1. cmds[q].at = "sshkeys" /\ cmds[q] \in CmdRec /\ UNCHANGED <<wanted, listed>>
      BY <1>10, <1>c DEF LoadVault, disk
    <2>2. CASE Fails(q)
      BY <2>1, <2>2, <1>c, NoMore DEF Fails
    <2>3. CASE ~Fails(q)
      <3>1. cmds' = [cmds EXCEPT ![q].at = "range", ![q].todo =
                        IF cmds[q].vault = FirstVault THEN listed ELSE {}]
        BY <1>10, <2>3 DEF LoadVault
      <3>2. /\ cmds'[q].calm = cmds[q].calm /\ cmds'[q].op = cmds[q].op
            /\ cmds'[q].at = "range" /\ cmds'[q].vault = cmds[q].vault
            /\ cmds'[q].todo = IF cmds[q].vault = FirstVault THEN listed ELSE {}
            /\ \A r \in Actors \ {q} : cmds'[r] = cmds[r]
        BY <2>1, <3>1, <1>c DEF CmdRec
      <3>3. p = q /\ cmds[p].calm /\ Calm(p) /\ Solo(p)'
        BY <2>1, <3>2, <1>c, OwnStep
      <3>4. Course(cmds[p])'
        BY <2>1, <3>2, <3>3 DEF Calm, Course
      <3>5. Due' \subseteq listed
        BY <2>1 DEF Due
      <3>6. \A K : Follows(cmds'[p], K, Due')
        BY <3>2, <3>3, <3>5 DEF Follows
      <3>7. Follows(cmds[p], agents[Target(p)].keys, Due)'
        BY <3>6
      <3> QED
        BY <3>3, <3>4, <3>7 DEF Calm
    <2> QED
      BY <2>2, <2>3
  <1>11. ASSUME NEW q \in Actors, NEW k \in SSHItems, HandleKey(q, k) PROVE Calm(p)'
    BY <1>11, LoopStep
  <1>12. ASSUME NEW q \in Actors, NEW k \in SSHItems, ItemUnreadable(q, k) PROVE Calm(p)'
    BY <1>12, <1>c, NoMore DEF ItemUnreadable, Fails
  <1>13. ASSUME NEW q \in Actors, Ranged(q) PROVE Calm(p)'
    BY <1>13, LoopEnds
  <1>14. ASSUME NEW q \in Actors, Exit(q) PROVE Calm(p)'
    BY <1>14, <1>c, NoMore DEF Exit
  <1>15. CASE AddSSHKeysToAgent
    <2>1. listed \in SUBSET SSHItems /\ Due' \subseteq listed /\ None \in ItemArgs
      BY <1>15 DEF AddSSHKeysToAgent, Types, SetTypes, Due, disk, ItemArgs
    <2> QED
      BY <1>15, <2>1, WindowBegins DEF AddSSHKeysToAgent
  <1>16. CASE RemoveSSHKeyFromAgent \/ AddSSHKeyToAgent
    BY <1>16, WindowKey
  <1>17. ASSUME NEW k \in SSHItems, DeleteItem(k) PROVE Calm(p)'
    <2>1. {} \in SUBSET SSHItems /\ k \in ItemArgs
      BY DEF ItemArgs
    <2> QED
      BY <1>17, <2>1, WindowBegins DEF DeleteItem
  <1>18. ASSUME NEW k \in SSHItems, NEW want \in BOOLEAN, SaveItem(k, want) PROVE Calm(p)'
    <2>1. /\ {} \in SUBSET SSHItems /\ k \in ItemArgs
          /\ (IF want THEN "keep" ELSE "drop") \in {"keep", "drop"}
      BY DEF ItemArgs
    <2> QED
      BY <1>18, <2>1, WindowBegins DEF SaveItem
  <1>19. CASE UNCHANGED vars
    BY <1>19, KeysStay DEF vars, disk
  <1> QED
    BY <1>1, <1>2, <1>3, <1>4, <1>5, <1>6, <1>7, <1>8, <1>9, <1>10, <1>11, <1>12, <1>13,
       <1>14, <1>15, <1>16, <1>17, <1>18, <1>19 DEF Next

-----------------------------------------------------------------------------
(* The theorems *)

LEMMA InitIInv == Init => IInv
  <1> SUFFICES ASSUME Init PROVE IInv
    OBVIOUS
  <1>1. Ids = {}
    BY DEF Init, Ids
  <1>2. AgentTypes
    BY DEF Init, AgentTypes, AgentRec, AgentAts, AgentArgs
  <1>3. CmdTypes
    BY IdleRec DEF Init, CmdTypes
  <1>4. OpenedTypes /\ SetTypes /\ overlap \in BOOLEAN
    <2>1. opened = <<>> /\ made = {FirstVault} /\ overlap = FALSE
      BY DEF Init
    <2>2. listed \subseteq SSHItems /\ wanted \subseteq SSHItems
      BY DEF Init
    <2>3. opened \in Seq(OpenedRec)
      BY <2>1
    <2> QED
      BY <2>1, <2>2, <2>3, AgentAssumption DEF OpenedTypes, SetTypes
  <1>5. AgentInv
    BY <1>1 DEF Init, AgentInv
  <1>6. CmdInv
    <2>1. CmdOK(Idle)
      BY DEF CmdOK, Idle
    <2> QED
      BY <2>1 DEF Init, CmdInv
  <1>7. VaultsMade
    BY <1>1 DEF VaultsMade
  <1>8. LockInv
    <2>1. /\ Idle.at = "idle" /\ Idle.given = 0 /\ Idle.barred = {}
          /\ \A p \in Actors : cmds[p] = Idle
      BY DEF Idle, Init
    <2> QED
      BY <2>1 DEF Init, LockInv, LockHolds, Unreachable
  <1>9. SurviveInv
    BY <1>1 DEF Init, SurviveInv, OverEnded, Kept, Alone, Starting, Alive
  <1>10. KeyInv
    <2>1. Idle.calm = FALSE /\ \A p \in Actors : cmds[p] = Idle
      BY DEF Idle, Init
    <2> QED
      BY <2>1 DEF KeyInv
  <1> QED
    BY <1>2, <1>3, <1>4, <1>5, <1>6, <1>7, <1>8, <1>9, <1>10 DEF IInv, Types

\* The invariant the others follow from.
THEOREM Inductive == Spec => []IInv
  <1>1. IInv /\ [Next]_vars => IInv'
    BY TypesNext, AgentInvNext, CmdInvNext, VaultsMadeNext, LockInvNext, SurviveInvNext,
       KeyInvNext DEF IInv
  <1> QED
    BY <1>1, InitIInv, PTL DEF Spec

\* The variables keep their types: a process that does not serve holds
\* nothing, and every session is one of a vault that exists.
THEOREM TypeCorrect == Spec => []TypeOK
  <1>1. IInv => TypeOK
    <2> SUFFICES ASSUME IInv PROVE TypeOK
      OBVIOUS
    <2>1. \A a \in Instances : agents[a] \in AgentRec
      BY DEF IInv, Types, AgentTypes
    <2>2. \A p \in Actors : cmds[p] \in CmdRec /\ (cmds[p].at = "idle" <=> cmds[p] = Idle)
      BY DEF IInv, Types, CmdTypes, CmdInv, CmdOK
    <2>3. \A p \in Actors : /\ cmds[p].todo \subseteq SSHItems
                            /\ cmds[p].at = "idle" <=> cmds[p] = Idle
      BY <2>2 DEF CmdRec
    <2>4. \A a \in Instances : agents[a].at \in AgentAts /\ agents[a].keys \subseteq SSHItems
      BY <2>1 DEF AgentRec
    <2> HIDE DEF Idle
    <2> QED
      BY <2>3, <2>4 DEF IInv, Types, AgentTypes, SetTypes, AgentArgs, AgentInv,
         VaultsMade,
         TypeOK, AgentAts
  <1> QED
    BY <1>1, Inductive, PTL

\* "usm cli lock" holds: a command that begins after it is not given the
\* vault's key by a session opened before it, whichever agent is reached.
THEOREM LockIsFinal == Spec => []LockHolds
  <1>1. IInv => LockHolds
    BY DEF IInv, LockInv
  <1> QED
    BY <1>1, Inductive, PTL

\* As long as no two agents start at the same moment, a session that was not
\* locked, timed out, hung up or killed is in the agent a client reaches.
THEOREM SessionsLive == Spec => []SessionsSurvive
  <1>1. IInv => SessionsSurvive
    <2> SUFFICES ASSUME IInv, ~overlap, NEW id \in Ids \ ended
                 PROVE  Reached # None /\ id \in agents[Reached].sessions
      BY DEF SessionsSurvive
    <2>1. PICK a \in Instances : Alive(a) /\ id \in agents[a].sessions
      BY DEF IInv, SurviveInv, Kept
    <2>2. socket = a
      BY <2>1 DEF IInv, SurviveInv, Alone
    <2> QED
      BY <2>1, <2>2 DEF Alive, Reached
  <1> QED
    BY <1>1, Inductive, PTL

\* The agent holds what a command that met no error and no other command
\* asked for: every key the vault wants there after an unlock, none after a
\* lock, and what the preference of an item says after a save or a delete.
THEOREM KeysAreAsAsked == Spec => []KeysFollowTheCommand
  <1>1. IInv => KeysFollowTheCommand
    <2> SUFFICES ASSUME IInv, NEW p \in Actors, cmds[p].at = "done", cmds[p].calm,
                        Alive(Target(p))
        PROVE  LET c == cmds[p]
                   keys == agents[Target(p)].keys IN
               CASE c.op \in {"unlock", "show"} /\ c.vault = FirstVault -> Due \subseteq keys
                 [] c.op = "lock" /\ c.vault = FirstVault -> Due \cap keys = {}
                 [] c.op = "keep" -> c.item \in keys
                 [] c.op = "drop" -> c.item \notin keys
                 [] OTHER -> TRUE
      BY DEF KeysFollowTheCommand, Target, Due
    <2>1. Follows(cmds[p], agents[Target(p)].keys, Due)
      BY DEF IInv, KeyInv, Calm
    <2> QED
      BY <2>1 DEF Follows
  <1> QED
    BY <1>1, Inductive, PTL

=============================================================================
