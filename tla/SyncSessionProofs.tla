--------------------------- MODULE SyncSessionProofs ---------------------------
(***************************************************************************)
(* Proofs about Negotiation and SyncSession for any set of vaults and      *)
(* catalogue entries, every order of a plan, and a stream and calls that   *)
(* fail whenever they like.                                                *)
(*                                                                         *)
(* Nothing compares the catalogue a peer planned with to the one the other *)
(* peer planned with, and the plan that is executed is not the one that    *)
(* was computed where it is executed.  The invariant ties them together    *)
(* through the messages on their way: a catalogue in the stream is the one *)
(* its sender loaded, a plan in the stream is the initiator's, the one it  *)
(* follows, and a transfer on its way to the initiator shows that the      *)
(* responder accepted that plan.                                           *)
(*                                                                         *)
(* The last part follows the conversation itself.  receiveVault compares   *)
(* nothing: that the files it commits are of the vault it is at follows    *)
(* only from the order of the messages.  Each direction of the stream is a *)
(* walk through the places of a conversation, and the messages on their    *)
(* way to a peer lead from the place it has read up to to the place the    *)
(* other peer has written up to.  Two peers that wait for each other would *)
(* be at one place with different things to say.                           *)
(***************************************************************************)
EXTENDS SyncSession, FiniteSetTheorems, TLAPS

-----------------------------------------------------------------------------
(* What Negotiate and VerifyPlanConsistency guarantee for all catalogues:   *)
(* any number of vaults and any versions, times, checksums, fingerprints.   *)

\* A catalogue: all that is needed of an entry is that versions are integers.
IsEntry(e) == e = NoEntry \/ e.version \in Int
IsCatalogue(c) == \A n \in Names : IsEntry(c[n])

\* Seen from the other side every transfer goes the other way.
LEMMA DirectionMirrors ==
  ASSUME NEW l, NEW r, NEW s \in BOOLEAN, IsEntry(l), IsEntry(r)
  PROVE  Direction(r, l, s) = flipDirection(Direction(l, r, s))
  <1>1. fingerprintMismatch(l, r) <=> fingerprintMismatch(r, l)
    BY DEF fingerprintMismatch
  <1>2. sameChain(l, r) <=> sameChain(r, l)
    BY DEF sameChain, bothStamped
  <1>3. CASE l = NoEntry \/ r = NoEntry
    BY <1>3 DEF Direction, flipDirection
  <1>4. CASE l # NoEntry /\ r # NoEntry /\ s /\ fingerprintMismatch(l, r)
    BY <1>1, <1>4 DEF Direction, flipDirection
  <1>5. CASE l # NoEntry /\ r # NoEntry /\ ~(s /\ fingerprintMismatch(l, r))
    <2>1. Direction(l, r, s) = compareEntries(l, r) /\ Direction(r, l, s) = compareEntries(r, l)
      BY <1>1, <1>5 DEF Direction
    <2>2. compareEntries(r, l) = flipDirection(compareEntries(l, r))
      BY <1>2, <1>5 DEF compareEntries, flipDirection, IsEntry
    <2> QED
      BY <2>1, <2>2
  <1> QED
    BY <1>3, <1>4, <1>5

\* Both sides see the same conflicts.
LEMMA ConflictMirrors ==
  ASSUME NEW l, NEW r, NEW s \in BOOLEAN
  PROVE  InConflict(l, r, s) <=> InConflict(r, l, s)
  BY DEF InConflict, fingerprintMismatch, detectConflict, sameChain, bothStamped

LEMMA DirectionType ==
  ASSUME NEW l, NEW r, NEW s
  PROVE  Direction(l, r, s) \in {"push", "pull", "skip"}
  BY DEF Direction, compareEntries

\* Two peers that exchanged their catalogues and run in the same mode agree: the
\* plan the initiator computes passes the check of the responder, which computed
\* its own from the other side.
THEOREM HonestPlansAgree ==
  ASSUME NEW local, NEW remote, NEW s \in BOOLEAN, IsCatalogue(local), IsCatalogue(remote)
  PROVE  VerifyPlanConsistency(Negotiate(local, remote, s), Negotiate(remote, local, s))
  <1> DEFINE i == Negotiate(local, remote, s)
             r == Negotiate(remote, local, s)
  <1>1. ASSUME NEW n \in Names
        PROVE  /\ r.auto[n] = flipDirection(i.auto[n])
               /\ i.auto[n] \in {"push", "pull", "skip"}
    <2>1. i.auto[n] = Direction(local[n], remote[n], s)
      BY DEF Negotiate
    <2>2. r.auto[n] = Direction(remote[n], local[n], s)
      BY DEF Negotiate
    <2>3. IsEntry(local[n]) /\ IsEntry(remote[n])
      BY DEF IsCatalogue
    <2> QED
      BY <2>1, <2>2, <2>3, DirectionMirrors, DirectionType
  <1>2. i.conflicts = r.conflicts
    BY ConflictMirrors DEF Negotiate
  <1>3. \A n \in Names : /\ i.auto[n] # "skip" => r.auto[n] # "skip"
                         /\ r.auto[n] # "skip" => i.auto[n] # "skip"
    BY <1>1 DEF flipDirection
  <1> QED
    BY <1>1, <1>2, <1>3 DEF VerifyPlanConsistency

\* Whoever runs in Strict mode, a plan the responder accepts moves no vault that
\* both sides hold under different keys: a relaxed initiator cannot push one to
\* a strict responder, and a strict initiator does not ask for one.
THEOREM StrictHoldsBackRekeyedVaults ==
  ASSUME NEW local, NEW remote, NEW si \in BOOLEAN, NEW sr \in BOOLEAN, NEW n \in Names,
         si \/ sr,
         local[n] # NoEntry, remote[n] # NoEntry,
         fingerprintMismatch(local[n], remote[n]),
         VerifyPlanConsistency(Negotiate(local, remote, si), Negotiate(remote, local, sr))
  PROVE  Negotiate(local, remote, si).auto[n] = "skip"
  <1>1. fingerprintMismatch(remote[n], local[n])
    BY DEF fingerprintMismatch
  <1>2. CASE si
    BY <1>2 DEF Negotiate, Direction
  <1>3. CASE sr
    <2>1. Negotiate(remote, local, sr).auto[n] = "skip"
      BY <1>1, <1>3 DEF Negotiate, Direction
    <2> QED
      BY <2>1 DEF VerifyPlanConsistency
  <1> QED
    BY <1>2, <1>3

\* A vault known to both sides only ever moves from the higher version to the
\* lower one, and a vault in conflict does not move at all.
THEOREM TransfersGoForward ==
  ASSUME NEW local, NEW remote, NEW s \in BOOLEAN, NEW n \in Names,
         IsCatalogue(local), IsCatalogue(remote),
         local[n] # NoEntry, remote[n] # NoEntry
  PROVE  LET p == Negotiate(local, remote, s)
         IN /\ p.auto[n] = "push" => local[n].version > remote[n].version
            /\ p.auto[n] = "pull" => remote[n].version > local[n].version
            /\ n \in p.conflicts => p.auto[n] = "skip"
  <1> DEFINE l == local[n]
             r == remote[n]
  <1>1. Negotiate(local, remote, s).auto[n] = Direction(l, r, s)
    BY DEF Negotiate
  <1>2. n \in Negotiate(local, remote, s).conflicts <=> InConflict(l, r, s)
    BY DEF Negotiate
  <1>3. l.version \in Int /\ r.version \in Int
    BY DEF IsCatalogue, IsEntry
  <1>4. /\ Direction(l, r, s) = "push" => l.version > r.version
        /\ Direction(l, r, s) = "pull" => r.version > l.version
    BY DEF Direction, compareEntries
  <1>5. InConflict(l, r, s) => Direction(l, r, s) = "skip"
    BY <1>3 DEF Direction, compareEntries, InConflict, detectConflict
  <1> QED
    BY <1>1, <1>2, <1>4, <1>5

-----------------------------------------------------------------------------
(* The inductive invariant *)

InitAts == {"start", "catalogue", "send", "receive", "files", "record", "done", "failed"}
RespAts == {"start", "catalogue", "plan", "receive", "files", "record", "send",
            "complete", "done", "failed"}
Plans == [auto : [Names -> {"push", "pull", "skip"}], conflicts : SUBSET Names]
Pairs == [{"push", "pull"} -> Orders(Names)]

PcTypes == /\ pc \in [Peers -> InitAts \cup RespAts]
           /\ pc["init"] \in InitAts /\ pc["resp"] \in RespAts
CatTypes == cat \in [Peers -> Catalogues] /\ mine \in [Peers -> Catalogues]
            /\ theirs \in [Peers -> Catalogues]
DiskTypes == disk \in [Peers -> Disks] /\ had \in [Peers -> Disks]
             /\ staged \in [Peers -> SUBSET Tags]
GivenTypes == /\ strict \in [Peers -> BOOLEAN] /\ trusts \in [Peers -> BOOLEAN]
              /\ chained \in [Peers -> BOOLEAN] /\ fallible \in BOOLEAN
PlanTypes == plan \in [Peers -> Plans] /\ order \in Pairs
TodoTypes == /\ todo \in [Peers -> Seq(Names)]
             /\ \A p \in Peers : pc[p] \in {"files", "record"} => todo[p] # <<>>
ChanTypes == chan \in [Peers -> Seq(Messages)]
RestTypes == /\ stream \in {"none", "open", "broken"}
             /\ synced \subseteq Peers /\ locked \in BOOLEAN
             /\ faults \in 0 .. MaxFaults /\ unmatched \subseteq Names
Types == /\ PcTypes /\ CatTypes /\ DiskTypes /\ GivenTypes /\ PlanTypes /\ TodoTypes
         /\ ChanTypes /\ RestTypes

\* The initiator has made its plan; the responder has accepted it.
Planned == pc["init"] \in {"send", "receive", "files", "record", "done"}
Accepted == pc["resp"] \in {"receive", "files", "record", "send", "complete", "done"}

\* What may be on its way to a peer.
To(p) == {m \in Messages :
             /\ m.action = "catalogue" => m.body = mine[Other(p)]
             /\ m.action # "catalogue" => Planned
             /\ m.action = "sync_plan" =>
                   p = "resp" /\ m.body = plan["init"] /\ m.order = order
             /\ m.action = "transfer_begin" /\ p = "init" => Accepted}
ChanInv == \A p \in Peers : chan[p] \in Seq(To(p))

\* The catalogue a peer plans with is the one it had when the session began.
StartInv == \A p \in Peers : pc[p] \in {"start", "catalogue", "plan"} => cat[p] = mine[p]

\* Each peer plans with the catalogues that both of them loaded.
InitPlan == Negotiate(mine["init"], mine["resp"], strict["init"])
RespPlan == Negotiate(mine["resp"], mine["init"], strict["resp"])
PlanInv == /\ Planned => plan["init"] = InitPlan /\ order \in Lists(plan["init"])
           /\ pc["resp"] = "plan" => plan["resp"] = RespPlan
           /\ Accepted => Planned /\ VerifyPlanConsistency(InitPlan, RespPlan)

\* The loops go over the vaults the plan moves, and the initiator receives only
\* from a responder that accepted it.
Moved == {n \in Names : InitPlan.auto[n] # "skip"}
LoopInv == /\ Planned => todo["init"] \in Seq(Moved)
           /\ Accepted => todo["resp"] \in Seq(Moved)
           /\ pc["init"] \in {"files", "record"} => Accepted

IInv == Types /\ ChanInv /\ StartInv /\ PlanInv /\ LoopInv /\ RekeyedVaultStays

-----------------------------------------------------------------------------
(* Sequences *)

LEMMA SeqMono == \A S, T : S \subseteq T => Seq(S) \subseteq Seq(T)
  OBVIOUS

\* An order of a set of vaults is a sequence of vaults of that set.
LEMMA SetSeqs ==
    ASSUME NEW S, IsFiniteSet(S) PROVE SetToSeqs(S) \subseteq Seq(S)
  <1>1. Cardinality(S) \in Nat
    BY FS_CardinalityType
  <1> QED
    BY <1>1 DEF SetToSeqs

\* The lists of a plan: their vaults are those the plan pushes, or pulls.
LEMMA ListsMoved ==
    ASSUME NEW pl, NEW o \in Lists(pl), NEW dir \in {"push", "pull"}
    PROVE  o \in Pairs /\ o[dir] \in Seq({n \in Names : pl.auto[n] # "skip"})
  <1> DEFINE S == {n \in Names : pl.auto[n] = dir}
             M == {n \in Names : pl.auto[n] # "skip"}
  <1>1. o \in Pairs /\ o[dir] \in SetToSeqs(S)
    BY DEF Lists, Pairs
  <1>2. IsFiniteSet(S)
    BY StartsAssumption, FS_Subset
  <1>3. S \subseteq M
    OBVIOUS
  <1>4. o[dir] \in Seq(S)
    BY <1>1, <1>2, SetSeqs
  <1> HIDE DEF S, M
  <1>5. o[dir] \in Seq(M)
    BY <1>3, <1>4, SeqMono
  <1> QED
    BY <1>1, <1>5 DEF M

-----------------------------------------------------------------------------
(* Types *)

LEMMA NegotiateType == \A l, r, b : Negotiate(l, r, b) \in Plans
  BY DirectionType DEF Negotiate, Plans

LEMMA NoPlanType == NoPlan \in Plans
  BY DEF NoPlan, Plans

LEMMA CatalogueMessage ==
    \A c \in Catalogues : /\ [action |-> "catalogue", body |-> c] \in Messages
  BY DEF Messages

LEMMA PlanMessage ==
    \A pl \in Plans, o \in Pairs :
       [action |-> "sync_plan", body |-> pl, order |-> o] \in Messages
  BY DEF Messages, Plans, Pairs

LEMMA CompleteMessage == [action |-> "sync_complete"] \in Messages
  BY DEF Messages

LEMMA VaultMessages ==
    ASSUME NEW n \in Names, NEW fs \in SUBSET Tags
    PROVE  Begin(n) \in Messages /\ End(n) \in Messages /\ File(n, fs) \in Messages
  <1>1. Begin(n) \in Messages /\ End(n) \in Messages
    BY DEF Messages, Begin, End
  <1>2. File(n, fs) \in Messages
    BY DEF Messages, File
  <1> QED
    BY <1>1, <1>2

LEMMA MessageFields ==
    ASSUME NEW m \in Messages
    PROVE  /\ m.action = "catalogue" => m.body \in Catalogues
           /\ m.action = "sync_plan" => m.body \in Plans /\ m.order \in Pairs
           /\ m.action = "transfer_file" => m.files \subseteq Tags
  BY DEF Messages, Plans, Pairs

\* An order of vaults is a sequence of vaults.
LEMMA PairsSeq == \A o \in Pairs, dir \in {"push", "pull"} : o[dir] \in Seq(Names)
  <1> SUFFICES ASSUME NEW o \in Pairs, NEW dir \in {"push", "pull"}
               PROVE  o[dir] \in Seq(Names)
    OBVIOUS
  <1>1. PICK S \in SUBSET Names : o[dir] \in SetToSeqs(S)
    BY DEF Pairs, Orders
  <1>2. o[dir] \in Seq(S)
    BY <1>1, StartsAssumption, FS_Subset, SetSeqs
  <1> QED
    BY <1>2, SeqMono

\* A message a peer reads, and the fields it then has.
LEMMA Reads ==
    ASSUME ChanTypes, NEW p \in Peers, CanRead(p)
    PROVE  /\ Incoming(p).action = "catalogue" => Incoming(p).body \in Catalogues
           /\ Incoming(p).action = "sync_plan" =>
                 Incoming(p).body \in Plans /\ Incoming(p).order \in Pairs
           /\ Incoming(p).action = "transfer_file" => Incoming(p).files \subseteq Tags
  <1>1. Incoming(p) \in Messages
    BY DEF ChanTypes, CanRead, Incoming
  <1> QED
    BY <1>1, MessageFields

\* Where the peers are.
LEMMA PcNext == PcTypes /\ [Next]_vars => PcTypes'
  <1> SUFFICES ASSUME PcTypes, [Next]_vars PROVE PcTypes'
    OBVIOUS
  <1>1. CASE Open
    BY <1>1 DEF Open, Goto, PcTypes, InitAts, RespAts, Peers
  <1>2. CASE OpenFails
    BY <1>2 DEF OpenFails, Fail, Goto, PcTypes, InitAts, RespAts, Peers
  <1>3. CASE Accept
    BY <1>3 DEF Accept, Goto, PcTypes, InitAts, RespAts, Peers
  <1>4. CASE Reject
    BY <1>4 DEF Reject, Fail, Goto, PcTypes, InitAts, RespAts, Peers
  <1>5. CASE AnswerCatalogue
    BY <1>5 DEF AnswerCatalogue, Goto, PcTypes, InitAts, RespAts, Peers
  <1>6. CASE SendPlan
    BY <1>6 DEF SendPlan, Goto, PcTypes, InitAts, RespAts, Peers
  <1>7. CASE AcceptPlan
    BY <1>7 DEF AcceptPlan, FollowPlan, Goto, PcTypes, InitAts, RespAts, Peers
  <1>8. CASE RefusePlan
    BY <1>8 DEF RefusePlan, Fail, Goto, PcTypes, InitAts, RespAts, Peers
  <1>9. ASSUME NEW p \in Peers, HandshakeFails(p) PROVE PcTypes'
    BY <1>9 DEF HandshakeFails, Fail, Goto, PcTypes, InitAts, RespAts, Peers
  <1>10. ASSUME NEW p \in Peers, SendVault(p) PROVE PcTypes'
    BY <1>10 DEF SendVault, Goto, PcTypes, InitAts, RespAts, Peers
  <1>11. ASSUME NEW p \in Peers, SendDone(p) PROVE PcTypes'
    BY <1>11 DEF SendDone, Goto, PcTypes, InitAts, RespAts, Peers
  <1>12. ASSUME NEW p \in Peers, ReceiveBegin(p) PROVE PcTypes'
    BY <1>12 DEF ReceiveBegin, Goto, PcTypes, InitAts, RespAts, Peers
  <1>13. ASSUME NEW p \in Peers, ReceiveFile(p) PROVE PcTypes'
    BY <1>13 DEF ReceiveFile, Goto, PcTypes, InitAts, RespAts, Peers
  <1>14. ASSUME NEW p \in Peers, ReceiveEnd(p) PROVE PcTypes'
    BY <1>14 DEF ReceiveEnd, Goto, PcTypes, InitAts, RespAts, Peers
  <1>15. ASSUME NEW p \in Peers, ReceiveFails(p) PROVE PcTypes'
    BY <1>15 DEF ReceiveFails, Goto, PcTypes, InitAts, RespAts, Peers
  <1>16. ASSUME NEW p \in Peers, Record(p) PROVE PcTypes'
    BY <1>16 DEF Record, Goto, PcTypes, InitAts, RespAts, Peers
  <1>17. CASE Complete
    BY <1>17 DEF Complete, Goto, PcTypes, InitAts, RespAts, Peers
  <1>18. CASE StartSending
    BY <1>18 DEF StartSending, Goto, PcTypes, InitAts, RespAts, Peers
  <1>19. CASE AwaitComplete
    BY <1>19 DEF AwaitComplete, Goto, PcTypes, InitAts, RespAts, Peers
  <1>20. CASE Break
    BY <1>20 DEF Break, Goto, PcTypes, InitAts, RespAts, Peers
  <1>21. CASE UNCHANGED vars
    BY <1>21 DEF vars, PcTypes
  <1> QED
    BY <1>1, <1>2, <1>3, <1>4, <1>5, <1>6, <1>7, <1>8, <1>9, <1>10, <1>11, <1>12, <1>13,
       <1>14, <1>15, <1>16, <1>17, <1>18, <1>19, <1>20, <1>21
       DEF Next, Session, Handshake, Transfer, Ending, Over

\* The modes and the trust stores stay as they are, and so does the history.
LEMMA GivenNext == [Next]_vars => given' = given
  <1> SUFFICES ASSUME [Next]_vars PROVE given' = given
    OBVIOUS
  <1>1. CASE Open
    BY <1>1 DEF Open, given
  <1>2. CASE OpenFails
    BY <1>2 DEF OpenFails, Fail, given
  <1>3. CASE Accept
    BY <1>3 DEF Accept, given
  <1>4. CASE Reject
    BY <1>4 DEF Reject, Fail, given
  <1>5. CASE AnswerCatalogue
    BY <1>5 DEF AnswerCatalogue, given
  <1>6. CASE SendPlan
    BY <1>6 DEF SendPlan, given
  <1>7. CASE AcceptPlan
    BY <1>7 DEF AcceptPlan, FollowPlan, given
  <1>8. CASE RefusePlan
    BY <1>8 DEF RefusePlan, Fail, given
  <1>9. ASSUME NEW p \in Peers, HandshakeFails(p) PROVE given' = given
    BY <1>9 DEF HandshakeFails, Fail, given
  <1>10. ASSUME NEW p \in Peers, SendVault(p) PROVE given' = given
    BY <1>10 DEF SendVault, given
  <1>11. ASSUME NEW p \in Peers, SendDone(p) PROVE given' = given
    BY <1>11 DEF SendDone, given
  <1>12. ASSUME NEW p \in Peers, ReceiveBegin(p) PROVE given' = given
    BY <1>12 DEF ReceiveBegin, given
  <1>13. ASSUME NEW p \in Peers, ReceiveFile(p) PROVE given' = given
    BY <1>13 DEF ReceiveFile, given
  <1>14. ASSUME NEW p \in Peers, ReceiveEnd(p) PROVE given' = given
    BY <1>14 DEF ReceiveEnd, given
  <1>15. ASSUME NEW p \in Peers, ReceiveFails(p) PROVE given' = given
    BY <1>15 DEF ReceiveFails, given
  <1>16. ASSUME NEW p \in Peers, Record(p) PROVE given' = given
    BY <1>16 DEF Record, given
  <1>17. CASE Complete
    BY <1>17 DEF Complete, given
  <1>18. CASE StartSending
    BY <1>18 DEF StartSending, given
  <1>19. CASE AwaitComplete
    BY <1>19 DEF AwaitComplete, given
  <1>20. CASE Break
    BY <1>20 DEF Break, given
  <1>21. CASE UNCHANGED vars
    BY <1>21 DEF vars, given
  <1> QED
    BY <1>1, <1>2, <1>3, <1>4, <1>5, <1>6, <1>7, <1>8, <1>9, <1>10, <1>11, <1>12, <1>13,
       <1>14, <1>15, <1>16, <1>17, <1>18, <1>19, <1>20, <1>21
       DEF Next, Session, Handshake, Transfer, Ending, Over

\* A peer that records a vault changes no other entry; the entry is one of those
\* there are, with the version and the time of the one it received.
LEMMA EntryMade ==
    ASSUME GivenTypes, CatTypes, NEW p \in Peers, NEW own \in Entries \cup {NoEntry},
           NEW e \in Entries
    PROVE  /\ UpdatedEntry(p, own, e) \in Entries
           /\ UpdatedEntry(p, own, e).version = e.version
           /\ UpdatedEntry(p, own, e).modified = e.modified
  <1>1. CASE chained[p]
    BY <1>1 DEF UpdatedEntry
  <1>2. CASE ~chained[p]
    <2> DEFINE sum == IF own = NoEntry THEN NoSum ELSE own.chainCS
    <2>1. sum \in {NoSum} \cup {o.chainCS : o \in Entries}
      OBVIOUS
    <2> HIDE DEF sum
    <2>2. Copied(e, sum) \in Entries
      BY <2>1, StartsAssumption
    <2>3. Copied(e, sum).version = e.version /\ Copied(e, sum).modified = e.modified
      BY DEF Copied
    <2>4. UpdatedEntry(p, own, e) = Copied(e, sum)
      BY <1>2 DEF UpdatedEntry, sum
    <2> QED
      BY <2>2, <2>3, <2>4
  <1> QED
    BY <1>1, <1>2

Written(p) == UpdatedEntry(p, cat[p][Head(todo[p])], theirs[p][Head(todo[p])])
LEMMA RecordStep ==
    ASSUME Types, NEW p \in Peers, Record(p)
    PROVE  /\ Head(todo[p]) \in Names
           /\ \/ cat' = cat
              \/ /\ theirs[p][Head(todo[p])] \in Entries
                 /\ cat' = [cat EXCEPT ![p][Head(todo[p])] = Written(p)]
                 /\ Written(p) \in Entries
                 /\ Written(p).version = theirs[p][Head(todo[p])].version
                 /\ Written(p).modified = theirs[p][Head(todo[p])].modified
  <1>1. Head(todo[p]) \in Names
    BY DEF Record, Types, TodoTypes
  <1> DEFINE h == Head(todo[p])
  <1>2. cat[p][h] \in Entries \cup {NoEntry} /\ theirs[p][h] \in Entries \cup {NoEntry}
    BY <1>1 DEF Types, CatTypes, Catalogues
  <1>3. cat' = cat \/ (theirs[p][h] # NoEntry /\ cat' = [cat EXCEPT ![p][h] = Written(p)])
    BY DEF Record, Written
  <1> QED
    BY <1>1, <1>2, <1>3, EntryMade DEF Types, Written

\* The catalogues: what a peer loads, what it receives and what it records.
LEMMA CatNext == Types /\ [Next]_vars => CatTypes'
  <1> SUFFICES ASSUME Types, [Next]_vars PROVE CatTypes'
    OBVIOUS
  <1>1. CASE Open
    BY <1>1 DEF Open, Types, CatTypes, Peers
  <1>2. CASE OpenFails
    BY <1>2 DEF OpenFails, Fail, Types, CatTypes
  <1>3. CASE Accept
    BY <1>3 DEF Accept, Types, CatTypes
  <1>4. CASE Reject
    BY <1>4 DEF Reject, Fail, Types, CatTypes
  <1>5. CASE AnswerCatalogue
    BY <1>5, Reads DEF AnswerCatalogue, Types, CatTypes, Peers
  <1>6. CASE SendPlan
    BY <1>6, Reads DEF SendPlan, Types, CatTypes, Peers
  <1>7. CASE AcceptPlan
    BY <1>7 DEF AcceptPlan, FollowPlan, Types, CatTypes
  <1>8. CASE RefusePlan
    BY <1>8 DEF RefusePlan, Fail, Types, CatTypes
  <1>9. ASSUME NEW p \in Peers, HandshakeFails(p) PROVE CatTypes'
    BY <1>9 DEF HandshakeFails, Fail, Types, CatTypes
  <1>10. ASSUME NEW p \in Peers, SendVault(p) PROVE CatTypes'
    BY <1>10 DEF SendVault, Types, CatTypes
  <1>11. ASSUME NEW p \in Peers, SendDone(p) PROVE CatTypes'
    BY <1>11 DEF SendDone, Types, CatTypes
  <1>12. ASSUME NEW p \in Peers, ReceiveBegin(p) PROVE CatTypes'
    BY <1>12 DEF ReceiveBegin, Types, CatTypes
  <1>13. ASSUME NEW p \in Peers, ReceiveFile(p) PROVE CatTypes'
    BY <1>13 DEF ReceiveFile, Types, CatTypes
  <1>14. ASSUME NEW p \in Peers, ReceiveEnd(p) PROVE CatTypes'
    BY <1>14 DEF ReceiveEnd, Types, CatTypes
  <1>15. ASSUME NEW p \in Peers, ReceiveFails(p) PROVE CatTypes'
    BY <1>15 DEF ReceiveFails, Types, CatTypes
  <1>16. ASSUME NEW p \in Peers, Record(p) PROVE CatTypes'
    <2>1. mine' = mine /\ theirs' = theirs
      BY <1>16 DEF Record
    <2>2. cat' \in [Peers -> Catalogues]
      BY <1>16, RecordStep DEF Types, CatTypes, Catalogues
    <2> QED
      BY <2>1, <2>2 DEF Types, CatTypes
  <1>17. CASE Complete
    BY <1>17 DEF Complete, Types, CatTypes
  <1>18. CASE StartSending
    BY <1>18 DEF StartSending, Types, CatTypes
  <1>19. CASE AwaitComplete
    BY <1>19 DEF AwaitComplete, Types, CatTypes
  <1>20. CASE Break
    BY <1>20 DEF Break, Types, CatTypes
  <1>21. CASE UNCHANGED vars
    BY <1>21 DEF vars, Types, CatTypes
  <1> QED
    BY <1>1, <1>2, <1>3, <1>4, <1>5, <1>6, <1>7, <1>8, <1>9, <1>10, <1>11, <1>12, <1>13,
       <1>14, <1>15, <1>16, <1>17, <1>18, <1>19, <1>20, <1>21
       DEF Next, Session, Handshake, Transfer, Ending, Over

\* The vault directories and the staged files.
LEMMA DiskNext == Types /\ [Next]_vars => DiskTypes'
  <1> SUFFICES ASSUME Types, [Next]_vars PROVE DiskTypes'
    OBVIOUS
  <1>1. CASE Open
    BY <1>1 DEF Open, Types, DiskTypes, given
  <1>2. CASE OpenFails
    BY <1>2 DEF OpenFails, Fail, Types, DiskTypes, given
  <1>3. CASE Accept
    BY <1>3 DEF Accept, Types, DiskTypes, given
  <1>4. CASE Reject
    BY <1>4 DEF Reject, Fail, Types, DiskTypes, given
  <1>5. CASE AnswerCatalogue
    BY <1>5 DEF AnswerCatalogue, Types, DiskTypes, given
  <1>6. CASE SendPlan
    BY <1>6 DEF SendPlan, Types, DiskTypes, given
  <1>7. CASE AcceptPlan
    BY <1>7 DEF AcceptPlan, FollowPlan, Types, DiskTypes, given
  <1>8. CASE RefusePlan
    BY <1>8 DEF RefusePlan, Fail, Types, DiskTypes, given
  <1>9. ASSUME NEW p \in Peers, HandshakeFails(p) PROVE DiskTypes'
    BY <1>9 DEF HandshakeFails, Fail, Types, DiskTypes, given
  <1>10. ASSUME NEW p \in Peers, SendVault(p) PROVE DiskTypes'
    BY <1>10 DEF SendVault, Types, DiskTypes, given
  <1>11. ASSUME NEW p \in Peers, SendDone(p) PROVE DiskTypes'
    BY <1>11 DEF SendDone, Types, DiskTypes, given
  <1>12. ASSUME NEW p \in Peers, ReceiveBegin(p) PROVE DiskTypes'
    <2>1. Head(todo[p]) \in Names
      BY <1>12 DEF ReceiveBegin, Types, TodoTypes
    <2>2. disk' = [disk EXCEPT ![p][Head(todo[p])] = IF @ = NoVault THEN {} ELSE @]
      BY <1>12 DEF ReceiveBegin
    <2>3. staged' = [staged EXCEPT ![p] = {}] /\ had' = had
      BY <1>12 DEF ReceiveBegin, given
    <2> QED
      BY <2>1, <2>2, <2>3 DEF Types, DiskTypes, Disks
  <1>13. ASSUME NEW p \in Peers, ReceiveFile(p) PROVE DiskTypes'
    BY <1>13, Reads DEF ReceiveFile, Types, DiskTypes, given
  <1>14. ASSUME NEW p \in Peers, ReceiveEnd(p) PROVE DiskTypes'
    <2>1. Head(todo[p]) \in Names
      BY <1>14 DEF ReceiveEnd, Types, TodoTypes
    <2>2. disk' = [disk EXCEPT ![p][Head(todo[p])] = staged[p]]
      BY <1>14 DEF ReceiveEnd
    <2>3. staged' = staged /\ had' = had
      BY <1>14 DEF ReceiveEnd, given
    <2> QED
      BY <2>1, <2>2, <2>3 DEF Types, DiskTypes, Disks
  <1>15. ASSUME NEW p \in Peers, ReceiveFails(p) PROVE DiskTypes'
    BY <1>15 DEF ReceiveFails, Types, DiskTypes, given
  <1>16. ASSUME NEW p \in Peers, Record(p) PROVE DiskTypes'
    BY <1>16 DEF Record, Types, DiskTypes, given
  <1>17. CASE Complete
    BY <1>17 DEF Complete, Types, DiskTypes, given
  <1>18. CASE StartSending
    BY <1>18 DEF StartSending, Types, DiskTypes, given
  <1>19. CASE AwaitComplete
    BY <1>19 DEF AwaitComplete, Types, DiskTypes, given
  <1>20. CASE Break
    BY <1>20 DEF Break, Types, DiskTypes, given
  <1>21. CASE UNCHANGED vars
    BY <1>21 DEF vars, Types, DiskTypes, given
  <1> QED
    BY <1>1, <1>2, <1>3, <1>4, <1>5, <1>6, <1>7, <1>8, <1>9, <1>10, <1>11, <1>12, <1>13,
       <1>14, <1>15, <1>16, <1>17, <1>18, <1>19, <1>20, <1>21
       DEF Next, Session, Handshake, Transfer, Ending, Over

\* The plans and their order.
LEMMA PlanNext == Types /\ [Next]_vars => PlanTypes'
  <1> SUFFICES ASSUME Types, [Next]_vars PROVE PlanTypes'
    OBVIOUS
  <1>1. CASE Open
    BY <1>1 DEF Open, Types, PlanTypes
  <1>2. CASE OpenFails
    BY <1>2 DEF OpenFails, Fail, Types, PlanTypes
  <1>3. CASE Accept
    BY <1>3 DEF Accept, Types, PlanTypes
  <1>4. CASE Reject
    BY <1>4 DEF Reject, Fail, Types, PlanTypes
  <1>5. CASE AnswerCatalogue
    BY <1>5, NegotiateType DEF AnswerCatalogue, Types, PlanTypes
  <1>6. CASE SendPlan
    <2> DEFINE pl == Negotiate(mine["init"], Incoming("init").body, strict["init"])
    <2>1. PICK o \in Lists(pl) : plan' = [plan EXCEPT !["init"] = pl] /\ order' = o
      BY <1>6 DEF SendPlan
    <2>2. pl \in Plans /\ o \in Pairs
      BY NegotiateType, ListsMoved
    <2> QED
      BY <2>1, <2>2 DEF Types, PlanTypes
  <1>7. CASE AcceptPlan
    BY <1>7, Reads DEF AcceptPlan, FollowPlan, Types, PlanTypes, Peers
  <1>8. CASE RefusePlan
    BY <1>8 DEF RefusePlan, Fail, Types, PlanTypes
  <1>9. ASSUME NEW p \in Peers, HandshakeFails(p) PROVE PlanTypes'
    BY <1>9 DEF HandshakeFails, Fail, Types, PlanTypes
  <1>10. ASSUME NEW p \in Peers, SendVault(p) PROVE PlanTypes'
    BY <1>10 DEF SendVault, Types, PlanTypes
  <1>11. ASSUME NEW p \in Peers, SendDone(p) PROVE PlanTypes'
    BY <1>11 DEF SendDone, Types, PlanTypes
  <1>12. ASSUME NEW p \in Peers, ReceiveBegin(p) PROVE PlanTypes'
    BY <1>12 DEF ReceiveBegin, Types, PlanTypes
  <1>13. ASSUME NEW p \in Peers, ReceiveFile(p) PROVE PlanTypes'
    BY <1>13 DEF ReceiveFile, Types, PlanTypes
  <1>14. ASSUME NEW p \in Peers, ReceiveEnd(p) PROVE PlanTypes'
    BY <1>14 DEF ReceiveEnd, Types, PlanTypes
  <1>15. ASSUME NEW p \in Peers, ReceiveFails(p) PROVE PlanTypes'
    BY <1>15 DEF ReceiveFails, Types, PlanTypes
  <1>16. ASSUME NEW p \in Peers, Record(p) PROVE PlanTypes'
    BY <1>16 DEF Record, Types, PlanTypes
  <1>17. CASE Complete
    BY <1>17 DEF Complete, Types, PlanTypes
  <1>18. CASE StartSending
    BY <1>18 DEF StartSending, Types, PlanTypes
  <1>19. CASE AwaitComplete
    BY <1>19 DEF AwaitComplete, Types, PlanTypes
  <1>20. CASE Break
    BY <1>20 DEF Break, Types, PlanTypes
  <1>21. CASE UNCHANGED vars
    BY <1>21 DEF vars, Types, PlanTypes
  <1> QED
    BY <1>1, <1>2, <1>3, <1>4, <1>5, <1>6, <1>7, <1>8, <1>9, <1>10, <1>11, <1>12, <1>13,
       <1>14, <1>15, <1>16, <1>17, <1>18, <1>19, <1>20, <1>21
       DEF Next, Session, Handshake, Transfer, Ending, Over

\* The loops; the loop that receives is over only where it is left.
LEMMA TodoNext == Types /\ [Next]_vars => TodoTypes'
  <1> SUFFICES ASSUME Types, [Next]_vars PROVE TodoTypes'
    OBVIOUS
  <1>1. CASE Open
    BY <1>1 DEF Open, Types, TodoTypes, PcTypes, Goto
  <1>2. CASE OpenFails
    BY <1>2 DEF OpenFails, Fail, Types, TodoTypes, PcTypes, Goto
  <1>3. CASE Accept
    BY <1>3 DEF Accept, Types, TodoTypes, PcTypes, Goto
  <1>4. CASE Reject
    BY <1>4 DEF Reject, Fail, Types, TodoTypes, PcTypes, Goto
  <1>5. CASE AnswerCatalogue
    BY <1>5 DEF AnswerCatalogue, Types, TodoTypes, PcTypes, Goto
  <1>6. CASE SendPlan
    <2> DEFINE pl == Negotiate(mine["init"], Incoming("init").body, strict["init"])
    <2>1. PICK o \in Lists(pl) : todo' = [todo EXCEPT !["init"] = o["push"]]
      BY <1>6 DEF SendPlan
    <2>2. o["push"] \in Seq(Names)
      BY ListsMoved, PairsSeq
    <2> QED
      BY <1>6, <2>1, <2>2 DEF SendPlan, Types, TodoTypes, PcTypes, Goto
  <1>7. CASE AcceptPlan
    <2>1. Incoming("resp").order["push"] \in Seq(Names)
      BY <1>7, Reads, PairsSeq DEF AcceptPlan, FollowPlan, Types, Peers
    <2> QED
      BY <1>7, <2>1 DEF AcceptPlan, FollowPlan, Types, TodoTypes, PcTypes, Goto
  <1>8. CASE RefusePlan
    BY <1>8 DEF RefusePlan, Fail, Types, TodoTypes, PcTypes, Goto
  <1>9. ASSUME NEW p \in Peers, HandshakeFails(p) PROVE TodoTypes'
    BY <1>9 DEF HandshakeFails, Fail, Types, TodoTypes, PcTypes, Goto
  <1>10. ASSUME NEW p \in Peers, SendVault(p) PROVE TodoTypes'
    BY <1>10 DEF SendVault, Types, TodoTypes, PcTypes, Goto
  <1>11. ASSUME NEW p \in Peers, SendDone(p) PROVE TodoTypes'
    BY <1>11, PairsSeq DEF SendDone, Types, TodoTypes, PcTypes, PlanTypes, Goto
  <1>12. ASSUME NEW p \in Peers, ReceiveBegin(p) PROVE TodoTypes'
    <2>1. pc[p] = "receive" /\ todo[p] # <<>>
      BY <1>12 DEF ReceiveBegin
    <2>2. CASE todo' = todo /\ pc' = [pc EXCEPT ![p] = "files"]
      BY <2>1, <2>2 DEF Types, TodoTypes, PcTypes
    <2>3. CASE todo' = [todo EXCEPT ![p] = Tail(@)] /\ pc' = pc
      BY <2>1, <2>3 DEF Types, TodoTypes, PcTypes
    <2> QED
      BY <1>12, <2>2, <2>3 DEF ReceiveBegin, Goto
  <1>13. ASSUME NEW p \in Peers, ReceiveFile(p) PROVE TodoTypes'
    BY <1>13 DEF ReceiveFile, Types, TodoTypes, PcTypes, Goto
  <1>14. ASSUME NEW p \in Peers, ReceiveEnd(p) PROVE TodoTypes'
    BY <1>14 DEF ReceiveEnd, Types, TodoTypes, PcTypes, Goto
  <1>15. ASSUME NEW p \in Peers, ReceiveFails(p) PROVE TodoTypes'
    BY <1>15 DEF ReceiveFails, Types, TodoTypes, PcTypes, Goto
  <1>16. ASSUME NEW p \in Peers, Record(p) PROVE TodoTypes'
    BY <1>16 DEF Record, Types, TodoTypes, PcTypes, Goto
  <1>17. CASE Complete
    BY <1>17 DEF Complete, Types, TodoTypes, PcTypes, Goto
  <1>18. CASE StartSending
    BY <1>18, PairsSeq DEF StartSending, Types, TodoTypes, PcTypes, PlanTypes, Goto
  <1>19. CASE AwaitComplete
    BY <1>19 DEF AwaitComplete, Types, TodoTypes, PcTypes, Goto
  <1>20. CASE Break
    BY <1>20 DEF Break, Types, TodoTypes, PcTypes, Goto
  <1>21. CASE UNCHANGED vars
    BY <1>21 DEF vars, Types, TodoTypes
  <1> QED
    BY <1>1, <1>2, <1>3, <1>4, <1>5, <1>6, <1>7, <1>8, <1>9, <1>10, <1>11, <1>12, <1>13,
       <1>14, <1>15, <1>16, <1>17, <1>18, <1>19, <1>20, <1>21
       DEF Next, Session, Handshake, Transfer, Ending, Over

\* The stream, the two windows and what the session has come to.
LEMMA RestNext == Types /\ [Next]_vars => RestTypes'
  <1> SUFFICES ASSUME Types, [Next]_vars PROVE RestTypes'
    OBVIOUS
  <1>1. CASE Open
    BY <1>1 DEF Open, Types, RestTypes, Peers
  <1>2. CASE OpenFails
    BY <1>2 DEF OpenFails, Fail, Types, RestTypes, Peers
  <1>3. CASE Accept
    BY <1>3 DEF Accept, Types, RestTypes, Peers
  <1>4. CASE Reject
    BY <1>4 DEF Reject, Fail, Types, RestTypes, Peers
  <1>5. CASE AnswerCatalogue
    BY <1>5 DEF AnswerCatalogue, Types, RestTypes, Peers
  <1>6. CASE SendPlan
    BY <1>6 DEF SendPlan, Types, RestTypes, Peers
  <1>7. CASE AcceptPlan
    BY <1>7 DEF AcceptPlan, FollowPlan, Types, RestTypes, Peers
  <1>8. CASE RefusePlan
    BY <1>8 DEF RefusePlan, Fail, Types, RestTypes, Peers
  <1>9. ASSUME NEW p \in Peers, HandshakeFails(p) PROVE RestTypes'
    BY <1>9 DEF HandshakeFails, Fail, Types, RestTypes, Peers
  <1>10. ASSUME NEW p \in Peers, SendVault(p) PROVE RestTypes'
    BY <1>10, StartsAssumption DEF SendVault, Types, RestTypes, TodoTypes, Fault
  <1>11. ASSUME NEW p \in Peers, SendDone(p) PROVE RestTypes'
    BY <1>11 DEF SendDone, Types, RestTypes, Peers
  <1>12. ASSUME NEW p \in Peers, ReceiveBegin(p) PROVE RestTypes'
    BY <1>12, StartsAssumption DEF ReceiveBegin, Types, RestTypes, TodoTypes, Fault
  <1>13. ASSUME NEW p \in Peers, ReceiveFile(p) PROVE RestTypes'
    BY <1>13 DEF ReceiveFile, Types, RestTypes, Peers
  <1>14. ASSUME NEW p \in Peers, ReceiveEnd(p) PROVE RestTypes'
    BY <1>14 DEF ReceiveEnd, Types, RestTypes, Peers
  <1>15. ASSUME NEW p \in Peers, ReceiveFails(p) PROVE RestTypes'
    BY <1>15, StartsAssumption DEF ReceiveFails, Types, RestTypes, TodoTypes, Fault
  <1>16. ASSUME NEW p \in Peers, Record(p) PROVE RestTypes'
    BY <1>16, StartsAssumption DEF Record, Types, RestTypes, Fault
  <1>17. CASE Complete
    BY <1>17 DEF Complete, Types, RestTypes, Peers
  <1>18. CASE StartSending
    BY <1>18 DEF StartSending, Types, RestTypes, Peers
  <1>19. CASE AwaitComplete
    BY <1>19 DEF AwaitComplete, Types, RestTypes, Peers
  <1>20. CASE Break
    BY <1>20 DEF Break, Types, RestTypes, Peers
  <1>21. CASE UNCHANGED vars
    BY <1>21 DEF vars, Types, RestTypes, Peers
  <1> QED
    BY <1>1, <1>2, <1>3, <1>4, <1>5, <1>6, <1>7, <1>8, <1>9, <1>10, <1>11, <1>12, <1>13,
       <1>14, <1>15, <1>16, <1>17, <1>18, <1>19, <1>20, <1>21
       DEF Next, Session, Handshake, Transfer, Ending, Over

-----------------------------------------------------------------------------
(* What stays once it is decided *)

\* A peer loads the catalogue it had when the session began.
LEMMA MineStays == Types /\ StartInv /\ [Next]_vars => mine' = mine
  <1> SUFFICES ASSUME Types, StartInv, [Next]_vars PROVE mine' = mine
    OBVIOUS
  <1>1. CASE Open
    BY <1>1 DEF Open, StartInv, Types, CatTypes, Peers
  <1>2. CASE OpenFails
    BY <1>2 DEF OpenFails, Fail
  <1>3. CASE Accept
    BY <1>3 DEF Accept
  <1>4. CASE Reject
    BY <1>4 DEF Reject, Fail
  <1>5. CASE AnswerCatalogue
    BY <1>5 DEF AnswerCatalogue, StartInv, Types, CatTypes, Peers
  <1>6. CASE SendPlan
    BY <1>6 DEF SendPlan
  <1>7. CASE AcceptPlan
    BY <1>7 DEF AcceptPlan, FollowPlan
  <1>8. CASE RefusePlan
    BY <1>8 DEF RefusePlan, Fail
  <1>9. ASSUME NEW p \in Peers, HandshakeFails(p) PROVE mine' = mine
    BY <1>9 DEF HandshakeFails, Fail
  <1>10. ASSUME NEW p \in Peers, SendVault(p) PROVE mine' = mine
    BY <1>10 DEF SendVault
  <1>11. ASSUME NEW p \in Peers, SendDone(p) PROVE mine' = mine
    BY <1>11 DEF SendDone
  <1>12. ASSUME NEW p \in Peers, ReceiveBegin(p) PROVE mine' = mine
    BY <1>12 DEF ReceiveBegin
  <1>13. ASSUME NEW p \in Peers, ReceiveFile(p) PROVE mine' = mine
    BY <1>13 DEF ReceiveFile
  <1>14. ASSUME NEW p \in Peers, ReceiveEnd(p) PROVE mine' = mine
    BY <1>14 DEF ReceiveEnd
  <1>15. ASSUME NEW p \in Peers, ReceiveFails(p) PROVE mine' = mine
    BY <1>15 DEF ReceiveFails
  <1>16. ASSUME NEW p \in Peers, Record(p) PROVE mine' = mine
    BY <1>16 DEF Record
  <1>17. CASE Complete
    BY <1>17 DEF Complete
  <1>18. CASE StartSending
    BY <1>18 DEF StartSending
  <1>19. CASE AwaitComplete
    BY <1>19 DEF AwaitComplete
  <1>20. CASE Break
    BY <1>20 DEF Break
  <1>21. CASE UNCHANGED vars
    BY <1>21 DEF vars
  <1> QED
    BY <1>1, <1>2, <1>3, <1>4, <1>5, <1>6, <1>7, <1>8, <1>9, <1>10, <1>11, <1>12, <1>13,
       <1>14, <1>15, <1>16, <1>17, <1>18, <1>19, <1>20, <1>21
       DEF Next, Session, Handshake, Transfer, Ending, Over

\* Until a peer records a vault its catalogue is the one it loaded.
LEMMA StartNext == Types /\ StartInv /\ [Next]_vars => StartInv'
  <1> SUFFICES ASSUME Types, StartInv, [Next]_vars PROVE StartInv'
    OBVIOUS
  <1>m. mine' = mine
    BY MineStays
  <1>1. CASE Open
    BY <1>1, <1>m DEF Open, Goto, StartInv, Types, PcTypes, Peers
  <1>2. CASE OpenFails
    BY <1>2, <1>m DEF OpenFails, Fail, Goto, StartInv, Types, PcTypes, Peers
  <1>3. CASE Accept
    BY <1>3, <1>m DEF Accept, Goto, StartInv, Types, PcTypes, Peers
  <1>4. CASE Reject
    BY <1>4, <1>m DEF Reject, Fail, Goto, StartInv, Types, PcTypes, Peers
  <1>5. CASE AnswerCatalogue
    BY <1>5, <1>m DEF AnswerCatalogue, Goto, StartInv, Types, PcTypes, Peers
  <1>6. CASE SendPlan
    BY <1>6, <1>m DEF SendPlan, Goto, StartInv, Types, PcTypes, Peers
  <1>7. CASE AcceptPlan
    BY <1>7, <1>m DEF AcceptPlan, FollowPlan, Goto, StartInv, Types, PcTypes, Peers
  <1>8. CASE RefusePlan
    BY <1>8, <1>m DEF RefusePlan, Fail, Goto, StartInv, Types, PcTypes, Peers
  <1>9. ASSUME NEW p \in Peers, HandshakeFails(p) PROVE StartInv'
    BY <1>9, <1>m DEF HandshakeFails, Fail, Goto, StartInv, Types, PcTypes, Peers
  <1>10. ASSUME NEW p \in Peers, SendVault(p) PROVE StartInv'
    BY <1>10, <1>m DEF SendVault, Goto, StartInv, Types, PcTypes, Peers
  <1>11. ASSUME NEW p \in Peers, SendDone(p) PROVE StartInv'
    BY <1>11, <1>m DEF SendDone, Goto, StartInv, Types, PcTypes, Peers
  <1>12. ASSUME NEW p \in Peers, ReceiveBegin(p) PROVE StartInv'
    BY <1>12, <1>m DEF ReceiveBegin, Goto, StartInv, Types, PcTypes, Peers
  <1>13. ASSUME NEW p \in Peers, ReceiveFile(p) PROVE StartInv'
    BY <1>13, <1>m DEF ReceiveFile, Goto, StartInv, Types, PcTypes, Peers
  <1>14. ASSUME NEW p \in Peers, ReceiveEnd(p) PROVE StartInv'
    BY <1>14, <1>m DEF ReceiveEnd, Goto, StartInv, Types, PcTypes, Peers
  <1>15. ASSUME NEW p \in Peers, ReceiveFails(p) PROVE StartInv'
    BY <1>15, <1>m DEF ReceiveFails, Goto, StartInv, Types, PcTypes, Peers
  <1>16. ASSUME NEW p \in Peers, Record(p) PROVE StartInv'
    BY <1>16, <1>m DEF Record, Goto, StartInv, Types, PcTypes, CatTypes
  <1>17. CASE Complete
    BY <1>17, <1>m DEF Complete, Goto, StartInv, Types, PcTypes, Peers
  <1>18. CASE StartSending
    BY <1>18, <1>m DEF StartSending, Goto, StartInv, Types, PcTypes, Peers
  <1>19. CASE AwaitComplete
    BY <1>19, <1>m DEF AwaitComplete, Goto, StartInv, Types, PcTypes, Peers
  <1>20. CASE Break
    BY <1>20, <1>m DEF Break, Goto, StartInv, Types, PcTypes, Peers
  <1>21. CASE UNCHANGED vars
    BY <1>21, <1>m DEF vars, StartInv
  <1> QED
    BY <1>1, <1>2, <1>3, <1>4, <1>5, <1>6, <1>7, <1>8, <1>9, <1>10, <1>11, <1>12, <1>13,
       <1>14, <1>15, <1>16, <1>17, <1>18, <1>19, <1>20, <1>21
       DEF Next, Session, Handshake, Transfer, Ending, Over

\* The plan of the initiator is final, and so is its order.
LEMMA PlannedStays ==
    Types /\ [Next]_vars =>
       (Planned => Planned' /\ plan'["init"] = plan["init"] /\ order' = order)
  <1> SUFFICES ASSUME Types, [Next]_vars
               PROVE  (Planned =>
                         Planned' /\ plan'["init"] = plan["init"] /\ order' = order)
    OBVIOUS
  <1>1. CASE Open
    BY <1>1 DEF Open, Goto, Planned, Types, PcTypes, PlanTypes, Peers
  <1>2. CASE OpenFails
    BY <1>2 DEF OpenFails, Fail, Goto, Planned, Types, PcTypes, PlanTypes, Peers
  <1>3. CASE Accept
    BY <1>3 DEF Accept, Goto, Planned, Types, PcTypes, PlanTypes, Peers
  <1>4. CASE Reject
    BY <1>4 DEF Reject, Fail, Goto, Planned, Types, PcTypes, PlanTypes, Peers
  <1>5. CASE AnswerCatalogue
    BY <1>5 DEF AnswerCatalogue, Goto, Planned, Types, PcTypes, PlanTypes, Peers
  <1>6. CASE SendPlan
    BY <1>6 DEF SendPlan, Goto, Planned, Types, PcTypes, PlanTypes, Peers
  <1>7. CASE AcceptPlan
    BY <1>7 DEF AcceptPlan, FollowPlan, Goto, Planned, Types, PcTypes, PlanTypes, Peers
  <1>8. CASE RefusePlan
    BY <1>8 DEF RefusePlan, Fail, Goto, Planned, Types, PcTypes, PlanTypes, Peers
  <1>9. ASSUME NEW p \in Peers, HandshakeFails(p)
        PROVE  (Planned => Planned' /\ plan'["init"] = plan["init"] /\ order' = order)
    BY <1>9 DEF HandshakeFails, Fail, Goto, Planned, Types, PcTypes, PlanTypes, Peers
  <1>10. ASSUME NEW p \in Peers, SendVault(p)
        PROVE  (Planned => Planned' /\ plan'["init"] = plan["init"] /\ order' = order)
    BY <1>10 DEF SendVault, Goto, Planned, Types, PcTypes, PlanTypes, Peers
  <1>11. ASSUME NEW p \in Peers, SendDone(p)
        PROVE  (Planned => Planned' /\ plan'["init"] = plan["init"] /\ order' = order)
    BY <1>11 DEF SendDone, Goto, Planned, Types, PcTypes, PlanTypes, Peers
  <1>12. ASSUME NEW p \in Peers, ReceiveBegin(p)
        PROVE  (Planned => Planned' /\ plan'["init"] = plan["init"] /\ order' = order)
    BY <1>12 DEF ReceiveBegin, Goto, Planned, Types, PcTypes, PlanTypes, Peers
  <1>13. ASSUME NEW p \in Peers, ReceiveFile(p)
        PROVE  (Planned => Planned' /\ plan'["init"] = plan["init"] /\ order' = order)
    BY <1>13 DEF ReceiveFile, Goto, Planned, Types, PcTypes, PlanTypes, Peers
  <1>14. ASSUME NEW p \in Peers, ReceiveEnd(p)
        PROVE  (Planned => Planned' /\ plan'["init"] = plan["init"] /\ order' = order)
    BY <1>14 DEF ReceiveEnd, Goto, Planned, Types, PcTypes, PlanTypes, Peers
  <1>15. ASSUME NEW p \in Peers, ReceiveFails(p)
        PROVE  (Planned => Planned' /\ plan'["init"] = plan["init"] /\ order' = order)
    BY <1>15 DEF ReceiveFails, Goto, Planned, Types, PcTypes, PlanTypes, Peers
  <1>16. ASSUME NEW p \in Peers, Record(p)
        PROVE  (Planned => Planned' /\ plan'["init"] = plan["init"] /\ order' = order)
    BY <1>16 DEF Record, Goto, Planned, Types, PcTypes, PlanTypes, Peers
  <1>17. CASE Complete
    BY <1>17 DEF Complete, Goto, Planned, Types, PcTypes, PlanTypes, Peers
  <1>18. CASE StartSending
    BY <1>18 DEF StartSending, Goto, Planned, Types, PcTypes, PlanTypes, Peers
  <1>19. CASE AwaitComplete
    BY <1>19 DEF AwaitComplete, Goto, Planned, Types, PcTypes, PlanTypes, Peers
  <1>20. CASE Break
    BY <1>20 DEF Break, Goto, Planned, Types, PcTypes, PlanTypes, Peers
  <1>21. CASE UNCHANGED vars
    BY <1>21 DEF vars, Planned
  <1> QED
    BY <1>1, <1>2, <1>3, <1>4, <1>5, <1>6, <1>7, <1>8, <1>9, <1>10, <1>11, <1>12, <1>13,
       <1>14, <1>15, <1>16, <1>17, <1>18, <1>19, <1>20, <1>21
       DEF Next, Session, Handshake, Transfer, Ending, Over

\* A responder that has accepted the plan does not take that back.
LEMMA AcceptedStays == Types /\ [Next]_vars => (Accepted => Accepted')
  <1> SUFFICES ASSUME Types, [Next]_vars PROVE (Accepted => Accepted')
    OBVIOUS
  <1>1. CASE Open
    BY <1>1 DEF Open, Goto, Accepted, Types, PcTypes, RespAts, Peers
  <1>2. CASE OpenFails
    BY <1>2 DEF OpenFails, Fail, Goto, Accepted, Types, PcTypes, RespAts, Peers
  <1>3. CASE Accept
    BY <1>3 DEF Accept, Goto, Accepted, Types, PcTypes, RespAts, Peers
  <1>4. CASE Reject
    BY <1>4 DEF Reject, Fail, Goto, Accepted, Types, PcTypes, RespAts, Peers
  <1>5. CASE AnswerCatalogue
    BY <1>5 DEF AnswerCatalogue, Goto, Accepted, Types, PcTypes, RespAts, Peers
  <1>6. CASE SendPlan
    BY <1>6 DEF SendPlan, Goto, Accepted, Types, PcTypes, RespAts, Peers
  <1>7. CASE AcceptPlan
    BY <1>7 DEF AcceptPlan, FollowPlan, Goto, Accepted, Types, PcTypes, RespAts, Peers
  <1>8. CASE RefusePlan
    BY <1>8 DEF RefusePlan, Fail, Goto, Accepted, Types, PcTypes, RespAts, Peers
  <1>9. ASSUME NEW p \in Peers, HandshakeFails(p) PROVE (Accepted => Accepted')
    BY <1>9 DEF HandshakeFails, Fail, Goto, Accepted, Types, PcTypes, RespAts, Peers
  <1>10. ASSUME NEW p \in Peers, SendVault(p) PROVE (Accepted => Accepted')
    BY <1>10 DEF SendVault, Goto, Accepted, Types, PcTypes, RespAts, Peers
  <1>11. ASSUME NEW p \in Peers, SendDone(p) PROVE (Accepted => Accepted')
    BY <1>11 DEF SendDone, Goto, Accepted, Types, PcTypes, RespAts, Peers
  <1>12. ASSUME NEW p \in Peers, ReceiveBegin(p) PROVE (Accepted => Accepted')
    BY <1>12 DEF ReceiveBegin, Goto, Accepted, Types, PcTypes, RespAts, Peers
  <1>13. ASSUME NEW p \in Peers, ReceiveFile(p) PROVE (Accepted => Accepted')
    BY <1>13 DEF ReceiveFile, Goto, Accepted, Types, PcTypes, RespAts, Peers
  <1>14. ASSUME NEW p \in Peers, ReceiveEnd(p) PROVE (Accepted => Accepted')
    BY <1>14 DEF ReceiveEnd, Goto, Accepted, Types, PcTypes, RespAts, Peers
  <1>15. ASSUME NEW p \in Peers, ReceiveFails(p) PROVE (Accepted => Accepted')
    BY <1>15 DEF ReceiveFails, Goto, Accepted, Types, PcTypes, RespAts, Peers
  <1>16. ASSUME NEW p \in Peers, Record(p) PROVE (Accepted => Accepted')
    BY <1>16 DEF Record, Goto, Accepted, Types, PcTypes, RespAts, Peers
  <1>17. CASE Complete
    BY <1>17 DEF Complete, Goto, Accepted, Types, PcTypes, RespAts, Peers
  <1>18. CASE StartSending
    BY <1>18 DEF StartSending, Goto, Accepted, Types, PcTypes, RespAts, Peers
  <1>19. CASE AwaitComplete
    BY <1>19 DEF AwaitComplete, Goto, Accepted, Types, PcTypes, RespAts, Peers
  <1>20. CASE Break
    BY <1>20 DEF Break, Goto, Accepted, Types, PcTypes, RespAts, Peers
  <1>21. CASE UNCHANGED vars
    BY <1>21 DEF vars, Accepted
  <1> QED
    BY <1>1, <1>2, <1>3, <1>4, <1>5, <1>6, <1>7, <1>8, <1>9, <1>10, <1>11, <1>12, <1>13,
       <1>14, <1>15, <1>16, <1>17, <1>18, <1>19, <1>20, <1>21
       DEF Next, Session, Handshake, Transfer, Ending, Over

\* So what is on its way to a peer may still be.
LEMMA ToGrows ==
    Types /\ StartInv /\ [Next]_vars => \A p \in Peers : To(p) \subseteq To(p)'
  <1> SUFFICES ASSUME Types, StartInv, [Next]_vars, NEW p \in Peers
               PROVE  To(p) \subseteq To(p)'
    OBVIOUS
  <1>1. mine' = mine
    BY MineStays
  <1>2. Planned => Planned' /\ plan'["init"] = plan["init"] /\ order' = order
    BY PlannedStays
  <1>3. Accepted => Accepted'
    BY AcceptedStays
  <1> QED
    BY <1>1, <1>2, <1>3 DEF To

-----------------------------------------------------------------------------
(* The stream *)

\* Streams that hold what may be on its way after the step.
Fits(c) == /\ c \in [Peers -> Seq(Messages)]
           /\ \A p \in Peers : c[p] \in Seq(To(p)')

LEMMA FitsRead ==
    ASSUME Fits(chan), NEW p \in Peers
    PROVE  Fits(Drop(p)) /\ (CanRead(p) => Fits(Consume(p)))
  <1>1. Fits(Drop(p))
    <2>1. <<>> \in Seq(Messages) /\ <<>> \in Seq(To(p)')
      OBVIOUS
    <2> QED
      BY <2>1 DEF Fits, Drop
  <1>2. ASSUME CanRead(p) PROVE Fits(Consume(p))
    <2>1. Tail(chan[p]) \in Seq(Messages) /\ Tail(chan[p]) \in Seq(To(p)')
      BY <1>2 DEF CanRead, Fits
    <2> QED
      BY <2>1 DEF Fits, Consume
  <1> QED
    BY <1>1, <1>2

LEMMA FitsSent ==
    ASSUME NEW c, Fits(c), NEW p \in Peers, NEW ms \in Seq(To(Other(p))')
    PROVE  Fits(Sent(c, p, ms))
  <1> DEFINE q == Other(p)
  <1>1. q \in Peers
    BY DEF Other, Peers
  <1>2. To(q)' \subseteq Messages
    BY DEF To
  <1>3. ms \in Seq(Messages)
    BY <1>2, SeqMono
  <1>4. c[q] \in Seq(Messages) /\ c[q] \in Seq(To(q)')
    BY <1>1 DEF Fits
  <1>5. c[q] \o ms \in Seq(Messages) /\ c[q] \o ms \in Seq(To(q)')
    BY <1>3, <1>4
  <1> HIDE DEF q
  <1>6. Sent(c, p, ms) = [c EXCEPT ![q] = @ \o ms]
    BY DEF Sent, q
  <1> QED
    BY <1>1, <1>5, <1>6 DEF Fits

\* Everything that is sent may be on its way.
LEMMA ChanNext == Types /\ StartInv /\ ChanInv /\ PlanInv /\ [Next]_vars => Fits(chan')
  <1> SUFFICES ASSUME Types, StartInv, ChanInv, PlanInv, [Next]_vars PROVE Fits(chan')
    OBVIOUS
  <1>f. Fits(chan)
    <2>1. \A p \in Peers : To(p) \subseteq To(p)'
      BY ToGrows
    <2>2. \A p \in Peers : chan[p] \in Seq(To(p)')
      BY <2>1, SeqMono DEF ChanInv
    <2> QED
      BY <2>2 DEF Fits, Types, ChanTypes
  <1>1. CASE Open
    <2> DEFINE m == [action |-> "catalogue", body |-> cat["init"]]
    <2>1. cat["init"] = mine'["init"] /\ cat["init"] \in Catalogues
      BY <1>1 DEF Open, Types, CatTypes, Peers
    <2>2. m \in To("resp")'
      BY <2>1, CatalogueMessage DEF To, Other
    <2>3. <<m>> \in Seq(To(Other("init"))')
      BY <2>2 DEF Other
    <2>4. chan' = Sent(chan, "init", <<m>>)
      BY <1>1 DEF Open
    <2> HIDE DEF m
    <2> QED
      BY <1>f, <2>3, <2>4, FitsSent DEF Peers
  <1>2. CASE OpenFails
    BY <1>2, <1>f DEF OpenFails, Fail
  <1>3. CASE Accept
    BY <1>3, <1>f DEF Accept
  <1>4. CASE Reject
    BY <1>4, <1>f DEF Reject, Fail
  <1>5. CASE AnswerCatalogue
    <2> DEFINE m == [action |-> "catalogue", body |-> cat["resp"]]
    <2>1. cat["resp"] = mine'["resp"] /\ cat["resp"] \in Catalogues
      BY <1>5 DEF AnswerCatalogue, Types, CatTypes, Peers
    <2>2. m \in To("init")'
      BY <2>1, CatalogueMessage DEF To, Other
    <2>3. <<m>> \in Seq(To(Other("resp"))')
      BY <2>2 DEF Other
    <2>4. chan' = Sent(Consume("resp"), "resp", <<m>>)
      BY <1>5 DEF AnswerCatalogue
    <2>5. Fits(Consume("resp"))
      BY <1>5, <1>f, FitsRead DEF AnswerCatalogue, Peers
    <2> HIDE DEF m
    <2> QED
      BY <2>3, <2>4, <2>5, FitsSent DEF Peers
  <1>6. CASE SendPlan
    <2> DEFINE pl == Negotiate(mine["init"], Incoming("init").body, strict["init"])
    <2>1. PICK o \in Lists(pl) :
             /\ plan' = [plan EXCEPT !["init"] = pl] /\ order' = o
             /\ chan' = Sent(Consume("init"), "init",
                             <<[action |-> "sync_plan", body |-> pl, order |-> o]>>)
      BY <1>6 DEF SendPlan
    <2>2. pl \in Plans /\ o \in Pairs
      BY NegotiateType, ListsMoved
    <2> HIDE DEF pl
    <2>3. plan'["init"] = pl /\ Planned'
      BY <1>6, <2>1 DEF SendPlan, Goto, Planned, Types, PcTypes, PlanTypes, Peers
    <2> DEFINE m == [action |-> "sync_plan", body |-> pl, order |-> o]
    <2>4. m \in To("resp")'
      BY <2>1, <2>2, <2>3, PlanMessage DEF To
    <2>5. <<m>> \in Seq(To(Other("init"))')
      BY <2>4 DEF Other
    <2>6. Fits(Consume("init"))
      BY <1>6, <1>f, FitsRead DEF SendPlan, Peers
    <2> HIDE DEF m
    <2>7. chan' = Sent(Consume("init"), "init", <<m>>)
      BY <2>1 DEF m
    <2> QED
      BY <2>5, <2>6, <2>7, FitsSent DEF Peers
  <1>7. CASE AcceptPlan
    BY <1>7, <1>f, FitsRead DEF AcceptPlan, FollowPlan, Peers
  <1>8. CASE RefusePlan
    BY <1>8, <1>f DEF RefusePlan, Fail
  <1>9. ASSUME NEW p \in Peers, HandshakeFails(p) PROVE Fits(chan')
    BY <1>9, <1>f DEF HandshakeFails, Fail
  <1>10. ASSUME NEW p \in Peers, SendVault(p) PROVE Fits(chan')
    <2> DEFINE n == Head(todo[p])
               q == Other(p)
    <2>1. n \in Names /\ q \in Peers
      BY <1>10 DEF SendVault, Types, TodoTypes, Other, Peers
    <2>2. q = "init" => Accepted'
      <3>1. q = "init" => Accepted
        BY <1>10 DEF SendVault, Other, Accepted, Peers
      <3> QED
        BY <3>1, AcceptedStays
    <2>p. Planned'
      <3>1. Planned
        BY <1>10 DEF SendVault, Planned, Accepted, PlanInv, Peers
      <3> QED
        BY <3>1, PlannedStays
    <2>3. \A fs \in SUBSET Tags : /\ Whole(n, fs) \in Seq(To(q)')
                                  /\ <<Begin(n)>> \in Seq(To(q)')
      <3> SUFFICES ASSUME NEW fs \in SUBSET Tags
                   PROVE  Whole(n, fs) \in Seq(To(q)') /\ <<Begin(n)>> \in Seq(To(q)')
        OBVIOUS
      <3> HIDE DEF n, q
      <3>1. Begin(n) \in Messages /\ End(n) \in Messages /\ File(n, fs) \in Messages
        BY <2>1, VaultMessages
      <3>2. /\ Begin(n).action = "transfer_begin" /\ End(n).action = "transfer_end"
            /\ File(n, fs).action = "transfer_file"
        BY DEF Begin, End, File
      <3>3. Begin(n) \in To(q)' /\ End(n) \in To(q)' /\ File(n, fs) \in To(q)'
        BY <2>2, <2>p, <3>1, <3>2 DEF To
      <3> QED
        BY <3>3 DEF Whole
    <2>4. \/ chan' = chan
          \/ \E fs \in SUBSET Tags : chan' = Sent(chan, p, Whole(n, fs))
          \/ chan' = Sent(chan, p, <<Begin(n)>>)
      <3>1. disk[p][n] \in (SUBSET Tags) \cup {NoVault}
        BY <2>1 DEF Types, DiskTypes, Disks
      <3>2. \/ chan' = chan
            \/ disk[p][n] # NoVault /\ chan' = Sent(chan, p, Whole(n, disk[p][n]))
            \/ chan' = Sent(chan, p, <<Begin(n)>>)
        BY <1>10 DEF SendVault
      <3> QED
        BY <3>1, <3>2
    <2> HIDE DEF n
    <2> QED
      BY <1>f, <2>3, <2>4, FitsSent
  <1>11. ASSUME NEW p \in Peers, SendDone(p) PROVE Fits(chan')
    BY <1>11, <1>f DEF SendDone
  <1>12. ASSUME NEW p \in Peers, ReceiveBegin(p) PROVE Fits(chan')
    BY <1>12, <1>f, FitsRead DEF ReceiveBegin
  <1>13. ASSUME NEW p \in Peers, ReceiveFile(p) PROVE Fits(chan')
    BY <1>13, <1>f, FitsRead DEF ReceiveFile
  <1>14. ASSUME NEW p \in Peers, ReceiveEnd(p) PROVE Fits(chan')
    BY <1>14, <1>f, FitsRead DEF ReceiveEnd
  <1>15. ASSUME NEW p \in Peers, ReceiveFails(p) PROVE Fits(chan')
    BY <1>15, <1>f, FitsRead DEF ReceiveFails
  <1>16. ASSUME NEW p \in Peers, Record(p) PROVE Fits(chan')
    BY <1>16, <1>f DEF Record
  <1>17. CASE Complete
    <2> DEFINE m == [action |-> "sync_complete"]
    <2>1. m \in To("resp")'
      <3>1. Planned'
        BY <1>17, PlannedStays DEF Complete, Planned
      <3> QED
        BY <3>1, CompleteMessage DEF To
    <2>2. <<m>> \in Seq(To(Other("init"))')
      BY <2>1 DEF Other
    <2> HIDE DEF m
    <2>3. chan' = chan \/ chan' = Sent(chan, "init", <<m>>)
      BY <1>17 DEF Complete, m
    <2> QED
      BY <1>f, <2>2, <2>3, FitsSent DEF Peers
  <1>18. CASE StartSending
    BY <1>18, <1>f DEF StartSending
  <1>19. CASE AwaitComplete
    BY <1>19, <1>f, FitsRead DEF AwaitComplete, Peers
  <1>20. CASE Break
    BY <1>20, <1>f DEF Break
  <1>21. CASE UNCHANGED vars
    BY <1>21, <1>f DEF vars
  <1> QED
    BY <1>1, <1>2, <1>3, <1>4, <1>5, <1>6, <1>7, <1>8, <1>9, <1>10, <1>11, <1>12, <1>13,
       <1>14, <1>15, <1>16, <1>17, <1>18, <1>19, <1>20, <1>21
       DEF Next, Session, Handshake, Transfer, Ending, Over

LEMMA ReadsInv ==
    ASSUME ChanTypes, ChanInv, NEW p \in Peers, CanRead(p)
    PROVE  Incoming(p) \in To(p)
  BY DEF ChanTypes, ChanInv, CanRead, Incoming

LEMMA TypesNext ==
    Types /\ StartInv /\ ChanInv /\ PlanInv /\ [Next]_vars => Types' /\ ChanInv'
  <1> SUFFICES ASSUME Types, StartInv, ChanInv, PlanInv, [Next]_vars
               PROVE  Types' /\ ChanInv'
    OBVIOUS
  <1>1. PcTypes'
    BY PcNext DEF Types
  <1>2. GivenTypes'
    BY GivenNext DEF Types, GivenTypes, given
  <1>3. ChanTypes' /\ ChanInv'
    BY ChanNext DEF Fits, ChanTypes, ChanInv
  <1> QED
    BY <1>1, <1>2, <1>3, CatNext, DiskNext, PlanNext, TodoNext, RestNext DEF Types

-----------------------------------------------------------------------------
(* The plan *)

\* What both peers would plan does not change, nor what the plan moves.
LEMMA PlansStay ==
    Types /\ StartInv /\ [Next]_vars =>
       InitPlan' = InitPlan /\ RespPlan' = RespPlan /\ Moved' = Moved
  <1> SUFFICES ASSUME Types, StartInv, [Next]_vars
               PROVE  InitPlan' = InitPlan /\ RespPlan' = RespPlan /\ Moved' = Moved
    OBVIOUS
  <1>1. mine' = mine /\ strict' = strict
    BY MineStays, GivenNext DEF given
  <1> QED
    BY <1>1 DEF InitPlan, RespPlan, Moved

\* The initiator's plan is the one it would compute from what both loaded, and
\* the responder follows it only if it agrees with its own.
LEMMA PlanInvNext == Types /\ StartInv /\ ChanInv /\ PlanInv /\ [Next]_vars => PlanInv'
  <1> SUFFICES ASSUME Types, StartInv, ChanInv, PlanInv, [Next]_vars PROVE PlanInv'
    OBVIOUS
  <1>s. InitPlan' = InitPlan /\ RespPlan' = RespPlan
    BY PlansStay
  <1>1. CASE Open
    BY <1>1, <1>s DEF Open, Goto, PlanInv, Planned, Accepted, Types, PcTypes, PlanTypes,
       Peers
  <1>2. CASE OpenFails
    BY <1>2, <1>s DEF OpenFails, Fail, Goto, PlanInv, Planned, Accepted, Types, PcTypes,
       PlanTypes, Peers
  <1>3. CASE Accept
    BY <1>3, <1>s DEF Accept, Goto, PlanInv, Planned, Accepted, Types, PcTypes,
       PlanTypes, Peers
  <1>4. CASE Reject
    BY <1>4, <1>s DEF Reject, Fail, Goto, PlanInv, Planned, Accepted, Types, PcTypes,
       PlanTypes, Peers
  <1>5. CASE AnswerCatalogue
    <2>1. Incoming("resp").body = mine["init"] /\ cat["resp"] = mine["resp"]
      BY <1>5, ReadsInv DEF AnswerCatalogue, Types, To, Other, StartInv, Peers
    <2>2. plan' = [plan EXCEPT !["resp"] = RespPlan]
      BY <1>5, <2>1 DEF AnswerCatalogue, RespPlan
    <2>3. Goto("resp", "plan") /\ order' = order /\ pc["resp"] = "catalogue"
      BY <1>5 DEF AnswerCatalogue
    <2> QED
      BY <1>s, <2>2, <2>3 DEF Goto, PlanInv, Planned, Accepted, Types, PcTypes,
         PlanTypes, Peers
  <1>6. CASE SendPlan
    <2>1. Incoming("init").body = mine["resp"]
      BY <1>6, ReadsInv DEF SendPlan, Types, To, Other, Peers
    <2>2. \E o \in Lists(InitPlan) :
             plan' = [plan EXCEPT !["init"] = InitPlan] /\ order' = o
      BY <1>6, <2>1 DEF SendPlan, InitPlan
    <2>3. Goto("init", "send") /\ pc["init"] = "catalogue"
      BY <1>6 DEF SendPlan
    <2> QED
      BY <1>s, <2>2, <2>3 DEF Goto, PlanInv, Planned, Accepted, Types, PcTypes,
         PlanTypes, Peers
  <1>7. CASE AcceptPlan
    <2>1. Planned /\ Incoming("resp").body = plan["init"]
      BY <1>7, ReadsInv DEF AcceptPlan, FollowPlan, Types, To, Peers
    <2>2. VerifyPlanConsistency(InitPlan, RespPlan)
      BY <1>7, <2>1 DEF AcceptPlan, FollowPlan, PlanInv
    <2>3. Goto("resp", "receive") /\ order' = order /\ plan'["init"] = plan["init"]
      BY <1>7 DEF AcceptPlan, FollowPlan, Types, PlanTypes, Peers
    <2> QED
      BY <1>s, <2>1, <2>2, <2>3 DEF Goto, PlanInv, Planned, Types, PcTypes, Peers
  <1>8. CASE RefusePlan
    BY <1>8, <1>s DEF RefusePlan, Fail, Goto, PlanInv, Planned, Accepted, Types,
       PcTypes, PlanTypes, Peers
  <1>9. ASSUME NEW p \in Peers, HandshakeFails(p) PROVE PlanInv'
    BY <1>9, <1>s DEF HandshakeFails, Fail, Goto, PlanInv, Planned, Accepted, Types,
       PcTypes, PlanTypes, Peers
  <1>10. ASSUME NEW p \in Peers, SendVault(p) PROVE PlanInv'
    BY <1>10, <1>s DEF SendVault, Goto, PlanInv, Planned, Accepted, Types, PcTypes,
       PlanTypes, Peers
  <1>11. ASSUME NEW p \in Peers, SendDone(p) PROVE PlanInv'
    BY <1>11, <1>s DEF SendDone, Goto, PlanInv, Planned, Accepted, Types, PcTypes,
       PlanTypes, Peers
  <1>12. ASSUME NEW p \in Peers, ReceiveBegin(p) PROVE PlanInv'
    BY <1>12, <1>s DEF ReceiveBegin, Goto, PlanInv, Planned, Accepted, Types, PcTypes,
       PlanTypes, Peers
  <1>13. ASSUME NEW p \in Peers, ReceiveFile(p) PROVE PlanInv'
    BY <1>13, <1>s DEF ReceiveFile, Goto, PlanInv, Planned, Accepted, Types, PcTypes,
       PlanTypes, Peers
  <1>14. ASSUME NEW p \in Peers, ReceiveEnd(p) PROVE PlanInv'
    BY <1>14, <1>s DEF ReceiveEnd, Goto, PlanInv, Planned, Accepted, Types, PcTypes,
       PlanTypes, Peers
  <1>15. ASSUME NEW p \in Peers, ReceiveFails(p) PROVE PlanInv'
    BY <1>15, <1>s DEF ReceiveFails, Goto, PlanInv, Planned, Accepted, Types, PcTypes,
       PlanTypes, Peers
  <1>16. ASSUME NEW p \in Peers, Record(p) PROVE PlanInv'
    BY <1>16, <1>s DEF Record, Goto, PlanInv, Planned, Accepted, Types, PcTypes,
       PlanTypes, Peers
  <1>17. CASE Complete
    BY <1>17, <1>s DEF Complete, Goto, PlanInv, Planned, Accepted, Types, PcTypes,
       PlanTypes, Peers
  <1>18. CASE StartSending
    BY <1>18, <1>s DEF StartSending, Goto, PlanInv, Planned, Accepted, Types, PcTypes,
       PlanTypes, Peers
  <1>19. CASE AwaitComplete
    BY <1>19, <1>s DEF AwaitComplete, Goto, PlanInv, Planned, Accepted, Types, PcTypes,
       PlanTypes, Peers
  <1>20. CASE Break
    BY <1>20, <1>s DEF Break, Goto, PlanInv, Planned, Accepted, Types, PcTypes,
       PlanTypes, Peers
  <1>21. CASE UNCHANGED vars
    BY <1>21, <1>s DEF vars, PlanInv, Planned, Accepted
  <1> QED
    BY <1>1, <1>2, <1>3, <1>4, <1>5, <1>6, <1>7, <1>8, <1>9, <1>10, <1>11, <1>12, <1>13,
       <1>14, <1>15, <1>16, <1>17, <1>18, <1>19, <1>20, <1>21
       DEF Next, Session, Handshake, Transfer, Ending, Over

\* The lists of the initiator's plan are vaults the plan moves.
LEMMA OrderMoved ==
    ASSUME PlanInv, Planned
    PROVE  order["push"] \in Seq(Moved) /\ order["pull"] \in Seq(Moved)
  BY ListsMoved DEF PlanInv, Moved

\* The loops go over the vaults the plan moves.
LEMMA LoopNext ==
    Types /\ StartInv /\ ChanInv /\ PlanInv /\ LoopInv /\ [Next]_vars => LoopInv'
  <1> SUFFICES ASSUME Types, StartInv, ChanInv, PlanInv, LoopInv, [Next]_vars
               PROVE  LoopInv'
    OBVIOUS
  <1>s. Moved' = Moved
    BY PlansStay
  <1>1. CASE Open
    BY <1>1, <1>s DEF Open, Goto, LoopInv, Planned, Accepted, Types, PcTypes, TodoTypes,
       Peers
  <1>2. CASE OpenFails
    BY <1>2, <1>s DEF OpenFails, Fail, Goto, LoopInv, Planned, Accepted, Types, PcTypes,
       TodoTypes, Peers
  <1>3. CASE Accept
    BY <1>3, <1>s DEF Accept, Goto, LoopInv, Planned, Accepted, Types, PcTypes,
       TodoTypes, Peers
  <1>4. CASE Reject
    BY <1>4, <1>s DEF Reject, Fail, Goto, LoopInv, Planned, Accepted, Types, PcTypes,
       TodoTypes, Peers
  <1>5. CASE AnswerCatalogue
    BY <1>5, <1>s DEF AnswerCatalogue, Goto, LoopInv, Planned, Accepted, Types, PcTypes,
       TodoTypes, Peers
  <1>6. CASE SendPlan
    <2>1. Incoming("init").body = mine["resp"]
      BY <1>6, ReadsInv DEF SendPlan, Types, To, Other, Peers
    <2>2. PICK o \in Lists(InitPlan) : todo' = [todo EXCEPT !["init"] = o["push"]]
      BY <1>6, <2>1 DEF SendPlan, InitPlan
    <2>3. o["push"] \in Seq(Moved)
      BY ListsMoved DEF Moved
    <2>4. Goto("init", "send")
      BY <1>6 DEF SendPlan
    <2> QED
      BY <1>s, <2>2, <2>3, <2>4 DEF Goto, LoopInv, Accepted, Types, PcTypes, TodoTypes,
         Peers
  <1>7. CASE AcceptPlan
    <2>1. Planned /\ Incoming("resp").order = order
      BY <1>7, ReadsInv DEF AcceptPlan, FollowPlan, Types, To, Peers
    <2>2. todo' = [todo EXCEPT !["resp"] = order["push"]] /\ order["push"] \in Seq(Moved)
      BY <1>7, <2>1, OrderMoved DEF AcceptPlan
    <2>3. Goto("resp", "receive")
      BY <1>7 DEF AcceptPlan, FollowPlan
    <2> QED
      BY <1>s, <2>2, <2>3 DEF Goto, LoopInv, Planned, Accepted, Types, PcTypes,
         TodoTypes, Peers
  <1>8. CASE RefusePlan
    BY <1>8, <1>s DEF RefusePlan, Fail, Goto, LoopInv, Planned, Accepted, Types,
       PcTypes, TodoTypes, Peers
  <1>9. ASSUME NEW p \in Peers, HandshakeFails(p) PROVE LoopInv'
    BY <1>9, <1>s DEF HandshakeFails, Fail, Goto, LoopInv, Planned, Accepted, Types,
       PcTypes, TodoTypes, Peers
  <1>10. ASSUME NEW p \in Peers, SendVault(p) PROVE LoopInv'
    BY <1>10, <1>s DEF SendVault, Goto, LoopInv, Planned, Accepted, Types, PcTypes,
       TodoTypes, Peers
  <1>11. ASSUME NEW p \in Peers, SendDone(p) PROVE LoopInv'
    <2>1. pc[p] = "send" /\ todo[p] = <<>>
      BY <1>11 DEF SendDone
    <2>2. CASE p = "init"
      <3>1. Planned
        BY <2>1, <2>2 DEF Planned
      <3> QED
        BY <1>11, <1>s, <2>2, <3>1, OrderMoved DEF SendDone, Goto, LoopInv, Planned,
           Accepted, Types, PcTypes, TodoTypes, Peers
    <2>3. CASE p = "resp"
      BY <1>11, <1>s, <2>3 DEF SendDone, Goto, LoopInv, Planned, Accepted, Types,
         PcTypes, Peers
    <2> QED
      BY <2>2, <2>3 DEF Peers
  <1>12. ASSUME NEW p \in Peers, ReceiveBegin(p) PROVE LoopInv'
    <2>1. Planned => todo["init"] \in Seq(Moved)
      BY DEF LoopInv
    <2>2. pc[p] = "receive" /\ todo[p] # <<>>
      BY <1>12 DEF ReceiveBegin
    <2>3. CASE todo' = todo /\ pc' = [pc EXCEPT ![p] = "files"]
      <3>1. p = "init" => Accepted
        BY <1>12, <2>2, <2>3, ReadsInv DEF ReceiveBegin, Types, To, TodoTypes, PcTypes,
           Peers
      <3> QED
        BY <1>s, <2>2, <2>3, <3>1 DEF LoopInv, Planned, Accepted, Types, PcTypes, Peers
    <2>4. CASE todo' = [todo EXCEPT ![p] = Tail(@)] /\ pc' = pc
      BY <1>s, <2>2, <2>4 DEF LoopInv, Planned, Accepted, Types, TodoTypes, Peers
    <2> QED
      BY <1>12, <2>3, <2>4 DEF ReceiveBegin, Goto
  <1>13. ASSUME NEW p \in Peers, ReceiveFile(p) PROVE LoopInv'
    BY <1>13, <1>s DEF ReceiveFile, Goto, LoopInv, Planned, Accepted, Types, PcTypes,
       TodoTypes, Peers
  <1>14. ASSUME NEW p \in Peers, ReceiveEnd(p) PROVE LoopInv'
    BY <1>14, <1>s DEF ReceiveEnd, Goto, LoopInv, Planned, Accepted, Types, PcTypes,
       TodoTypes, Peers
  <1>15. ASSUME NEW p \in Peers, ReceiveFails(p) PROVE LoopInv'
    BY <1>15, <1>s DEF ReceiveFails, Goto, LoopInv, Planned, Accepted, Types, PcTypes,
       TodoTypes, Peers
  <1>16. ASSUME NEW p \in Peers, Record(p) PROVE LoopInv'
    BY <1>16, <1>s DEF Record, Goto, LoopInv, Planned, Accepted, Types, PcTypes,
       TodoTypes, Peers
  <1>17. CASE Complete
    BY <1>17, <1>s DEF Complete, Goto, LoopInv, Planned, Accepted, Types, PcTypes,
       TodoTypes, Peers
  <1>18. CASE StartSending
    <2>1. Accepted /\ Planned
      BY <1>18 DEF StartSending, Accepted, PlanInv
    <2> QED
      BY <1>18, <1>s, <2>1, OrderMoved DEF StartSending, Goto, LoopInv, Planned,
         Accepted, Types,
         PcTypes, TodoTypes, Peers
  <1>19. CASE AwaitComplete
    BY <1>19, <1>s DEF AwaitComplete, Goto, LoopInv, Planned, Accepted, Types, PcTypes,
       TodoTypes, Peers
  <1>20. CASE Break
    BY <1>20, <1>s DEF Break, Goto, LoopInv, Planned, Accepted, Types, PcTypes,
       TodoTypes, Peers
  <1>21. CASE UNCHANGED vars
    BY <1>21, <1>s DEF vars, LoopInv, Planned, Accepted
  <1> QED
    BY <1>1, <1>2, <1>3, <1>4, <1>5, <1>6, <1>7, <1>8, <1>9, <1>10, <1>11, <1>12, <1>13,
       <1>14, <1>15, <1>16, <1>17, <1>18, <1>19, <1>20, <1>21
       DEF Next, Session, Handshake, Transfer, Ending, Over

-----------------------------------------------------------------------------
(* Vaults under different keys *)

\* The vault that RekeyedVaultStays is about, and what it says of a peer.
Rekeyed(n) == /\ strict["init"] \/ strict["resp"]
              /\ mine["init"][n] # NoEntry /\ mine["resp"][n] # NoEntry
              /\ fingerprintMismatch(mine["init"][n], mine["resp"][n])
Untouched(p, n) == /\ cat[p][n] = mine[p][n]
                   /\ \/ disk[p][n] = had[p][n]
                      \/ had[p][n] = NoVault /\ disk[p][n] = {}

LEMMA RekeyedNotMoved ==
    ASSUME Types, PlanInv, Accepted, NEW n \in Names, Rekeyed(n)
    PROVE  n \notin Moved
  <1>1. strict["init"] \in BOOLEAN /\ strict["resp"] \in BOOLEAN
    BY DEF Types, GivenTypes, Peers
  <1>2. VerifyPlanConsistency(InitPlan, RespPlan)
    BY DEF PlanInv
  <1>3. InitPlan.auto[n] = "skip"
    BY <1>1, <1>2, StrictHoldsBackRekeyedVaults DEF InitPlan, RespPlan, Rekeyed
  <1> QED
    BY <1>3 DEF Moved

\* A vault both know under different keys is committed by nobody: a peer commits
\* and records vaults that the plan moves, once the responder has accepted it.
LEMMA RekeyNext ==
    ASSUME Types, StartInv, PlanInv, LoopInv, RekeyedVaultStays, [Next]_vars,
           NEW n \in Names, Rekeyed(n), NEW q \in Peers
    PROVE  Untouched(q, n)'
  <1>r. Untouched(q, n) /\ mine' = mine /\ had' = had
    BY MineStays, GivenNext DEF RekeyedVaultStays, Rekeyed, Untouched, given
  <1>h. ASSUME NEW p \in Peers, pc[p] \in {"files", "record"}
        PROVE  Head(todo[p]) \in Moved /\ Head(todo[p]) # n
    <2>1. Accepted
      BY <1>h DEF LoopInv, Accepted, Peers
    <2>2. n \notin Moved
      BY <2>1, RekeyedNotMoved
    <2>3. Planned
      BY <2>1 DEF PlanInv
    <2>4. todo[p] \in Seq(Moved) /\ todo[p] # <<>>
      BY <1>h, <2>1, <2>3 DEF LoopInv, Types, TodoTypes, Peers
    <2> QED
      BY <2>2, <2>4
  <1>1. CASE Open
    BY <1>1, <1>r DEF Open, Untouched
  <1>2. CASE OpenFails
    BY <1>2, <1>r DEF OpenFails, Fail, Untouched
  <1>3. CASE Accept
    BY <1>3, <1>r DEF Accept, Untouched
  <1>4. CASE Reject
    BY <1>4, <1>r DEF Reject, Fail, Untouched
  <1>5. CASE AnswerCatalogue
    BY <1>5, <1>r DEF AnswerCatalogue, Untouched
  <1>6. CASE SendPlan
    BY <1>6, <1>r DEF SendPlan, Untouched
  <1>7. CASE AcceptPlan
    BY <1>7, <1>r DEF AcceptPlan, FollowPlan, Untouched
  <1>8. CASE RefusePlan
    BY <1>8, <1>r DEF RefusePlan, Fail, Untouched
  <1>9. ASSUME NEW p \in Peers, HandshakeFails(p) PROVE Untouched(q, n)'
    BY <1>9, <1>r DEF HandshakeFails, Fail, Untouched
  <1>10. ASSUME NEW p \in Peers, SendVault(p) PROVE Untouched(q, n)'
    BY <1>10, <1>r DEF SendVault, Untouched
  <1>11. ASSUME NEW p \in Peers, SendDone(p) PROVE Untouched(q, n)'
    BY <1>11, <1>r DEF SendDone, Untouched
  <1>12. ASSUME NEW p \in Peers, ReceiveBegin(p) PROVE Untouched(q, n)'
    <2>1. Head(todo[p]) \in Names /\ cat' = cat
      BY <1>12 DEF ReceiveBegin, Types, TodoTypes
    <2>2. disk' = [disk EXCEPT ![p][Head(todo[p])] = IF @ = NoVault THEN {} ELSE @]
      BY <1>12 DEF ReceiveBegin
    <2>3. disk'[q][n] = disk[q][n] \/ (disk[q][n] = NoVault /\ disk'[q][n] = {})
      BY <2>1, <2>2 DEF Types, DiskTypes, Disks
    <2> QED
      BY <1>r, <2>1, <2>3 DEF Untouched
  <1>13. ASSUME NEW p \in Peers, ReceiveFile(p) PROVE Untouched(q, n)'
    BY <1>13, <1>r DEF ReceiveFile, Untouched
  <1>14. ASSUME NEW p \in Peers, ReceiveEnd(p) PROVE Untouched(q, n)'
    <2>1. Head(todo[p]) \in Moved /\ Head(todo[p]) # n
      BY <1>14, <1>h DEF ReceiveEnd
    <2>2. disk' = [disk EXCEPT ![p][Head(todo[p])] = staged[p]] /\ cat' = cat
      BY <1>14 DEF ReceiveEnd
    <2>3. disk'[q][n] = disk[q][n]
      BY <2>1, <2>2 DEF Types, DiskTypes, Disks
    <2> QED
      BY <1>r, <2>2, <2>3 DEF Untouched
  <1>15. ASSUME NEW p \in Peers, ReceiveFails(p) PROVE Untouched(q, n)'
    BY <1>15, <1>r DEF ReceiveFails, Untouched
  <1>16. ASSUME NEW p \in Peers, Record(p) PROVE Untouched(q, n)'
    <2>1. Head(todo[p]) \in Moved /\ Head(todo[p]) # n
      BY <1>16, <1>h DEF Record
    <2>2. cat' = [cat EXCEPT ![p][Head(todo[p])] = Written(p)] \/ cat' = cat
      BY <1>16, RecordStep
    <2>3. cat'[q][n] = cat[q][n] /\ disk' = disk
      BY <1>16, <2>1, <2>2 DEF Record, Types, CatTypes, Catalogues
    <2> QED
      BY <1>r, <2>3 DEF Untouched
  <1>17. CASE Complete
    BY <1>17, <1>r DEF Complete, Untouched
  <1>18. CASE StartSending
    BY <1>18, <1>r DEF StartSending, Untouched
  <1>19. CASE AwaitComplete
    BY <1>19, <1>r DEF AwaitComplete, Untouched
  <1>20. CASE Break
    BY <1>20, <1>r DEF Break, Untouched
  <1>21. CASE UNCHANGED vars
    BY <1>21, <1>r DEF vars, Untouched
  <1> QED
    BY <1>1, <1>2, <1>3, <1>4, <1>5, <1>6, <1>7, <1>8, <1>9, <1>10, <1>11, <1>12, <1>13,
       <1>14, <1>15, <1>16, <1>17, <1>18, <1>19, <1>20, <1>21
       DEF Next, Session, Handshake, Transfer, Ending, Over

-----------------------------------------------------------------------------
(* The invariant *)

LEMMA InitIInv == Init => IInv
  <1> SUFFICES ASSUME Init PROVE IInv
    OBVIOUS
  <1>1. PICK s \in Starts : \E c \in [Peers -> [s.vaults -> s.entries \cup {NoEntry}]] :
           cat = [p \in Peers |->
                    [n \in Names |-> IF n \in s.vaults THEN c[p][n] ELSE NoEntry]]
    BY DEF Init
  <1>2. s.entries \subseteq Entries
    BY StartsAssumption
  <1>3. cat \in [Peers -> Catalogues]
    BY <1>1, <1>2 DEF Catalogues
  <1>4. CatTypes
    BY <1>3 DEF Init, CatTypes, NoCatalogue, Catalogues
  <1>5. PICK gh \in [Peers -> [Names -> BOOLEAN]] :
           disk = [p \in Peers |-> [n \in Names |-> Directory(p, n, cat[p][n], gh[p][n])]]
    <2>1. PICK t \in Starts : \E g \in [Peers -> [t.vaults -> BOOLEAN]] :
             disk = [p \in Peers |-> [n \in Names |->
                       Directory(p, n, cat[p][n], n \in t.vaults /\ g[p][n])]]
      BY DEF Init
    <2>2. PICK g \in [Peers -> [t.vaults -> BOOLEAN]] :
             disk = [p \in Peers |-> [n \in Names |->
                       Directory(p, n, cat[p][n], n \in t.vaults /\ g[p][n])]]
      BY <2>1
    <2> WITNESS [p \in Peers |-> [n \in Names |-> n \in t.vaults /\ g[p][n]]]
                  \in [Peers -> [Names -> BOOLEAN]]
    <2> QED
      BY <2>2
  <1>6. DiskTypes
    <2>1. \A p \in Peers, n \in Names : \A e, b :
             Directory(p, n, e, b) \in (SUBSET Tags) \cup {NoVault}
      BY DEF Directory, Tags
    <2>2. disk \in [Peers -> Disks]
      BY <1>5, <2>1 DEF Disks
    <2> QED
      BY <2>2 DEF Init, DiskTypes
  <1>7. GivenTypes
    <2>1. strict \in [Peers -> BOOLEAN]
      <3>1. PICK t \in Starts : \E m \in t.modes :
               strict = [p \in Peers |-> IF p = "init" THEN m[1] ELSE m[2]]
        BY DEF Init
      <3>2. t.modes \subseteq BOOLEAN \X BOOLEAN
        BY StartsAssumption
      <3>3. PICK m \in BOOLEAN \X BOOLEAN :
               strict = [p \in Peers |-> IF p = "init" THEN m[1] ELSE m[2]]
        BY <3>1, <3>2
      <3> QED
        BY <3>3
    <2>2. fallible \in BOOLEAN
      BY StartsAssumption DEF Init
    <2>3. chained \in [Peers -> BOOLEAN]
      <3>1. PICK t \in Starts : \E c \in t.chains :
               chained = [p \in Peers |-> IF p = "init" THEN c[1] ELSE c[2]]
        BY DEF Init
      <3>2. t.chains \subseteq BOOLEAN \X BOOLEAN
        BY StartsAssumption
      <3>3. PICK c \in BOOLEAN \X BOOLEAN :
               chained = [p \in Peers |-> IF p = "init" THEN c[1] ELSE c[2]]
        BY <3>1, <3>2
      <3> QED
        BY <3>3
    <2> QED
      BY <2>1, <2>2, <2>3 DEF Init, GivenTypes
  <1>8. PlanTypes
    BY NoPlanType, ListsMoved DEF Init, PlanTypes
  <1>9. TodoTypes /\ ChanTypes /\ ChanInv
    <2>1. /\ <<>> \in Seq(Names) /\ <<>> \in Seq(Messages)
          /\ \A p \in Peers : <<>> \in Seq(To(p))
      OBVIOUS
    <2> QED
      BY <2>1 DEF Init, TodoTypes, ChanTypes, ChanInv
  <1>10. PcTypes /\ RestTypes
    <2>1. PcTypes
      <3>1. pc = [p \in Peers |-> "start"]
        BY DEF Init
      <3> QED
        BY <3>1 DEF PcTypes, InitAts, RespAts, Peers
    <2>2. stream \in {"none", "open", "broken"} /\ synced \subseteq Peers
      BY DEF Init
    <2>3. locked \in BOOLEAN /\ unmatched \subseteq Names
      BY DEF Init
    <2>4. faults \in 0 .. MaxFaults
      <3>1. faults = 0 /\ MaxFaults \in Nat
        BY StartsAssumption DEF Init
      <3> QED
        BY <3>1
    <2> QED
      BY <2>1, <2>2, <2>3, <2>4 DEF RestTypes
  <1>11. StartInv /\ PlanInv /\ LoopInv
    BY DEF Init, StartInv, PlanInv, LoopInv, Planned, Accepted, Peers
  <1>12. RekeyedVaultStays
    BY DEF Init, RekeyedVaultStays
  <1> QED
    BY <1>4, <1>6, <1>7, <1>8, <1>9, <1>10, <1>11, <1>12 DEF Types, IInv

\* The invariant holds in every state of a session: what the properties below
\* rest on.
THEOREM Inductive == Spec => []IInv
  <1>1. Init => IInv
    BY InitIInv
  <1>2. IInv /\ [Next]_vars => IInv'
    <2> SUFFICES ASSUME IInv, [Next]_vars PROVE IInv'
      OBVIOUS
    <2>1. Types' /\ ChanInv' /\ StartInv' /\ PlanInv' /\ LoopInv'
      BY TypesNext, StartNext, PlanInvNext, LoopNext DEF IInv
    <2>2. RekeyedVaultStays'
      <3>1. ASSUME NEW n \in Names, Rekeyed(n)', NEW p \in Peers PROVE Untouched(p, n)'
        <4>1. Rekeyed(n)
          BY <3>1, MineStays, GivenNext DEF IInv, Rekeyed, given
        <4> QED
          BY <4>1, RekeyNext DEF IInv
      <3> QED
        BY <3>1 DEF RekeyedVaultStays, Rekeyed, Untouched
    <2> QED
      BY <2>1, <2>2 DEF IInv
  <1> QED
    BY <1>1, <1>2, PTL DEF Spec

\* Types: every state of a session is made of catalogues, directories, plans and
\* messages of the kinds the code handles.
THEOREM TypeCorrect == Spec => []TypeOK
  <1>1. IInv => TypeOK
    <2> SUFFICES ASSUME IInv PROVE TypeOK
      OBVIOUS
    <2>1. \A p \in Peers : \A i \in 1 .. Len(chan[p]) : chan[p][i] \in Messages
      BY DEF IInv, Types, ChanTypes
    <2>2. \A p \in Peers : Range(todo[p]) \subseteq Names /\ staged[p] \subseteq Tags
      BY DEF IInv, Types, TodoTypes, DiskTypes, Range
    <2> QED
      BY <2>1, <2>2 DEF IInv, Types, PcTypes, InitAts, RespAts, CatTypes, DiskTypes,
         GivenTypes, RestTypes, TypeOK
  <1> QED
    BY <1>1, Inductive, PTL

\* Two peers in the same mode never refuse each other's plan, whatever their
\* catalogues and whenever the stream delivers it (AcceptPlan's
\* VerifyPlanConsistency).
THEOREM SameModePlansPass == Spec => []HonestPlanAccepted
  <1>1. IInv => HonestPlanAccepted
    <2> SUFFICES ASSUME IInv, pc["resp"] = "plan", chan["resp"] # <<>>,
                        Incoming("resp").action = "sync_plan",
                        strict["init"] = strict["resp"]
                 PROVE  VerifyPlanConsistency(Incoming("resp").body, plan["resp"])
      BY DEF HonestPlanAccepted
    <2>1. Incoming("resp") \in To("resp")
      BY ReadsInv DEF IInv, Types, CanRead, Peers
    <2>2. Planned /\ Incoming("resp").body = plan["init"]
      BY <2>1 DEF To
    <2>3. Incoming("resp").body = InitPlan /\ plan["resp"] = RespPlan
      BY <2>2 DEF IInv, PlanInv
    <2>4. /\ strict["init"] \in BOOLEAN
          /\ mine["init"] \in Catalogues /\ mine["resp"] \in Catalogues
      BY DEF IInv, Types, GivenTypes, CatTypes, Peers
    <2>5. IsCatalogue(mine["init"]) /\ IsCatalogue(mine["resp"])
      BY <2>4, StartsAssumption DEF Catalogues, IsCatalogue, IsEntry
    <2> QED
      BY <2>3, <2>4, <2>5, HonestPlansAgree DEF InitPlan, RespPlan
  <1> QED
    BY <1>1, Inductive, PTL

\* With one side in Strict mode no vault that both know under different keys is
\* moved: not by the push of a relaxed initiator, not by its pull, and not by
\* anything a peer sends in an order of its own.
THEOREM StrictVaultsStay == Spec => []RekeyedVaultStays
  <1>1. IInv => RekeyedVaultStays
    BY DEF IInv
  <1> QED
    BY <1>1, Inductive, PTL

-----------------------------------------------------------------------------
(* What the stream holds *)

\* The direction of the vaults that a peer receives, and their list.
Way(q) == IF q = "resp" THEN "push" ELSE "pull"
Due(q) == order[Way(q)]

\* A conversation as q reads it: the catalogue, the plan, the vaults of the list
\* from the first to the last, and sync_complete.  A place in it is the number of
\* the current vault with what has been read of that vault.
Phases == {"hello", "plan", "next", "begun", "filed", "over"}
Places == Nat \X Phases
Moves(L, q, s, m, t) ==
    \/ /\ m.action = "catalogue" /\ s = <<0, "hello">>
       /\ t = <<0, IF q = "resp" THEN "plan" ELSE "next">>
    \/ m.action = "sync_plan" /\ s = <<0, "plan">> /\ t = <<0, "next">>
    \/ /\ m.action = "transfer_begin" /\ s[2] = "next" /\ s[1] < Len(L)
       /\ t = <<s[1] + 1, "begun">>
    \/ /\ m.action = "transfer_file" /\ s[2] = "begun" /\ s[1] \in 1 .. Len(L)
       /\ m.files = {<<L[s[1]], Other(q)>>} /\ t = <<s[1], "filed">>
    \/ m.action = "transfer_end" /\ s[2] = "filed" /\ t = <<s[1], "next">>
    \/ m.action = "sync_complete" /\ s = <<Len(L), "next">> /\ t = <<Len(L), "over">>

\* The messages c lead q from the place a to the place z.
Leads(L, q, c, a, z) ==
    \E st \in [Nat -> Places] :
       /\ st[0] = a /\ st[Len(c)] = z
       /\ \A i \in 1 .. Len(c) : Moves(L, q, st[i - 1], c[i], st[i])

\* The number of vaults of the list that a loop has gone past, the place q has
\* read up to, and the one that the other peer has written up to.
Passed(p, L) == Len(L) - Len(todo[p])
ReadUpTo(q) ==
    IF pc[q] \in {"start", "catalogue"} THEN <<0, "hello">>
    ELSE IF pc[q] = "plan" THEN <<0, "plan">>
    ELSE IF pc[q] = "send" /\ q = "init" THEN <<0, "next">>
    ELSE IF pc[q] = "receive" THEN <<Passed(q, Due(q)), "next">>
    ELSE IF pc[q] = "files"
      THEN <<Passed(q, Due(q)) + 1, IF staged[q] = {} THEN "begun" ELSE "filed">>
    ELSE IF pc[q] = "record" THEN <<Passed(q, Due(q)) + 1, "next">>
    ELSE <<Len(Due(q)), "next">>
WrittenUpTo(q) ==
    LET p == Other(q) IN
    IF pc[p] = "start" \/ (p = "resp" /\ pc[p] = "catalogue") THEN <<0, "hello">>
    ELSE IF pc[p] = "catalogue" THEN <<0, "plan">>
    ELSE IF p = "resp" /\ pc[p] \in {"plan", "receive", "files", "record"}
      THEN <<0, "next">>
    ELSE IF pc[p] = "send" THEN <<Passed(p, Due(q)), "next">>
    ELSE IF p = "init" /\ pc[p] = "done" THEN <<Len(Due(q)), "over">>
    ELSE <<Len(Due(q)), "next">>

\* The messages on their way to q lead from the one to the other.  Nothing is
\* said of a peer that has returned; and of a broken stream, or a peer that gave
\* up, only that what is left of the messages follows what was read.
Severed(q) == stream = "broken" \/ pc[Other(q)] = "failed"
Aligned(q) ==
    pc[q] \notin {"done", "failed"} =>
       \E z \in Places : /\ Leads(Due(q), q, chan[q], ReadUpTo(q), z)
                         /\ Severed(q) \/ z = WrittenUpTo(q)

\* The stream is there once the initiator has opened it.
StreamStates == /\ pc["init"] = "start" => stream = "none"
                /\ stream = "none" =>
                      pc["init"] \in {"start", "failed"} /\ pc["resp"] = "start"

\* Receiving or sending the list of its vaults, a peer is left with the end of it.
EndOf(t, L) == /\ Len(t) <= Len(L)
               /\ \A j \in 1 .. Len(t) : t[j] = L[Len(L) - Len(t) + j]
Receiving(q) == pc[q] \in {"receive", "files", "record"}
ListInv == \A p \in Peers : /\ Receiving(p) => EndOf(todo[p], Due(p))
                            /\ pc[p] = "send" => EndOf(todo[p], Due(Other(p)))

\* A vault directory is what it was, unless the plan moves the vault there; then
\* it may have been made, empty, or be a copy of the other peer's.
Came(q, n) == Planned /\ InitPlan.auto[n] = Way(q)
Copy(q, n) == {<<n, Other(q)>>}
DirInv ==
    \A q \in Peers, n \in Names :
       /\ disk[q][n] \in {NoVault, {<<n, q>>}, {}, Copy(q, n)}
       /\ ~Came(q, n) => disk[q][n] \in {NoVault, {<<n, q>>}}
HoldInv ==
    \A q \in Peers :
       /\ pc[q] = "files" => staged[q] \in {{}, Copy(q, Head(todo[q]))}
       /\ pc[q] = "record" => disk[q][Head(todo[q])] = Copy(q, Head(todo[q]))

StreamInv == unmatched = {} => /\ \A q \in Peers : Aligned(q)
                               /\ DirInv /\ HoldInv /\ CatalogueBackedByFiles

\* The catalogue a peer copies entries from is the other peer's.
TheirsInv == /\ Planned => theirs["init"] = mine["resp"]
             /\ pc["resp"] \notin {"start", "catalogue", "failed"} =>
                   theirs["resp"] = mine["init"]

\* A peer updates entries of the vaults it receives, with the version and the time
\* of the other peer's; and as long as nothing fails it has done so for the vaults
\* that its loop has gone past, but for those whose entry the merge kept.
Like(a, b) == /\ a \in Entries /\ b \in Entries
              /\ a.version = b.version /\ a.modified = b.modified
Kept(q, n) == KeepsOwn(q, mine[q][n], mine[Other(q)][n])
Recorded(q) ==
    IF pc[q] \in {"start", "catalogue", "plan"} \/ (q = "init" /\ pc[q] = "send") THEN 0
    ELSE IF Receiving(q) THEN Passed(q, Due(q)) ELSE Len(Due(q))
Clean == /\ faults = 0 /\ unmatched = {} /\ stream # "broken"
         /\ \A p \in Peers : pc[p] # "failed"
CopiedInv ==
    /\ \A q \in Peers, n \in Names :
          cat[q][n] # mine[q][n] =>
             Came(q, n) /\ Like(cat[q][n], mine[Other(q)][n])
    /\ Clean => \A q \in Peers : \A k \in 1 .. Recorded(q) :
                   \/ Like(cat[q][Due(q)[k]], mine[Other(q)][Due(q)[k]])
                   \/ Kept(q, Due(q)[k])
SyncedInv == \A p \in synced : pc[p] = "done"

JInv == /\ IInv /\ StreamStates /\ ListInv /\ StreamInv /\ TheirsInv /\ CopiedInv
        /\ SyncedInv

-----------------------------------------------------------------------------
(* Places and messages *)

LEMMA LeadsNowhere == \A L, q : \A a \in Places : Leads(L, q, <<>>, a, a)
  <1> SUFFICES ASSUME NEW L, NEW q, NEW a \in Places PROVE Leads(L, q, <<>>, a, a)
    OBVIOUS
  <1> DEFINE st == [i \in Nat |-> a]
  <1>1. st \in [Nat -> Places] /\ st[0] = a /\ Len(<<>>) = 0 /\ 1 .. 0 = {}
    OBVIOUS
  <1> HIDE DEF st
  <1> QED
    BY <1>1 DEF Leads

LEMMA LeadsHere ==
    ASSUME NEW L, NEW q, NEW a, NEW z, Leads(L, q, <<>>, a, z) PROVE a = z
  BY DEF Leads

\* The first message that is read, and the place it leads to.
LEMMA LeadsOn ==
    ASSUME NEW L, NEW q, NEW M, NEW c \in Seq(M), c # <<>>, NEW a, NEW z,
           Leads(L, q, c, a, z)
    PROVE  \E b \in Places : Moves(L, q, a, Head(c), b) /\ Leads(L, q, Tail(c), b, z)
  <1>1. PICK st \in [Nat -> Places] :
           /\ st[0] = a /\ st[Len(c)] = z
           /\ \A i \in 1 .. Len(c) : Moves(L, q, st[i - 1], c[i], st[i])
    BY DEF Leads
  <1> DEFINE d == Tail(c)
             tt == [i \in Nat |-> st[i + 1]]
  <1>2. Len(d) = Len(c) - 1 /\ Len(d) \in Nat /\ \A i \in 1 .. Len(d) : d[i] = c[i + 1]
    OBVIOUS
  <1>3. tt \in [Nat -> Places] /\ tt[0] = st[1] /\ tt[Len(d)] = z
    BY <1>1, <1>2
  <1>4. \A i \in 1 .. Len(d) : Moves(L, q, tt[i - 1], d[i], tt[i])
    <2> SUFFICES ASSUME NEW i \in 1 .. Len(d) PROVE Moves(L, q, tt[i - 1], d[i], tt[i])
      OBVIOUS
    <2>1. tt[i - 1] = st[i] /\ tt[i] = st[i + 1] /\ d[i] = c[i + 1]
      BY <1>2
    <2>2. i + 1 \in 1 .. Len(c) /\ (i + 1) - 1 = i
      BY <1>2
    <2>3. Moves(L, q, st[i], c[i + 1], st[i + 1])
      BY <1>1, <2>2
    <2> QED
      BY <2>1, <2>3
  <1>5. Leads(L, q, d, st[1], z)
    <2> HIDE DEF d, tt
    <2> QED
      BY <1>3, <1>4 DEF Leads
  <1>6. Moves(L, q, a, Head(c), st[1])
    <2>1. 1 \in 1 .. Len(c) /\ Head(c) = c[1] /\ 1 - 1 = 0
      OBVIOUS
    <2>2. Moves(L, q, st[0], c[1], st[1])
      BY <1>1, <2>1
    <2> QED
      BY <1>1, <2>1, <2>2
  <1> QED
    BY <1>5, <1>6

\* One more message at the end.
LEMMA LeadsFurther ==
    ASSUME NEW L, NEW q, NEW M, NEW c \in Seq(M), NEW m, NEW a, NEW y, NEW z \in Places,
           Leads(L, q, c, a, y), Moves(L, q, y, m, z)
    PROVE  Leads(L, q, c \o <<m>>, a, z)
  <1>1. PICK st \in [Nat -> Places] :
           /\ st[0] = a /\ st[Len(c)] = y
           /\ \A i \in 1 .. Len(c) : Moves(L, q, st[i - 1], c[i], st[i])
    BY DEF Leads
  <1> DEFINE d == c \o <<m>>
             tt == [i \in Nat |-> IF i <= Len(c) THEN st[i] ELSE z]
  <1>2. /\ Len(d) = Len(c) + 1 /\ Len(c) \in Nat
        /\ d[Len(d)] = m /\ \A i \in 1 .. Len(c) : d[i] = c[i]
    OBVIOUS
  <1>3. tt \in [Nat -> Places] /\ tt[0] = a /\ tt[Len(d)] = z
    BY <1>1, <1>2
  <1>4. \A i \in 1 .. Len(d) : Moves(L, q, tt[i - 1], d[i], tt[i])
    <2> SUFFICES ASSUME NEW i \in 1 .. Len(d) PROVE Moves(L, q, tt[i - 1], d[i], tt[i])
      OBVIOUS
    <2>1. CASE i <= Len(c)
      <3>1. tt[i - 1] = st[i - 1] /\ tt[i] = st[i] /\ d[i] = c[i] /\ i \in 1 .. Len(c)
        BY <1>2, <2>1
      <3> QED
        BY <1>1, <3>1
    <2>2. CASE i = Len(d)
      <3>1. tt[i - 1] = y /\ tt[i] = z /\ d[i] = m
        BY <1>1, <1>2, <2>2
      <3> QED
        BY <3>1
    <2> QED
      BY <1>2, <2>1, <2>2
  <1> HIDE DEF d, tt
  <1>5. Leads(L, q, d, a, z)
    BY <1>3, <1>4 DEF Leads
  <1> QED
    BY <1>5 DEF d

\* Before the plan there is no list: catalogues lead to the same places.
LEMMA LeadsAnyList ==
    ASSUME NEW L, NEW K, NEW q, NEW M, NEW c \in Seq(M), NEW a, NEW z,
           \A m \in M : m.action = "catalogue", Leads(L, q, c, a, z)
    PROVE  Leads(K, q, c, a, z)
  <1>1. PICK st \in [Nat -> Places] :
           /\ st[0] = a /\ st[Len(c)] = z
           /\ \A i \in 1 .. Len(c) : Moves(L, q, st[i - 1], c[i], st[i])
    BY DEF Leads
  <1>2. \A i \in 1 .. Len(c) : Moves(K, q, st[i - 1], c[i], st[i])
    <2> SUFFICES ASSUME NEW i \in 1 .. Len(c) PROVE Moves(K, q, st[i - 1], c[i], st[i])
      OBVIOUS
    <2>1. c[i].action = "catalogue" /\ Moves(L, q, st[i - 1], c[i], st[i])
      BY <1>1
    <2> QED
      BY <2>1 DEF Moves
  <1> QED
    BY <1>1, <1>2 DEF Leads

\* The message that is read and the place it is read at determine one another.
LEMMA MoveFrom ==
    ASSUME NEW L, NEW q, NEW m, NEW k \in Nat, NEW t
    PROVE  /\ Moves(L, q, <<0, "hello">>, m, t) =>
                 /\ m.action = "catalogue"
                 /\ t = <<0, IF q = "resp" THEN "plan" ELSE "next">>
           /\ Moves(L, q, <<0, "plan">>, m, t) =>
                 m.action = "sync_plan" /\ t = <<0, "next">>
           /\ Moves(L, q, <<k, "next">>, m, t) /\ k < Len(L) =>
                 m.action = "transfer_begin" /\ t = <<k + 1, "begun">>
           /\ Moves(L, q, <<k, "begun">>, m, t) =>
                 /\ m.action = "transfer_file" /\ m.files = {<<L[k], Other(q)>>}
                 /\ t = <<k, "filed">>
           /\ Moves(L, q, <<k, "filed">>, m, t) =>
                 m.action = "transfer_end" /\ t = <<k, "next">>
  <1>1. Moves(L, q, <<0, "hello">>, m, t) =>
                 /\ m.action = "catalogue"
                 /\ t = <<0, IF q = "resp" THEN "plan" ELSE "next">>
    BY DEF Moves
  <1>2. Moves(L, q, <<0, "plan">>, m, t) => m.action = "sync_plan" /\ t = <<0, "next">>
    BY DEF Moves
  <1>3. Moves(L, q, <<k, "next">>, m, t) /\ k < Len(L) =>
                 m.action = "transfer_begin" /\ t = <<k + 1, "begun">>
    BY DEF Moves
  <1>4. Moves(L, q, <<k, "begun">>, m, t) =>
                 /\ m.action = "transfer_file" /\ m.files = {<<L[k], Other(q)>>}
                 /\ t = <<k, "filed">>
    BY DEF Moves
  <1>5. Moves(L, q, <<k, "filed">>, m, t) =>
                 m.action = "transfer_end" /\ t = <<k, "next">>
    BY DEF Moves
  <1> QED
    BY <1>1, <1>2, <1>3, <1>4, <1>5

-----------------------------------------------------------------------------
(* The lists of the loops *)

LEMMA EndOfAll == \A M : \A L \in Seq(M) : EndOf(L, L)
  <1> SUFFICES ASSUME NEW M, NEW L \in Seq(M) PROVE EndOf(L, L)
    OBVIOUS
  <1>1. \A j \in 1 .. Len(L) : Len(L) - Len(L) + j = j
    OBVIOUS
  <1> QED
    BY <1>1 DEF EndOf

LEMMA EndOfTail ==
    ASSUME NEW M, NEW L \in Seq(M), NEW t \in Seq(M), t # <<>>, EndOf(t, L)
    PROVE  /\ EndOf(Tail(t), L)
           /\ Len(L) - Len(t) \in Nat /\ Len(L) - Len(t) < Len(L)
           /\ Head(t) = L[Len(L) - Len(t) + 1]
           /\ Len(L) - Len(Tail(t)) = Len(L) - Len(t) + 1
  <1>1. /\ Len(t) \in Nat /\ Len(t) > 0 /\ Len(L) \in Nat
        /\ Len(Tail(t)) = Len(t) - 1 /\ Head(t) = t[1]
        /\ \A j \in 1 .. Len(Tail(t)) : Tail(t)[j] = t[j + 1]
    OBVIOUS
  <1>2. /\ Len(t) <= Len(L)
        /\ \A j \in 1 .. Len(t) : t[j] = L[Len(L) - Len(t) + j]
    BY DEF EndOf
  <1>3. \A j \in 1 .. Len(Tail(t)) : Tail(t)[j] = L[Len(L) - Len(Tail(t)) + j]
    <2> SUFFICES ASSUME NEW j \in 1 .. Len(Tail(t))
                 PROVE  Tail(t)[j] = L[Len(L) - Len(Tail(t)) + j]
      OBVIOUS
    <2>1. Len(L) - Len(Tail(t)) + j = Len(L) - Len(t) + (j + 1) /\ j + 1 \in 1 .. Len(t)
      BY <1>1
    <2> QED
      BY <1>1, <1>2, <2>1
  <1>4. EndOf(Tail(t), L)
    BY <1>1, <1>2, <1>3 DEF EndOf
  <1> QED
    BY <1>1, <1>2, <1>4

LEMMA EndOfNone ==
    ASSUME NEW M, NEW L \in Seq(M), NEW t \in Seq(M), EndOf(t, L)
    PROVE  /\ Len(L) - Len(t) \in Nat /\ Len(L) - Len(t) <= Len(L)
           /\ t = <<>> => Len(L) - Len(t) = Len(L)
  BY DEF EndOf

LEMMA DueType == ASSUME Types, NEW q \in Peers PROVE Due(q) \in Seq(Names)
  BY PairsSeq DEF Types, PlanTypes, Due, Way, Peers

\* The list of the loop that a peer is in.
Loop(p) == IF pc[p] = "send" THEN Due(Other(p)) ELSE Due(p)
InLoop(p) == Receiving(p) \/ pc[p] = "send"

LEMMA LoopStep ==
    ASSUME Types, ListInv, NEW p \in Peers, InLoop(p)
    PROVE  /\ Passed(p, Loop(p)) \in Nat /\ Passed(p, Loop(p)) <= Len(Loop(p))
           /\ todo[p] = <<>> => Passed(p, Loop(p)) = Len(Loop(p))
           /\ todo[p] # <<>> =>
                 /\ EndOf(Tail(todo[p]), Loop(p))
                 /\ Passed(p, Loop(p)) < Len(Loop(p))
                 /\ Head(todo[p]) = Loop(p)[Passed(p, Loop(p)) + 1]
                 /\ Len(Loop(p)) - Len(Tail(todo[p])) = Passed(p, Loop(p)) + 1
  <1>1. Loop(p) \in Seq(Names) /\ todo[p] \in Seq(Names)
    BY DueType DEF Loop, Other, Peers, Types, TodoTypes
  <1>2. EndOf(todo[p], Loop(p))
    BY DEF ListInv, Loop, InLoop, Receiving
  <1> QED
    BY <1>1, <1>2, EndOfTail, EndOfNone DEF Passed

\* The stream is opened once, by the initiator, and breaks once.
LEMMA StreamStatesNext == Types /\ StreamStates /\ [Next]_vars => StreamStates'
  <1> SUFFICES ASSUME Types, StreamStates, [Next]_vars PROVE StreamStates'
    OBVIOUS
  <1>1. CASE Open
    BY <1>1 DEF Open, Goto, StreamStates, Types, PcTypes, RestTypes, Peers
  <1>2. CASE OpenFails
    BY <1>2 DEF OpenFails, Fail, Goto, StreamStates, Types, PcTypes, RestTypes, Peers
  <1>3. CASE Accept
    BY <1>3 DEF Accept, Goto, StreamStates, Types, PcTypes, RestTypes, Peers
  <1>4. CASE Reject
    BY <1>4 DEF Reject, Fail, Goto, StreamStates, Types, PcTypes, RestTypes, Peers
  <1>5. CASE AnswerCatalogue
    BY <1>5 DEF AnswerCatalogue, Goto, StreamStates, Types, PcTypes, RestTypes, Peers
  <1>6. CASE SendPlan
    BY <1>6 DEF SendPlan, Goto, StreamStates, Types, PcTypes, RestTypes, Peers
  <1>7. CASE AcceptPlan
    BY <1>7 DEF AcceptPlan, FollowPlan, Goto, StreamStates, Types, PcTypes, RestTypes,
       Peers
  <1>8. CASE RefusePlan
    BY <1>8 DEF RefusePlan, Fail, Goto, StreamStates, Types, PcTypes, RestTypes, Peers
  <1>9. ASSUME NEW p \in Peers, HandshakeFails(p) PROVE StreamStates'
    BY <1>9 DEF HandshakeFails, Fail, Goto, StreamStates, Types, PcTypes, RestTypes,
       Peers
  <1>10. ASSUME NEW p \in Peers, SendVault(p) PROVE StreamStates'
    BY <1>10 DEF SendVault, StreamStates, Types, PcTypes, RestTypes, Peers
  <1>11. ASSUME NEW p \in Peers, SendDone(p) PROVE StreamStates'
    BY <1>11 DEF SendDone, Goto, StreamStates, Types, PcTypes, RestTypes, Peers
  <1>12. ASSUME NEW p \in Peers, ReceiveBegin(p) PROVE StreamStates'
    BY <1>12 DEF ReceiveBegin, Goto, StreamStates, Types, PcTypes, RestTypes, Peers
  <1>13. ASSUME NEW p \in Peers, ReceiveFile(p) PROVE StreamStates'
    BY <1>13 DEF ReceiveFile, StreamStates, Types, PcTypes, RestTypes, Peers
  <1>14. ASSUME NEW p \in Peers, ReceiveEnd(p) PROVE StreamStates'
    BY <1>14 DEF ReceiveEnd, Goto, StreamStates, Types, PcTypes, RestTypes, Peers
  <1>15. ASSUME NEW p \in Peers, ReceiveFails(p) PROVE StreamStates'
    BY <1>15 DEF ReceiveFails, Goto, StreamStates, Types, PcTypes, RestTypes, Peers
  <1>16. ASSUME NEW p \in Peers, Record(p) PROVE StreamStates'
    BY <1>16 DEF Record, Goto, StreamStates, Types, PcTypes, RestTypes, Peers
  <1>17. CASE Complete
    BY <1>17 DEF Complete, Goto, StreamStates, Types, PcTypes, RestTypes, Peers
  <1>18. CASE StartSending
    BY <1>18 DEF StartSending, Goto, StreamStates, Types, PcTypes, RestTypes, Peers
  <1>19. CASE AwaitComplete
    BY <1>19 DEF AwaitComplete, Goto, StreamStates, Types, PcTypes, RestTypes, Peers
  <1>20. CASE Break
    BY <1>20 DEF Break, StreamStates, Types, PcTypes, RestTypes, Peers
  <1>21. CASE UNCHANGED vars
    BY <1>21 DEF vars, StreamStates, Types, PcTypes, RestTypes, Peers
  <1> QED
    BY <1>1, <1>2, <1>3, <1>4, <1>5, <1>6, <1>7, <1>8, <1>9, <1>10, <1>11, <1>12, <1>13,
       <1>14, <1>15, <1>16, <1>17, <1>18, <1>19, <1>20, <1>21
       DEF Next, Session, Handshake, Transfer, Ending, Over

\* What a peer that records a session has returned, and stays so.
LEMMA SyncedNext == Types /\ SyncedInv /\ [Next]_vars => SyncedInv'
  <1> SUFFICES ASSUME Types, SyncedInv, [Next]_vars PROVE SyncedInv'
    OBVIOUS
  <1>1. CASE Open
    BY <1>1 DEF Open, Goto, SyncedInv, Types, PcTypes, RestTypes, Peers
  <1>2. CASE OpenFails
    BY <1>2 DEF OpenFails, Fail, Goto, SyncedInv, Types, PcTypes, RestTypes, Peers
  <1>3. CASE Accept
    BY <1>3 DEF Accept, Goto, SyncedInv, Types, PcTypes, RestTypes, Peers
  <1>4. CASE Reject
    BY <1>4 DEF Reject, Fail, Goto, SyncedInv, Types, PcTypes, RestTypes, Peers
  <1>5. CASE AnswerCatalogue
    BY <1>5 DEF AnswerCatalogue, Goto, SyncedInv, Types, PcTypes, RestTypes, Peers
  <1>6. CASE SendPlan
    BY <1>6 DEF SendPlan, Goto, SyncedInv, Types, PcTypes, RestTypes, Peers
  <1>7. CASE AcceptPlan
    BY <1>7 DEF AcceptPlan, FollowPlan, Goto, SyncedInv, Types, PcTypes, RestTypes,
       Peers
  <1>8. CASE RefusePlan
    BY <1>8 DEF RefusePlan, Fail, Goto, SyncedInv, Types, PcTypes, RestTypes, Peers
  <1>9. ASSUME NEW p \in Peers, HandshakeFails(p) PROVE SyncedInv'
    BY <1>9 DEF HandshakeFails, Fail, Goto, SyncedInv, Types, PcTypes, RestTypes, Peers
  <1>10. ASSUME NEW p \in Peers, SendVault(p) PROVE SyncedInv'
    BY <1>10 DEF SendVault, SyncedInv, Types, PcTypes, RestTypes, Peers
  <1>11. ASSUME NEW p \in Peers, SendDone(p) PROVE SyncedInv'
    BY <1>11 DEF SendDone, Goto, SyncedInv, Types, PcTypes, RestTypes, Peers
  <1>12. ASSUME NEW p \in Peers, ReceiveBegin(p) PROVE SyncedInv'
    BY <1>12 DEF ReceiveBegin, Goto, SyncedInv, Types, PcTypes, RestTypes, Peers
  <1>13. ASSUME NEW p \in Peers, ReceiveFile(p) PROVE SyncedInv'
    BY <1>13 DEF ReceiveFile, SyncedInv, Types, PcTypes, RestTypes, Peers
  <1>14. ASSUME NEW p \in Peers, ReceiveEnd(p) PROVE SyncedInv'
    BY <1>14 DEF ReceiveEnd, Goto, SyncedInv, Types, PcTypes, RestTypes, Peers
  <1>15. ASSUME NEW p \in Peers, ReceiveFails(p) PROVE SyncedInv'
    BY <1>15 DEF ReceiveFails, Goto, SyncedInv, Types, PcTypes, RestTypes, Peers
  <1>16. ASSUME NEW p \in Peers, Record(p) PROVE SyncedInv'
    BY <1>16 DEF Record, Goto, SyncedInv, Types, PcTypes, RestTypes, Peers
  <1>17. CASE Complete
    BY <1>17 DEF Complete, Goto, SyncedInv, Types, PcTypes, RestTypes, Peers
  <1>18. CASE StartSending
    BY <1>18 DEF StartSending, Goto, SyncedInv, Types, PcTypes, RestTypes, Peers
  <1>19. CASE AwaitComplete
    BY <1>19 DEF AwaitComplete, Goto, SyncedInv, Types, PcTypes, RestTypes, Peers
  <1>20. CASE Break
    BY <1>20 DEF Break, SyncedInv, Types, PcTypes, RestTypes, Peers
  <1>21. CASE UNCHANGED vars
    BY <1>21 DEF vars, SyncedInv, Types, PcTypes, RestTypes, Peers
  <1> QED
    BY <1>1, <1>2, <1>3, <1>4, <1>5, <1>6, <1>7, <1>8, <1>9, <1>10, <1>11, <1>12, <1>13,
       <1>14, <1>15, <1>16, <1>17, <1>18, <1>19, <1>20, <1>21
       DEF Next, Session, Handshake, Transfer, Ending, Over

\* What a peer has received is the catalogue that the other peer loaded.
LEMMA TheirsNext ==
    Types /\ StartInv /\ ChanInv /\ TheirsInv /\ [Next]_vars => TheirsInv'
  <1> SUFFICES ASSUME Types, StartInv, ChanInv, TheirsInv, [Next]_vars PROVE TheirsInv'
    OBVIOUS
  <1>m. mine' = mine
    BY MineStays
  <1>1. CASE Open
    BY <1>1, <1>m DEF Open, Goto, TheirsInv, Planned, Types, PcTypes, CatTypes, Peers
  <1>2. CASE OpenFails
    BY <1>2, <1>m DEF OpenFails, Fail, Goto, TheirsInv, Planned, Types, PcTypes,
       CatTypes, Peers
  <1>3. CASE Accept
    BY <1>3, <1>m DEF Accept, Goto, TheirsInv, Planned, Types, PcTypes, CatTypes, Peers
  <1>4. CASE Reject
    BY <1>4, <1>m DEF Reject, Fail, Goto, TheirsInv, Planned, Types, PcTypes, CatTypes,
       Peers
  <1>5. CASE AnswerCatalogue
    <2>1. Incoming("resp").body = mine["init"]
      BY <1>5, ReadsInv DEF AnswerCatalogue, Types, To, Other, Peers
    <2> QED
      BY <1>5, <1>m, <2>1 DEF AnswerCatalogue, Goto, TheirsInv, Planned, Types, PcTypes,
         CatTypes, Peers
  <1>6. CASE SendPlan
    <2>1. Incoming("init").body = mine["resp"]
      BY <1>6, ReadsInv DEF SendPlan, Types, To, Other, Peers
    <2> QED
      BY <1>6, <1>m, <2>1 DEF SendPlan, Goto, TheirsInv, Planned, Types, PcTypes,
         CatTypes, Peers
  <1>7. CASE AcceptPlan
    BY <1>7, <1>m DEF AcceptPlan, FollowPlan, Goto, TheirsInv, Planned, Types, PcTypes,
       CatTypes, Peers
  <1>8. CASE RefusePlan
    BY <1>8, <1>m DEF RefusePlan, Fail, Goto, TheirsInv, Planned, Types, PcTypes,
       CatTypes, Peers
  <1>9. ASSUME NEW p \in Peers, HandshakeFails(p) PROVE TheirsInv'
    BY <1>9, <1>m DEF HandshakeFails, Fail, Goto, TheirsInv, Planned, Types, PcTypes,
       CatTypes, Peers
  <1>10. ASSUME NEW p \in Peers, SendVault(p) PROVE TheirsInv'
    BY <1>10, <1>m DEF SendVault, TheirsInv, Planned, Types, PcTypes, CatTypes, Peers
  <1>11. ASSUME NEW p \in Peers, SendDone(p) PROVE TheirsInv'
    BY <1>11, <1>m DEF SendDone, Goto, TheirsInv, Planned, Types, PcTypes, CatTypes,
       Peers
  <1>12. ASSUME NEW p \in Peers, ReceiveBegin(p) PROVE TheirsInv'
    BY <1>12, <1>m DEF ReceiveBegin, Goto, TheirsInv, Planned, Types, PcTypes, CatTypes,
       Peers
  <1>13. ASSUME NEW p \in Peers, ReceiveFile(p) PROVE TheirsInv'
    BY <1>13, <1>m DEF ReceiveFile, TheirsInv, Planned, Types, PcTypes, CatTypes, Peers
  <1>14. ASSUME NEW p \in Peers, ReceiveEnd(p) PROVE TheirsInv'
    BY <1>14, <1>m DEF ReceiveEnd, Goto, TheirsInv, Planned, Types, PcTypes, CatTypes,
       Peers
  <1>15. ASSUME NEW p \in Peers, ReceiveFails(p) PROVE TheirsInv'
    BY <1>15, <1>m DEF ReceiveFails, Goto, TheirsInv, Planned, Types, PcTypes, CatTypes,
       Peers
  <1>16. ASSUME NEW p \in Peers, Record(p) PROVE TheirsInv'
    BY <1>16, <1>m DEF Record, Goto, TheirsInv, Planned, Types, PcTypes, CatTypes, Peers
  <1>17. CASE Complete
    BY <1>17, <1>m DEF Complete, Goto, TheirsInv, Planned, Types, PcTypes, CatTypes,
       Peers
  <1>18. CASE StartSending
    BY <1>18, <1>m DEF StartSending, Goto, TheirsInv, Planned, Types, PcTypes, CatTypes,
       Peers
  <1>19. CASE AwaitComplete
    BY <1>19, <1>m DEF AwaitComplete, Goto, TheirsInv, Planned, Types, PcTypes,
       CatTypes, Peers
  <1>20. CASE Break
    BY <1>20, <1>m DEF Break, TheirsInv, Planned, Types, PcTypes, CatTypes, Peers
  <1>21. CASE UNCHANGED vars
    BY <1>21, <1>m DEF vars, TheirsInv, Planned, Types, PcTypes, CatTypes, Peers
  <1> QED
    BY <1>1, <1>2, <1>3, <1>4, <1>5, <1>6, <1>7, <1>8, <1>9, <1>10, <1>11, <1>12, <1>13,
       <1>14, <1>15, <1>16, <1>17, <1>18, <1>19, <1>20, <1>21
       DEF Next, Session, Handshake, Transfer, Ending, Over

\* A loop takes the vaults of its list in their order.
LEMMA ListNext ==
    Types /\ StartInv /\ ChanInv /\ PlanInv /\ ListInv /\ [Next]_vars => ListInv'
  <1> SUFFICES ASSUME Types, StartInv, ChanInv, PlanInv, ListInv, [Next]_vars PROVE ListInv'
    OBVIOUS
  <1>w. order["push"] \in Seq(Names) /\ order["pull"] \in Seq(Names)
    BY PairsSeq DEF Types, PlanTypes
  <1>1. CASE Open
    BY <1>1 DEF Open, Goto, ListInv, Receiving, Due, Way, Other, Types, PcTypes,
       TodoTypes, Peers
  <1>2. CASE OpenFails
    BY <1>2 DEF OpenFails, Fail, Goto, ListInv, Receiving, Due, Way, Other, Types,
       PcTypes, TodoTypes, Peers
  <1>3. CASE Accept
    BY <1>3 DEF Accept, Goto, ListInv, Receiving, Due, Way, Other, Types, PcTypes,
       TodoTypes, Peers
  <1>4. CASE Reject
    BY <1>4 DEF Reject, Fail, Goto, ListInv, Receiving, Due, Way, Other, Types, PcTypes,
       TodoTypes, Peers
  <1>5. CASE AnswerCatalogue
    BY <1>5 DEF AnswerCatalogue, Goto, ListInv, Receiving, Due, Way, Other, Types,
       PcTypes, TodoTypes, Peers
  <1>6. CASE SendPlan
    <2>1. ~Planned /\ ~Accepted
      BY <1>6 DEF SendPlan, PlanInv, Planned
    <2>2. PICK o \in Lists(Negotiate(mine["init"], Incoming("init").body, strict["init"])) :
             order' = o /\ todo' = [todo EXCEPT !["init"] = o["push"]]
      BY <1>6 DEF SendPlan
    <2>3. o \in Pairs
      BY ListsMoved
    <2>4. EndOf(order'["push"], order'["push"])
      BY <2>2, <2>3, PairsSeq, EndOfAll
    <2>5. pc' = [pc EXCEPT !["init"] = "send"] /\ pc["init"] = "catalogue"
      BY <1>6 DEF SendPlan, Goto
    <2>6. pc["resp"] \notin {"receive", "files", "record", "send"}
      BY <2>1 DEF Accepted
    <2> QED
      BY <2>2, <2>4, <2>5, <2>6 DEF ListInv, Receiving, Due, Way, Other, Types, PcTypes,
         TodoTypes, Peers
  <1>7. CASE AcceptPlan
    <2>1. Incoming("resp").order = order
      BY <1>7, ReadsInv DEF AcceptPlan, FollowPlan, Types, To, Peers
    <2>2. EndOf(order["push"], order["push"])
      BY <1>w, EndOfAll
    <2> QED
      BY <1>7, <2>1, <2>2 DEF AcceptPlan, FollowPlan, Goto, ListInv, Receiving, Due,
         Way, Other, Types, PcTypes, TodoTypes, Peers
  <1>8. CASE RefusePlan
    BY <1>8 DEF RefusePlan, Fail, Goto, ListInv, Receiving, Due, Way, Other, Types,
       PcTypes, TodoTypes, Peers
  <1>9. ASSUME NEW p \in Peers, HandshakeFails(p) PROVE ListInv'
    BY <1>9 DEF HandshakeFails, Fail, Goto, ListInv, Receiving, Due, Way, Other, Types,
       PcTypes, TodoTypes, Peers
  <1>10. ASSUME NEW p \in Peers, SendVault(p) PROVE ListInv'
    <2>1. InLoop(p) /\ todo[p] # <<>>
      BY <1>10 DEF SendVault, InLoop, Receiving, Types, TodoTypes
    <2>2. EndOf(Tail(todo[p]), Loop(p))
      BY <2>1, LoopStep
    <2> QED
      BY <1>10, <2>2 DEF SendVault, Goto, Loop, ListInv, Receiving, Due, Way, Other,
         Types, PcTypes, TodoTypes, Peers
  <1>11. ASSUME NEW p \in Peers, SendDone(p) PROVE ListInv'
    <2>2. EndOf(order["pull"], order["pull"])
      BY <1>w, EndOfAll
    <2> QED
      BY <1>11, <2>2 DEF SendDone, Goto, ListInv, Receiving, Due, Way, Other, Types,
         PcTypes, TodoTypes, Peers
  <1>12. ASSUME NEW p \in Peers, ReceiveBegin(p) PROVE ListInv'
    <2>1. InLoop(p) /\ todo[p] # <<>>
      BY <1>12 DEF ReceiveBegin, InLoop, Receiving, Types, TodoTypes
    <2>2. EndOf(Tail(todo[p]), Loop(p))
      BY <2>1, LoopStep
    <2> QED
      BY <1>12, <2>2 DEF ReceiveBegin, Goto, Loop, ListInv, Receiving, Due, Way, Other,
         Types, PcTypes, TodoTypes, Peers
  <1>13. ASSUME NEW p \in Peers, ReceiveFile(p) PROVE ListInv'
    BY <1>13 DEF ReceiveFile, ListInv, Receiving, Due, Way, Other, Types, PcTypes,
       TodoTypes, Peers
  <1>14. ASSUME NEW p \in Peers, ReceiveEnd(p) PROVE ListInv'
    BY <1>14 DEF ReceiveEnd, Goto, ListInv, Receiving, Due, Way, Other, Types, PcTypes,
       TodoTypes, Peers
  <1>15. ASSUME NEW p \in Peers, ReceiveFails(p) PROVE ListInv'
    <2>1. InLoop(p) /\ todo[p] # <<>>
      BY <1>15 DEF ReceiveFails, InLoop, Receiving, Types, TodoTypes
    <2>2. EndOf(Tail(todo[p]), Loop(p))
      BY <2>1, LoopStep
    <2> QED
      BY <1>15, <2>2 DEF ReceiveFails, Goto, Loop, ListInv, Receiving, Due, Way, Other,
         Types, PcTypes, TodoTypes, Peers
  <1>16. ASSUME NEW p \in Peers, Record(p) PROVE ListInv'
    <2>1. InLoop(p) /\ todo[p] # <<>>
      BY <1>16 DEF Record, InLoop, Receiving, Types, TodoTypes
    <2>2. EndOf(Tail(todo[p]), Loop(p))
      BY <2>1, LoopStep
    <2> QED
      BY <1>16, <2>2 DEF Record, Goto, Loop, ListInv, Receiving, Due, Way, Other, Types,
         PcTypes, TodoTypes, Peers
  <1>17. CASE Complete
    BY <1>17 DEF Complete, Goto, ListInv, Receiving, Due, Way, Other, Types, PcTypes,
       TodoTypes, Peers
  <1>18. CASE StartSending
    <2>2. EndOf(order["pull"], order["pull"])
      BY <1>w, EndOfAll
    <2> QED
      BY <1>18, <2>2 DEF StartSending, Goto, ListInv, Receiving, Due, Way, Other, Types,
         PcTypes, TodoTypes, Peers
  <1>19. CASE AwaitComplete
    BY <1>19 DEF AwaitComplete, Goto, ListInv, Receiving, Due, Way, Other, Types,
       PcTypes, TodoTypes, Peers
  <1>20. CASE Break
    BY <1>20 DEF Break, ListInv, Receiving, Due, Way, Other, Types, PcTypes, TodoTypes,
       Peers
  <1>21. CASE UNCHANGED vars
    BY <1>21 DEF vars, ListInv, Receiving, Due, Way, Other
  <1> QED
    BY <1>1, <1>2, <1>3, <1>4, <1>5, <1>6, <1>7, <1>8, <1>9, <1>10, <1>11, <1>12, <1>13,
       <1>14, <1>15, <1>16, <1>17, <1>18, <1>19, <1>20, <1>21
       DEF Next, Session, Handshake, Transfer, Ending, Over

-----------------------------------------------------------------------------
(* Reading and writing *)

\* Nothing is read from or written to the stream.
LEMMA AlignedKept ==
    ASSUME NEW q \in Peers, Aligned(q), chan'[q] = chan[q], order' = order,
           pc'[q] \notin {"done", "failed"} =>
              pc[q] \notin {"done", "failed"} /\ ReadUpTo(q)' = ReadUpTo(q),
           Severed(q)' \/ (~Severed(q) /\ WrittenUpTo(q)' = WrittenUpTo(q))
    PROVE  Aligned(q)'
  <1> SUFFICES ASSUME pc'[q] \notin {"done", "failed"}
               PROVE  \E z \in Places : /\ Leads(Due(q), q, chan[q], ReadUpTo(q), z)'
                                        /\ Severed(q)' \/ z = WrittenUpTo(q)'
    BY DEF Aligned
  <1>1. PICK z \in Places : /\ Leads(Due(q), q, chan[q], ReadUpTo(q), z)
                            /\ Severed(q) \/ z = WrittenUpTo(q)
    BY DEF Aligned
  <1>2. Due(q)' = Due(q)
    BY DEF Due
  <1>3. Leads(Due(q), q, chan[q], ReadUpTo(q), z)'
    <2>1. Leads(Due(q)', q, chan'[q], ReadUpTo(q)', z)
      BY <1>1, <1>2
    <2> QED
      BY <2>1 DEF Leads, Moves
  <1> QED
    BY <1>1, <1>3

\* The place of a reader depends on its own loop only, and the place of a writer
\* on the loop of that peer.
LEMMA ReadUpToStays ==
    ASSUME NEW q \in Peers, pc'[q] = pc[q], todo'[q] = todo[q], staged'[q] = staged[q],
           order' = order
    PROVE  ReadUpTo(q)' = ReadUpTo(q)
  BY DEF ReadUpTo, Passed, Due

LEMMA WrittenUpToStays ==
    ASSUME NEW q \in Peers, pc'[Other(q)] = pc[Other(q)], todo'[Other(q)] = todo[Other(q)],
           order' = order
    PROVE  WrittenUpTo(q)' = WrittenUpTo(q)
  BY DEF WrittenUpTo, Passed, Due

\* A message is read.
LEMMA AlignedRead ==
    ASSUME Types, NEW q \in Peers, Aligned(q), pc[q] \notin {"done", "failed"}, CanRead(q),
           chan'[q] = Tail(chan[q]), order' = order, stream' = stream,
           pc'[Other(q)] = pc[Other(q)], todo'[Other(q)] = todo[Other(q)],
           \A b \in Places : Moves(Due(q), q, ReadUpTo(q), Incoming(q), b)
                                => ReadUpTo(q)' = b
    PROVE  Aligned(q)'
  <1> SUFFICES \E z \in Places : /\ Leads(Due(q), q, chan[q], ReadUpTo(q), z)'
                                 /\ Severed(q)' \/ z = WrittenUpTo(q)'
    BY DEF Aligned
  <1>1. PICK z \in Places : /\ Leads(Due(q), q, chan[q], ReadUpTo(q), z)
                            /\ Severed(q) \/ z = WrittenUpTo(q)
    BY DEF Aligned
  <1>2. chan[q] \in Seq(Messages) /\ chan[q] # <<>> /\ Incoming(q) = Head(chan[q])
    BY DEF Types, ChanTypes, CanRead, Incoming
  <1>3. PICK b \in Places : /\ Moves(Due(q), q, ReadUpTo(q), Incoming(q), b)
                            /\ Leads(Due(q), q, Tail(chan[q]), b, z)
    BY <1>1, <1>2, LeadsOn
  <1>4. ReadUpTo(q)' = b /\ Due(q)' = Due(q)
    BY <1>3 DEF Due
  <1>5. WrittenUpTo(q)' = WrittenUpTo(q) /\ (Severed(q) => Severed(q)')
    BY WrittenUpToStays DEF Severed
  <1>6. Leads(Due(q)', q, chan'[q], ReadUpTo(q)', z)
    BY <1>3, <1>4
  <1>7. Leads(Due(q), q, chan[q], ReadUpTo(q), z)'
    BY <1>6 DEF Leads, Moves
  <1> QED
    BY <1>1, <1>5, <1>7

\* A reader that finds the stream broken, or closed by a peer that gave up, drops
\* what it has not read.
LEMMA AlignedDropped ==
    ASSUME NEW q \in Peers, chan'[q] = <<>>, ReadUpTo(q)' \in Places, Severed(q)'
    PROVE  Aligned(q)'
  <1>1. Leads(Due(q)', q, chan'[q], ReadUpTo(q)', ReadUpTo(q)')
    BY LeadsNowhere
  <1>2. Leads(Due(q), q, chan[q], ReadUpTo(q), ReadUpTo(q))'
    BY <1>1 DEF Leads, Moves
  <1> QED
    BY <1>2 DEF Aligned

\* A message is written.
LEMMA AlignedWritten ==
    ASSUME Types, NEW q \in Peers, Aligned(q), ~Severed(q), NEW m,
           chan'[q] = chan[q] \o <<m>>, order' = order,
           pc'[q] = pc[q], ReadUpTo(q)' = ReadUpTo(q),
           WrittenUpTo(q)' \in Places,
           Moves(Due(q), q, WrittenUpTo(q), m, WrittenUpTo(q)')
    PROVE  Aligned(q)'
  <1> SUFFICES ASSUME pc'[q] \notin {"done", "failed"}
               PROVE  \E z \in Places : /\ Leads(Due(q), q, chan[q], ReadUpTo(q), z)'
                                        /\ Severed(q)' \/ z = WrittenUpTo(q)'
    BY DEF Aligned
  <1>1. Leads(Due(q), q, chan[q], ReadUpTo(q), WrittenUpTo(q))
    BY DEF Aligned
  <1>2. chan[q] \in Seq(Messages)
    BY DEF Types, ChanTypes
  <1>3. Leads(Due(q), q, chan[q] \o <<m>>, ReadUpTo(q), WrittenUpTo(q)')
    BY <1>1, <1>2, LeadsFurther
  <1>4. Due(q)' = Due(q)
    BY DEF Due
  <1>5. Leads(Due(q)', q, chan'[q], ReadUpTo(q)', WrittenUpTo(q)')
    BY <1>3, <1>4
  <1>6. Leads(Due(q), q, chan[q], ReadUpTo(q), WrittenUpTo(q))'
    BY <1>5 DEF Leads, Moves
  <1> QED
    BY <1>6

\* The vault that a receiver is at, and what it can read there.
LEMMA ReadingVault ==
    ASSUME Types, ListInv, NEW q \in Peers, Aligned(q),
           pc[q] \in {"receive", "files"}, todo[q] # <<>>
    PROVE  /\ CanRead(q) /\ pc[q] = "receive" => Incoming(q).action = "transfer_begin"
           /\ CanRead(q) /\ pc[q] = "files" /\ staged[q] = {} =>
                 /\ Incoming(q).action = "transfer_file"
                 /\ Incoming(q).files = Copy(q, Head(todo[q]))
           /\ CanRead(q) /\ pc[q] = "files" /\ staged[q] # {} =>
                 Incoming(q).action = "transfer_end"
           /\ ReadFails(q) => Severed(q)
  <1> DEFINE k == Passed(q, Due(q))
  <1>1. k \in Nat /\ k < Len(Due(q)) /\ Head(todo[q]) = Due(q)[k + 1]
    BY LoopStep DEF InLoop, Receiving, Loop
  <1>2. PICK z \in Places : /\ Leads(Due(q), q, chan[q], ReadUpTo(q), z)
                            /\ Severed(q) \/ z = WrittenUpTo(q)
    BY DEF Aligned
  <1>3. /\ pc[q] = "receive" => ReadUpTo(q) = <<k, "next">>
        /\ pc[q] = "files" /\ staged[q] = {} => ReadUpTo(q) = <<k + 1, "begun">>
        /\ pc[q] = "files" /\ staged[q] # {} => ReadUpTo(q) = <<k + 1, "filed">>
    BY DEF ReadUpTo
  <1> HIDE DEF k
  <1>4. ASSUME CanRead(q)
        PROVE  \E b : Moves(Due(q), q, ReadUpTo(q), Incoming(q), b)
    <2>1. chan[q] \in Seq(Messages) /\ chan[q] # <<>> /\ Incoming(q) = Head(chan[q])
      BY <1>4 DEF Types, ChanTypes, CanRead, Incoming
    <2> QED
      BY <1>2, <2>1, LeadsOn
  <1>5. CanRead(q) /\ pc[q] = "receive" => Incoming(q).action = "transfer_begin"
    BY <1>1, <1>3, <1>4, MoveFrom
  <1>6. k + 1 \in Nat
    BY <1>1
  <1>7. CanRead(q) /\ pc[q] = "files" /\ staged[q] = {} =>
                 /\ Incoming(q).action = "transfer_file"
                 /\ Incoming(q).files = Copy(q, Head(todo[q]))
    <2> SUFFICES ASSUME CanRead(q), pc[q] = "files", staged[q] = {}
                 PROVE  /\ Incoming(q).action = "transfer_file"
                        /\ Incoming(q).files = Copy(q, Head(todo[q]))
      OBVIOUS
    <2>1. PICK b : Moves(Due(q), q, <<k + 1, "begun">>, Incoming(q), b)
      BY <1>3, <1>4
    <2>2. /\ Incoming(q).action = "transfer_file"
          /\ Incoming(q).files = {<<Due(q)[k + 1], Other(q)>>}
      BY <1>6, <2>1, MoveFrom
    <2> QED
      BY <1>1, <2>2 DEF Copy
  <1>8. CanRead(q) /\ pc[q] = "files" /\ staged[q] # {} =>
                 Incoming(q).action = "transfer_end"
    BY <1>3, <1>4, <1>6, MoveFrom
  <1>9. ReadFails(q) => Severed(q)
    <2> SUFFICES ASSUME ReadFails(q), ~Severed(q) PROVE FALSE
      OBVIOUS
    <2>1. pc[Other(q)] = "done" /\ chan[q] = <<>>
      BY DEF ReadFails, Severed, Closed
    <2>2. ReadUpTo(q) = WrittenUpTo(q)
      BY <1>2, <2>1, LeadsHere
    <2>3. WrittenUpTo(q) \in {<<Len(Due(q)), "over">>, <<Len(Due(q)), "next">>}
      BY <2>1 DEF WrittenUpTo
    <2>4. ReadUpTo(q) = <<k, "next">> \/ ReadUpTo(q)[2] \in {"begun", "filed"}
      BY <1>3
    <2> QED
      BY <1>1, <2>2, <2>3, <2>4
  <1> QED
    BY <1>5, <1>7, <1>8, <1>9

-----------------------------------------------------------------------------
(* The vaults of a list *)

\* SetToSeqs orders the whole set.
LEMMA SetSeqsAll ==
    ASSUME NEW S, IsFiniteSet(S), NEW f \in SetToSeqs(S)
    PROVE  /\ Len(f) \in Nat
           /\ \A i \in 1 .. Len(f) : f[i] \in S
           /\ \A x \in S : \E i \in 1 .. Len(f) : f[i] = x
  <1>1. Cardinality(S) \in Nat
    BY FS_CardinalityType
  <1> DEFINE D == 1 .. Cardinality(S)
  <1>2. f \in [D -> S] /\ \A i, j \in D : i # j => f[i] # f[j]
    BY DEF SetToSeqs
  <1>3. f \in Seq(S)
    BY SetSeqs
  <1>4. Len(f) = Cardinality(S)
    <2>1. DOMAIN f = 1 .. Len(f) /\ Len(f) \in Nat
      BY <1>3
    <2>2. 1 .. Len(f) = 1 .. Cardinality(S)
      BY <1>2, <2>1
    <2> QED
      BY <1>1, <2>1, <2>2
  <1>5. ASSUME NEW x \in S, \A i \in D : f[i] # x PROVE FALSE
    <2>1. f \in [D -> S \ {x}]
      BY <1>2, <1>5
    <2>2. IsFiniteSet(S \ {x}) /\ Cardinality(S \ {x}) = Cardinality(S) - 1
      BY FS_RemoveElement
    <2>3. IsFiniteSet(D) /\ Cardinality(D) = Cardinality(S)
      BY <1>1, FS_Interval
    <2>4. Cardinality(S \ {x}) < Cardinality(D)
      BY <1>1, <2>2, <2>3
    <2> HIDE DEF D
    <2>5. \E i, j \in D : i # j /\ f[i] = f[j]
      BY <2>1, <2>2, <2>3, <2>4, FS_PigeonHole
    <2> QED
      BY <1>2, <2>5
  <1> QED
    BY <1>1, <1>2, <1>4, <1>5

\* The list of a direction is made of the vaults that the plan moves that way.
LEMMA DueMoved ==
    ASSUME Types, PlanInv, Planned, NEW q \in Peers
    PROVE  /\ \A i \in 1 .. Len(Due(q)) :
                 Due(q)[i] \in Names /\ InitPlan.auto[Due(q)[i]] = Way(q)
           /\ \A n \in Names : InitPlan.auto[n] = Way(q) =>
                 \E i \in 1 .. Len(Due(q)) : Due(q)[i] = n
  <1> DEFINE S == {n \in Names : InitPlan.auto[n] = Way(q)}
  <1>1. order \in Lists(InitPlan) /\ Way(q) \in {"push", "pull"}
    BY DEF PlanInv, Way
  <1>2. Due(q) \in SetToSeqs(S)
    BY <1>1 DEF Lists, Due
  <1>3. IsFiniteSet(S)
    BY StartsAssumption, FS_Subset
  <1> HIDE DEF S
  <1>4. /\ \A i \in 1 .. Len(Due(q)) : Due(q)[i] \in S
        /\ \A n \in S : \E i \in 1 .. Len(Due(q)) : Due(q)[i] = n
    BY <1>2, <1>3, SetSeqsAll
  <1> QED
    BY <1>4 DEF S

\* The vault a loop is at.
LEMMA HeadMoved ==
    ASSUME Types, PlanInv, ListInv, NEW p \in Peers, InLoop(p), todo[p] # <<>>
    PROVE  /\ Planned /\ Head(todo[p]) \in Names
           /\ InitPlan.auto[Head(todo[p])] = Way(IF pc[p] = "send" THEN Other(p) ELSE p)
  <1> DEFINE r == IF pc[p] = "send" THEN Other(p) ELSE p
             k == Passed(p, Due(r))
  <1>1. r \in Peers /\ Loop(p) = Due(r)
    BY DEF Other, Peers, Loop
  <1>2. k \in Nat /\ k < Len(Due(r)) /\ Head(todo[p]) = Due(r)[k + 1]
    BY <1>1, LoopStep
  <1>3. Planned
    BY DEF InLoop, Receiving, Planned, Accepted, PlanInv, Peers
  <1>4. Due(r) \in Seq(Names)
    BY <1>1, DueType
  <1>5. k + 1 \in 1 .. Len(Due(r))
    BY <1>2, <1>4
  <1> HIDE DEF r, k
  <1> QED
    <2>1. Head(todo[p]) \in Names /\ InitPlan.auto[Head(todo[p])] = Way(r)
      BY <1>1, <1>2, <1>3, <1>5, DueMoved
    <2> QED
      BY <1>3, <2>1 DEF r

\* The vault a peer is sending is as it was when the session began.
LEMMA SentVault ==
    ASSUME Types, PlanInv, ListInv, DirInv, NEW p \in Peers, pc[p] = "send",
           todo[p] # <<>>, disk[p][Head(todo[p])] # NoVault
    PROVE  disk[p][Head(todo[p])] = Copy(Other(p), Head(todo[p]))
  <1>1. /\ Planned /\ Head(todo[p]) \in Names
        /\ InitPlan.auto[Head(todo[p])] = Way(Other(p))
    BY HeadMoved DEF InLoop
  <1>2. ~Came(p, Head(todo[p]))
    BY <1>1 DEF Came, Way, Other, Peers
  <1>3. Other(Other(p)) = p
    BY DEF Other, Peers
  <1> QED
    BY <1>1, <1>2, <1>3 DEF DirInv, Copy

\* What an action does to the two streams.
LEMMA SentChan ==
    ASSUME Types, NEW p \in Peers, NEW ms, chan' = Sent(chan, p, ms)
    PROVE  chan'[Other(p)] = chan[Other(p)] \o ms /\ chan'[p] = chan[p]
  <1>1. Other(p) \in Peers /\ Other(p) # p
    BY DEF Other, Peers
  <1> QED
    BY <1>1 DEF Sent, Types, ChanTypes

LEMMA ConsumeChan ==
    ASSUME Types, NEW p \in Peers, chan' = Consume(p)
    PROVE  chan'[p] = Tail(chan[p]) /\ chan'[Other(p)] = chan[Other(p)]
  <1>1. Other(p) \in Peers /\ Other(p) # p
    BY DEF Other, Peers
  <1> QED
    BY <1>1 DEF Consume, Types, ChanTypes

LEMMA DropChan ==
    ASSUME Types, NEW p \in Peers, chan' = Drop(p)
    PROVE  chan'[p] = <<>> /\ chan'[Other(p)] = chan[Other(p)]
  <1>1. Other(p) \in Peers /\ Other(p) # p
    BY DEF Other, Peers
  <1> QED
    BY <1>1 DEF Drop, Types, ChanTypes

LEMMA AnswerChan ==
    ASSUME Types, NEW p \in Peers, NEW ms, chan' = Sent(Consume(p), p, ms)
    PROVE  /\ chan'[p] = Tail(chan[p])
           /\ chan'[Other(p)] = chan[Other(p)] \o ms
  <1>1. Other(p) \in Peers /\ Other(p) # p
    BY DEF Other, Peers
  <1>2. /\ Consume(p) \in [Peers -> Seq(Messages) \cup {Tail(chan[p])}]
        /\ Consume(p)[p] = Tail(chan[p]) /\ Consume(p)[Other(p)] = chan[Other(p)]
    BY <1>1 DEF Consume, Types, ChanTypes
  <1> QED
    BY <1>1, <1>2 DEF Sent

\* The moves of one peer: where it goes, with the other peer where it is.
LEMMA GoneTo ==
    ASSUME Types, NEW p \in Peers, NEW l, Goto(p, l)
    PROVE  pc'[p] = l /\ pc'[Other(p)] = pc[Other(p)]
  <1>1. Other(p) \in Peers /\ Other(p) # p
    BY DEF Other, Peers
  <1> QED
    BY <1>1 DEF Goto, Types, PcTypes

LEMMA TodoSet ==
    ASSUME Types, NEW p \in Peers, NEW t, todo' = [todo EXCEPT ![p] = t]
    PROVE  todo'[p] = t /\ todo'[Other(p)] = todo[Other(p)]
  <1>1. Other(p) \in Peers /\ Other(p) # p
    BY DEF Other, Peers
  <1> QED
    BY <1>1 DEF Types, TodoTypes

LEMMA StagedSet ==
    ASSUME Types, NEW p \in Peers, NEW t, staged' = [staged EXCEPT ![p] = t]
    PROVE  staged'[p] = t /\ staged'[Other(p)] = staged[Other(p)]
  <1>1. Other(p) \in Peers /\ Other(p) # p
    BY DEF Other, Peers
  <1> QED
    BY <1>1 DEF Types, DiskTypes

\* The peer q is the one that acts, or the other one.
LEMMA TwoPeers ==
    ASSUME NEW p \in Peers, NEW q \in Peers
    PROVE  q = p \/ (q = Other(p) /\ p = Other(q))
  BY DEF Peers, Other

\* A peer gives up: the other one can read what is left.
LEMMA AlignedFail ==
    ASSUME Types, NEW p \in Peers, Fail(p), NEW q \in Peers, Aligned(q)
    PROVE  Aligned(q)'
  <1>1. pc'[p] = "failed" /\ pc'[Other(p)] = pc[Other(p)]
    BY GoneTo DEF Fail
  <1>2. CASE q = p
    BY <1>1, <1>2 DEF Aligned
  <1>3. CASE q = Other(p) /\ p = Other(q)
    <2>1. Severed(q)' /\ ReadUpTo(q)' = ReadUpTo(q)
      BY <1>1, <1>3, ReadUpToStays DEF Fail, Severed
    <2> QED
      BY <1>1, <1>3, <2>1, AlignedKept DEF Fail
  <1> QED
    BY <1>2, <1>3, TwoPeers

\* The catalogues and the plan.
LEMMA AlignedOpen ==
    ASSUME Types, StreamStates, Open, NEW q \in Peers, Aligned(q)
    PROVE  Aligned(q)'
  <1> DEFINE m == [action |-> "catalogue", body |-> cat["init"]]
  <1>1. /\ pc["init"] = "start" /\ pc'["init"] = "catalogue" /\ pc'["resp"] = pc["resp"]
        /\ stream = "none" /\ stream' = "open" /\ order' = order /\ todo' = todo
        /\ staged' = staged
    BY GoneTo DEF Open, StreamStates, Peers, Other
  <1>2. chan'["resp"] = chan["resp"] \o <<m>> /\ chan'["init"] = chan["init"]
    BY SentChan DEF Open, Peers, Other
  <1> HIDE DEF m
  <1>3. CASE q = "init"
    <2>1. ReadUpTo(q)' = ReadUpTo(q) /\ WrittenUpTo(q)' = WrittenUpTo(q)
      BY <1>1, <1>3, WrittenUpToStays DEF ReadUpTo, Other
    <2>2. Severed(q)' \/ ~Severed(q)
      BY <1>1, <1>3 DEF Severed, Other
    <2> QED
      BY <1>1, <1>2, <1>3, <2>1, <2>2, AlignedKept
  <1>4. CASE q = "resp"
    <2>1. ReadUpTo(q)' = ReadUpTo(q)
      BY <1>1, <1>4, ReadUpToStays
    <2>2. WrittenUpTo(q) = <<0, "hello">> /\ WrittenUpTo(q)' = <<0, "plan">> /\ ~Severed(q)
      BY <1>1, <1>4 DEF WrittenUpTo, Severed, Other
    <2>3. Moves(Due(q), q, <<0, "hello">>, m, <<0, "plan">>)
      BY <1>4 DEF Moves, m
    <2>4. <<0, "plan">> \in Places
      BY DEF Places, Phases
    <2> QED
      BY <1>1, <1>2, <1>4, <2>1, <2>2, <2>3, <2>4, AlignedWritten
  <1> QED
    BY <1>3, <1>4 DEF Peers

LEMMA AlignedAccept ==
    ASSUME Types, Accept, NEW q \in Peers, Aligned(q) PROVE Aligned(q)'
  <1>1. /\ pc["resp"] = "start" /\ pc'["resp"] = "catalogue" /\ pc'["init"] = pc["init"]
        /\ stream' = stream /\ order' = order /\ todo' = todo /\ staged' = staged
        /\ chan' = chan
    BY GoneTo DEF Accept, Peers, Other
  <1>2. ReadUpTo(q)' = ReadUpTo(q)
    BY <1>1 DEF ReadUpTo, Peers, Passed, Due
  <1>3. WrittenUpTo(q)' = WrittenUpTo(q)
    BY <1>1 DEF WrittenUpTo, Peers, Other, Passed, Due
  <1>4. Severed(q)' \/ ~Severed(q)
    BY <1>1 DEF Severed, Peers, Other
  <1>5. pc'[q] \notin {"done", "failed"} => pc[q] \notin {"done", "failed"}
    BY <1>1 DEF Peers
  <1> QED
    BY <1>1, <1>2, <1>3, <1>4, <1>5, AlignedKept

LEMMA AlignedAnswer ==
    ASSUME Types, AnswerCatalogue, NEW q \in Peers, Aligned(q) PROVE Aligned(q)'
  <1> DEFINE m == [action |-> "catalogue", body |-> cat["resp"]]
  <1>1. /\ pc["resp"] = "catalogue" /\ pc'["resp"] = "plan" /\ pc'["init"] = pc["init"]
        /\ stream = "open" /\ stream' = stream /\ order' = order /\ todo' = todo
        /\ staged' = staged /\ CanRead("resp")
    BY GoneTo DEF AnswerCatalogue, CanWrite, Peers, Other
  <1>2. chan'["init"] = chan["init"] \o <<m>> /\ chan'["resp"] = Tail(chan["resp"])
    BY AnswerChan DEF AnswerCatalogue, Peers, Other
  <1> HIDE DEF m
  <1>3. CASE q = "init"
    <2>1. ReadUpTo(q)' = ReadUpTo(q)
      BY <1>1, <1>3, ReadUpToStays
    <2>2. WrittenUpTo(q) = <<0, "hello">> /\ WrittenUpTo(q)' = <<0, "next">> /\ ~Severed(q)
      BY <1>1, <1>3 DEF WrittenUpTo, Severed, Other
    <2>3. Moves(Due(q), q, <<0, "hello">>, m, <<0, "next">>)
      BY <1>3 DEF Moves, m
    <2>4. <<0, "next">> \in Places
      BY DEF Places, Phases
    <2> QED
      BY <1>1, <1>2, <1>3, <2>1, <2>2, <2>3, <2>4, AlignedWritten
  <1>4. CASE q = "resp"
    <2>1. ReadUpTo(q) = <<0, "hello">> /\ ReadUpTo(q)' = <<0, "plan">>
      BY <1>1, <1>4 DEF ReadUpTo
    <2>2. \A b \in Places : Moves(Due(q), q, <<0, "hello">>, Incoming(q), b) =>
             b = <<0, "plan">>
      BY <1>4, MoveFrom
    <2>3. Other(q) = "init"
      BY <1>4 DEF Other
    <2> QED
      BY <1>1, <1>2, <1>4, <2>1, <2>2, <2>3, AlignedRead
  <1> QED
    BY <1>3, <1>4 DEF Peers

LEMMA AlignedAcceptPlan ==
    ASSUME Types, ChanInv, AcceptPlan, NEW q \in Peers, Aligned(q) PROVE Aligned(q)'
  <1>1. /\ pc["resp"] = "plan" /\ pc'["resp"] = "receive" /\ pc'["init"] = pc["init"]
        /\ stream' = stream /\ order' = order /\ CanRead("resp") /\ staged' = staged
    BY GoneTo DEF AcceptPlan, FollowPlan, Peers, Other
  <1>2. chan'["resp"] = Tail(chan["resp"]) /\ chan'["init"] = chan["init"]
    BY ConsumeChan DEF AcceptPlan, FollowPlan, Peers, Other
  <1>3. Incoming("resp").order = order
    BY ReadsInv DEF AcceptPlan, FollowPlan, Types, To, Peers
  <1>4. todo'["resp"] = order["push"] /\ todo'["init"] = todo["init"]
    BY <1>3, TodoSet DEF AcceptPlan, Peers, Other
  <1>5. CASE q = "init"
    <2>1. ReadUpTo(q)' = ReadUpTo(q)
      BY <1>1, <1>4, <1>5, ReadUpToStays
    <2>2. WrittenUpTo(q)' = WrittenUpTo(q)
      BY <1>1, <1>5 DEF WrittenUpTo, Other
    <2>3. Severed(q)' \/ ~Severed(q)
      BY <1>1, <1>5 DEF Severed, Other
    <2> QED
      BY <1>1, <1>2, <1>5, <2>1, <2>2, <2>3, AlignedKept
  <1>6. CASE q = "resp"
    <2>1. order["push"] \in Seq(Names)
      BY PairsSeq DEF Types, PlanTypes
    <2>2. Passed(q, Due(q))' = 0
      BY <1>1, <1>4, <1>6, <2>1 DEF Passed, Due, Way
    <2>3. ReadUpTo(q) = <<0, "plan">> /\ ReadUpTo(q)' = <<0, "next">>
      BY <1>1, <1>6, <2>2 DEF ReadUpTo
    <2>4. \A b \in Places : Moves(Due(q), q, <<0, "plan">>, Incoming(q), b) =>
             b = <<0, "next">>
      BY <1>6, MoveFrom
    <2>5. Other(q) = "init"
      BY <1>6 DEF Other
    <2> QED
      BY <1>1, <1>2, <1>4, <1>6, <2>3, <2>4, <2>5, AlignedRead
  <1> QED
    BY <1>5, <1>6 DEF Peers

\* The plan fixes the lists; nothing but catalogues was written before.
LEMMA AlignedSendPlan ==
    ASSUME Types, ChanInv, PlanInv, SendPlan, NEW q \in Peers, Aligned(q)
    PROVE  Aligned(q)'
  <1>1. PICK o \in Lists(Negotiate(mine["init"], Incoming("init").body, strict["init"])) :
           /\ plan' = [plan EXCEPT !["init"] =
                         Negotiate(mine["init"], Incoming("init").body, strict["init"])]
           /\ order' = o /\ todo' = [todo EXCEPT !["init"] = o["push"]]
           /\ chan' = Sent(Consume("init"), "init",
                 <<[action |-> "sync_plan",
                    body |-> Negotiate(mine["init"], Incoming("init").body, strict["init"]),
                    order |-> o]>>)
    BY DEF SendPlan
  <1> DEFINE m == [action |-> "sync_plan",
                   body |-> Negotiate(mine["init"], Incoming("init").body, strict["init"]),
                   order |-> o]
  <1>2. /\ pc["init"] = "catalogue" /\ pc'["init"] = "send" /\ pc'["resp"] = pc["resp"]
        /\ stream = "open" /\ stream' = stream /\ CanRead("init") /\ staged' = staged
    BY GoneTo DEF SendPlan, CanWrite, Peers, Other
  <1>3. todo'["init"] = o["push"] /\ todo'["resp"] = todo["resp"]
    BY <1>1, TodoSet DEF Peers, Other
  <1>4. chan'["init"] = Tail(chan["init"]) /\ chan'["resp"] = chan["resp"] \o <<m>>
    BY <1>1, AnswerChan DEF Peers, Other
  <1>5. m.action = "sync_plan"
    OBVIOUS
  <1> HIDE DEF m
  <1>6. ~Planned /\ ~Accepted
    BY <1>2 DEF PlanInv, Planned
  <1>7. pc["resp"] \in {"start", "catalogue", "plan", "failed"}
    BY <1>6 DEF Accepted, Types, PcTypes, RespAts
  <1>8. chan[q] \in Seq(To(q)) /\ \A x \in To(q) : x.action = "catalogue"
    BY <1>6 DEF ChanInv, To
  <1> SUFFICES ASSUME pc'[q] \notin {"done", "failed"}
               PROVE  \E z \in Places : /\ Leads(Due(q), q, chan[q], ReadUpTo(q), z)'
                                        /\ Severed(q)' \/ z = WrittenUpTo(q)'
    BY DEF Aligned
  <1>9. pc[q] \notin {"done", "failed"}
    BY <1>2, <1>7 DEF Peers
  <1>10. PICK z \in Places : /\ Leads(Due(q), q, chan[q], ReadUpTo(q), z)
                             /\ Severed(q) \/ z = WrittenUpTo(q)
    BY <1>9 DEF Aligned
  <1>11. Leads(Due(q)', q, chan[q], ReadUpTo(q), z)
    BY <1>8, <1>10, LeadsAnyList
  <1>12. CASE q = "init"
    <2>1. ReadUpTo(q) = <<0, "hello">> /\ ReadUpTo(q)' = <<0, "next">>
      BY <1>2, <1>12 DEF ReadUpTo
    <2>2. WrittenUpTo(q)' = WrittenUpTo(q) \/ Severed(q)'
      BY <1>2, <1>7, <1>12 DEF WrittenUpTo, Severed, Other
    <2>3. Severed(q) => Severed(q)'
      BY <1>2, <1>12 DEF Severed, Other
    <2>4. chan[q] # <<>> /\ Incoming(q) = Head(chan[q])
      BY <1>2, <1>12 DEF CanRead, Incoming
    <2>5. PICK b \in Places : /\ Moves(Due(q)', q, <<0, "hello">>, Head(chan[q]), b)
                              /\ Leads(Due(q)', q, Tail(chan[q]), b, z)
      BY <1>8, <1>11, <2>1, <2>4, LeadsOn
    <2>6. b = <<0, "next">>
      BY <1>12, <2>5, MoveFrom
    <2>7. Leads(Due(q)', q, chan'[q], ReadUpTo(q)', z)
      BY <1>4, <1>12, <2>1, <2>5, <2>6
    <2>8. Leads(Due(q), q, chan[q], ReadUpTo(q), z)'
      BY <2>7 DEF Leads, Moves
    <2> QED
      BY <1>10, <2>2, <2>3, <2>8
  <1>13. CASE q = "resp"
    <2>1. ReadUpTo(q)' = ReadUpTo(q)
      BY <1>2, <1>7, <1>9, <1>13 DEF ReadUpTo
    <2>2. z = <<0, "plan">>
      BY <1>2, <1>10, <1>13 DEF WrittenUpTo, Severed, Other
    <2>3. o["push"] \in Seq(Names)
      BY ListsMoved, PairsSeq
    <2>4. Passed("init", Due(q))' = 0
      BY <1>1, <1>3, <1>13, <2>3 DEF Passed, Due, Way
    <2>5. WrittenUpTo(q)' = <<0, "next">>
      BY <1>2, <1>13, <2>4 DEF WrittenUpTo, Other
    <2>6. Moves(Due(q)', q, <<0, "plan">>, m, <<0, "next">>) /\ <<0, "next">> \in Places
      BY <1>5 DEF Moves, Places, Phases
    <2>7. Leads(Due(q)', q, chan[q] \o <<m>>, ReadUpTo(q), <<0, "next">>)
      BY <1>8, <1>11, <2>2, <2>6, LeadsFurther
    <2>8. Leads(Due(q)', q, chan'[q], ReadUpTo(q)', <<0, "next">>)
      BY <1>4, <1>13, <2>1, <2>7
    <2>9. Leads(Due(q), q, chan[q], ReadUpTo(q), <<0, "next">>)'
      BY <2>8 DEF Leads, Moves
    <2> QED
      BY <2>5, <2>6, <2>9
  <1> QED
    BY <1>12, <1>13 DEF Peers

\* A vault is written as a whole, with the files of the sender.
LEMMA AlignedSendVault ==
    ASSUME Types, StreamStates, PlanInv, ListInv, DirInv, NEW p \in Peers, SendVault(p),
           unmatched' = {}, NEW q \in Peers, Aligned(q)
    PROVE  Aligned(q)'
  <1> DEFINE n == Head(todo[p])
  <1>1. /\ pc[p] = "send" /\ todo[p] # <<>> /\ pc' = pc /\ stream' = stream
        /\ order' = order /\ staged' = staged
    BY DEF SendVault
  <1>2. todo'[p] = Tail(todo[p]) /\ todo'[Other(p)] = todo[Other(p)]
    BY TodoSet DEF SendVault
  <1>3. \/ ~CanWrite /\ chan' = chan
        \/ /\ CanWrite /\ disk[p][n] # NoVault
           /\ chan' = Sent(chan, p, Whole(n, disk[p][n]))
    <2>1. unmatched' # unmatched \cup {n}
      OBVIOUS
    <2> HIDE DEF n
    <2> QED
      BY <2>1 DEF SendVault, n
  <1>4. chan'[p] = chan[p]
    BY <1>3, SentChan
  <1>5. PICK k \in Nat : /\ k = Passed(p, Due(Other(p))) /\ k < Len(Due(Other(p)))
                         /\ n = Due(Other(p))[k + 1]
                         /\ Passed(p, Due(Other(p)))' = k + 1
    <2>1. Loop(p) = Due(Other(p)) /\ InLoop(p) /\ Due(Other(p))' = Due(Other(p))
      BY <1>1 DEF Loop, InLoop, Due
    <2> QED
      BY <1>1, <1>2, <2>1, LoopStep DEF Passed
  <1>6. CASE q = p
    <2>1. ReadUpTo(q)' = ReadUpTo(q) /\ WrittenUpTo(q)' = WrittenUpTo(q)
      BY <1>1, <1>2, <1>6, WrittenUpToStays DEF ReadUpTo, Passed, Due
    <2> QED
      BY <1>1, <1>4, <1>6, <2>1, AlignedKept DEF Severed
  <1>7. CASE q = Other(p) /\ p = Other(q)
    <2>1. ReadUpTo(q)' = ReadUpTo(q)
      BY <1>1, <1>2, <1>7, ReadUpToStays
    <2>2. CASE ~CanWrite /\ chan' = chan
      <3>1. Severed(q)'
        BY <1>1, <2>2 DEF CanWrite, Severed, StreamStates, Types, RestTypes, Peers
      <3> QED
        BY <1>1, <2>1, <2>2, <3>1, AlignedKept
    <2>3. CASE CanWrite /\ disk[p][n] # NoVault /\ chan' = Sent(chan, p, Whole(n, disk[p][n]))
      <3> SUFFICES ASSUME pc'[q] \notin {"done", "failed"}
                   PROVE  \E z \in Places : /\ Leads(Due(q), q, chan[q], ReadUpTo(q), z)'
                                            /\ Severed(q)' \/ z = WrittenUpTo(q)'
        BY DEF Aligned
      <3>1. disk[p][n] = Copy(q, n)
        BY <1>1, <1>7, <2>3, SentVault
      <3>2. /\ WrittenUpTo(q) = <<k, "next">> /\ WrittenUpTo(q)' = <<k + 1, "next">>
        <4>1. q # p
          BY <1>7 DEF Other, Peers
        <4>2. WrittenUpTo(q) = <<Passed(p, Due(q)), "next">>
          BY <1>1, <1>7 DEF WrittenUpTo
        <4>3. WrittenUpTo(q)' = <<Passed(p, Due(q))', "next">>
          BY <1>1, <1>7 DEF WrittenUpTo
        <4> QED
          BY <1>5, <1>7, <4>2, <4>3
      <3>3. Leads(Due(q), q, chan[q], ReadUpTo(q), <<k, "next">>)
        <4>1. ~Severed(q) /\ pc[q] \notin {"done", "failed"}
          BY <1>1, <1>7, <2>3 DEF Severed, CanWrite
        <4> QED
          BY <3>2, <4>1 DEF Aligned
      <3> DEFINE B == Begin(n)
                 F == File(n, disk[p][n])
                 E == End(n)
      <3>4. chan'[q] = chan[q] \o <<B>> \o <<F>> \o <<E>>
        <4>1. disk[p][n] # {}
          BY <3>1 DEF Copy
        <4>2. Whole(n, disk[p][n]) = <<B>> \o <<F>> \o <<E>>
          BY <4>1 DEF Whole
        <4>3. chan'[q] = chan[q] \o Whole(n, disk[p][n])
          BY <1>7, <2>3, SentChan
        <4>4. chan[q] \in Seq(Messages)
          BY DEF Types, ChanTypes
        <4>5. <<B>> \in Seq({B, F, E}) /\ <<F>> \in Seq({B, F, E}) /\ <<E>> \in Seq({B, F, E})
          OBVIOUS
        <4> HIDE DEF B, F, E
        <4>6. chan[q] \o (<<B>> \o <<F>> \o <<E>>) = chan[q] \o <<B>> \o <<F>> \o <<E>>
          BY <4>4, <4>5
        <4> QED
          BY <4>2, <4>3, <4>6
      <3>5. /\ Moves(Due(q), q, <<k, "next">>, B, <<k + 1, "begun">>)
            /\ Moves(Due(q), q, <<k + 1, "begun">>, F, <<k + 1, "filed">>)
            /\ Moves(Due(q), q, <<k + 1, "filed">>, E, <<k + 1, "next">>)
        <4>1. B.action = "transfer_begin" /\ E.action = "transfer_end"
              /\ F.action = "transfer_file" /\ F.files = Copy(q, n)
          BY <3>1 DEF Begin, File, End
        <4>2. Due(q) \in Seq(Names) /\ k + 1 \in 1 .. Len(Due(q))
          BY <1>5, <1>7, DueType
        <4> HIDE DEF n, B, F, E
        <4> QED
          BY <1>5, <1>7, <4>1, <4>2 DEF Moves, Copy
      <3>6. /\ <<k + 1, "begun">> \in Places /\ <<k + 1, "filed">> \in Places
            /\ <<k + 1, "next">> \in Places
        BY <1>5 DEF Places, Phases
      <3>7. chan[q] \in Seq(Messages \cup {B, F, E})
        BY SeqMono DEF Types, ChanTypes
      <3> HIDE DEF n, B, F, E
      <3>8. Leads(Due(q), q, chan[q] \o <<B>>, ReadUpTo(q), <<k + 1, "begun">>)
        BY <3>3, <3>5, <3>6, <3>7, LeadsFurther
      <3>9. chan[q] \o <<B>> \in Seq(Messages \cup {B, F, E})
        BY <3>7
      <3>10. Leads(Due(q), q, chan[q] \o <<B>> \o <<F>>, ReadUpTo(q), <<k + 1, "filed">>)
        BY <3>8, <3>5, <3>6, <3>9, LeadsFurther
      <3>11. chan[q] \o <<B>> \o <<F>> \in Seq(Messages \cup {B, F, E})
        BY <3>9
      <3>12. Leads(Due(q), q, chan'[q], ReadUpTo(q), <<k + 1, "next">>)
        BY <3>4, <3>10, <3>5, <3>6, <3>11, LeadsFurther
      <3>13. Due(q)' = Due(q)
        BY <1>1 DEF Due
      <3>14. Leads(Due(q)', q, chan'[q], ReadUpTo(q)', <<k + 1, "next">>)
        BY <2>1, <3>12, <3>13
      <3>15. Leads(Due(q), q, chan[q], ReadUpTo(q), <<k + 1, "next">>)'
        BY <3>14 DEF Leads, Moves
      <3> QED
        BY <3>2, <3>6, <3>15
    <2> QED
      BY <1>3, <2>2, <2>3
  <1> QED
    BY <1>6, <1>7, TwoPeers

\* A peer that only reads and goes on in its loop has written as much as before.
LEMMA AlignedOther ==
    ASSUME Types, NEW p \in Peers, Receiving(p), pc'[p] \in {"receive", "files", "record"},
           pc'[Other(p)] = pc[Other(p)], todo'[Other(p)] = todo[Other(p)],
           staged'[Other(p)] = staged[Other(p)], chan'[Other(p)] = chan[Other(p)],
           order' = order, stream' = stream, Aligned(Other(p))
    PROVE  Aligned(Other(p))'
  <1> DEFINE q == Other(p)
  <1>1. q \in Peers /\ Other(q) = p
    BY DEF Other, Peers
  <1>2. ReadUpTo(q)' = ReadUpTo(q)
    BY <1>1, ReadUpToStays
  <1>3. p = "init" \/ p = "resp"
    BY DEF Peers
  <1>4. WrittenUpTo(q) = IF p = "resp" THEN <<0, "next">> ELSE <<Len(Due(q)), "next">>
    BY <1>1, <1>3 DEF WrittenUpTo, Receiving
  <1>5. WrittenUpTo(q)' = IF p = "resp" THEN <<0, "next">> ELSE <<Len(Due(q)'), "next">>
    BY <1>1, <1>3 DEF WrittenUpTo
  <1>6. Due(q)' = Due(q)
    BY DEF Due
  <1>7. Severed(q)' \/ ~Severed(q)
    BY <1>1 DEF Severed, Receiving
  <1> HIDE DEF q
  <1>8. Aligned(q)
    BY DEF q
  <1>9. chan'[q] = chan[q] /\ pc'[q] = pc[q]
    BY DEF q
  <1>10. WrittenUpTo(q)' = WrittenUpTo(q)
    BY <1>4, <1>5, <1>6
  <1>11. Aligned(q)'
    BY <1>1, <1>2, <1>7, <1>8, <1>9, <1>10, AlignedKept
  <1> QED
    BY <1>11 DEF q

LEMMA AlignedReceiveBegin ==
    ASSUME Types, ListInv, NEW p \in Peers, ReceiveBegin(p), unmatched' = {},
           \A q \in Peers : Aligned(q), NEW q \in Peers
    PROVE  Aligned(q)'
  <1>1. /\ pc[p] = "receive" /\ todo[p] # <<>> /\ stream' = stream /\ order' = order
        /\ Other(p) \in Peers
    BY DEF ReceiveBegin, Other, Peers
  <1>2. staged'[p] = {} /\ staged'[Other(p)] = staged[Other(p)]
    BY StagedSet DEF ReceiveBegin
  <1>3. /\ CanRead(p) => Incoming(p).action = "transfer_begin"
        /\ ReadFails(p) => Severed(p)
    BY <1>1, ReadingVault
  <1>4. unmatched' # unmatched \cup {Head(todo[p])}
    OBVIOUS
  <1>5. \/ CanRead(p) /\ chan' = Consume(p) /\ Goto(p, "files") /\ todo' = todo
        \/ /\ Severed(p) /\ chan' = Drop(p) /\ pc' = pc
           /\ todo' = [todo EXCEPT ![p] = Tail(todo[p])]
    BY <1>3, <1>4 DEF ReceiveBegin
  <1>6. /\ Passed(p, Due(p)) \in Nat /\ Passed(p, Due(p)) < Len(Due(p))
        /\ Len(Due(p)) - Len(Tail(todo[p])) = Passed(p, Due(p)) + 1
    <2>1. Loop(p) = Due(p) /\ InLoop(p)
      BY <1>1 DEF Loop, InLoop, Receiving
    <2> QED
      BY <1>1, <2>1, LoopStep
  <1>7. CASE CanRead(p) /\ chan' = Consume(p) /\ Goto(p, "files") /\ todo' = todo
    <2>1. /\ pc'[p] = "files" /\ pc'[Other(p)] = pc[Other(p)]
          /\ chan'[p] = Tail(chan[p]) /\ chan'[Other(p)] = chan[Other(p)]
      BY <1>7, GoneTo, ConsumeChan
    <2>2. Aligned(Other(p))'
      BY <1>1, <1>2, <1>7, <2>1, AlignedOther DEF Receiving
    <2>3. Aligned(p)'
      <3>1. /\ ReadUpTo(p) = <<Passed(p, Due(p)), "next">>
            /\ ReadUpTo(p)' = <<Passed(p, Due(p)) + 1, "begun">>
        BY <1>1, <1>2, <1>7, <2>1 DEF ReadUpTo, Passed, Due
      <3>2. \A b \in Places : Moves(Due(p), p, ReadUpTo(p), Incoming(p), b) =>
               ReadUpTo(p)' = b
        BY <1>6, <3>1, MoveFrom
      <3> QED
        BY <1>1, <1>7, <2>1, <3>2, AlignedRead
    <2> QED
      BY <2>2, <2>3, TwoPeers
  <1>8. CASE /\ Severed(p) /\ chan' = Drop(p) /\ pc' = pc
             /\ todo' = [todo EXCEPT ![p] = Tail(todo[p])]
    <2>1. /\ todo'[p] = Tail(todo[p]) /\ todo'[Other(p)] = todo[Other(p)]
          /\ chan'[p] = <<>> /\ chan'[Other(p)] = chan[Other(p)]
      BY <1>8, TodoSet, DropChan
    <2>2. Aligned(Other(p))'
      BY <1>1, <1>2, <1>8, <2>1, AlignedOther DEF Receiving
    <2>3. Aligned(p)'
      <3>1. ReadUpTo(p)' = <<Passed(p, Due(p)) + 1, "next">>
        BY <1>1, <1>6, <1>8, <2>1 DEF ReadUpTo, Passed, Due
      <3>2. ReadUpTo(p)' \in Places
        BY <1>6, <3>1 DEF Places, Phases
      <3>3. Severed(p)'
        BY <1>1, <1>8 DEF Severed
      <3> QED
        BY <2>1, <3>2, <3>3, AlignedDropped
    <2> QED
      BY <2>2, <2>3, TwoPeers
  <1> QED
    BY <1>5, <1>7, <1>8

LEMMA AlignedReceiveFile ==
    ASSUME Types, ListInv, NEW p \in Peers, ReceiveFile(p),
           \A q \in Peers : Aligned(q), NEW q \in Peers
    PROVE  Aligned(q)'
  <1>1. /\ pc[p] = "files" /\ pc' = pc /\ todo' = todo /\ stream' = stream
        /\ order' = order /\ Other(p) \in Peers /\ CanRead(p) /\ todo[p] # <<>>
        /\ Incoming(p).action = "transfer_file"
    BY DEF ReceiveFile, Other, Peers, Types, TodoTypes
  <1>2. /\ staged'[p] = staged[p] \cup Incoming(p).files
        /\ staged'[Other(p)] = staged[Other(p)]
    BY StagedSet DEF ReceiveFile
  <1>3. staged[p] = {} /\ Incoming(p).files = Copy(p, Head(todo[p]))
    BY <1>1, ReadingVault
  <1>4. chan'[p] = Tail(chan[p]) /\ chan'[Other(p)] = chan[Other(p)]
    BY ConsumeChan DEF ReceiveFile
  <1>5. Aligned(Other(p))'
    BY <1>1, <1>2, <1>4, AlignedOther DEF Receiving
  <1>6. Aligned(p)'
    <2>1. staged'[p] # {}
      BY <1>2, <1>3 DEF Copy
    <2>2. /\ ReadUpTo(p) = <<Passed(p, Due(p)) + 1, "begun">>
          /\ ReadUpTo(p)' = <<Passed(p, Due(p)) + 1, "filed">>
      BY <1>1, <1>3, <2>1 DEF ReadUpTo, Passed, Due
    <2>3. Passed(p, Due(p)) + 1 \in Nat
      <3>1. Loop(p) = Due(p) /\ InLoop(p)
        BY <1>1 DEF Loop, InLoop, Receiving
      <3> QED
        BY <3>1, LoopStep
    <2>4. \A b \in Places : Moves(Due(p), p, ReadUpTo(p), Incoming(p), b) =>
             ReadUpTo(p)' = b
      <3>1. \A b : Moves(Due(p), p, <<Passed(p, Due(p)) + 1, "begun">>, Incoming(p), b) =>
                      b = <<Passed(p, Due(p)) + 1, "filed">>
        BY <2>3, MoveFrom
      <3> QED
        BY <2>2, <3>1
    <2> QED
      BY <1>1, <1>4, <2>4, AlignedRead
  <1> QED
    BY <1>5, <1>6, TwoPeers

LEMMA AlignedReceiveEnd ==
    ASSUME Types, ListInv, NEW p \in Peers, ReceiveEnd(p),
           \A q \in Peers : Aligned(q), NEW q \in Peers
    PROVE  Aligned(q)' /\ staged[p] # {}
  <1>1. /\ pc[p] = "files" /\ todo' = todo /\ stream' = stream /\ staged' = staged
        /\ order' = order /\ Other(p) \in Peers /\ CanRead(p) /\ todo[p] # <<>>
        /\ Incoming(p).action = "transfer_end"
    BY DEF ReceiveEnd, Other, Peers, Types, TodoTypes
  <1>2. /\ chan'[p] = Tail(chan[p]) /\ chan'[Other(p)] = chan[Other(p)]
        /\ pc'[p] = "record" /\ pc'[Other(p)] = pc[Other(p)]
    BY ConsumeChan, GoneTo DEF ReceiveEnd
  <1>3. staged[p] # {}
    BY <1>1, ReadingVault
  <1>4. Aligned(Other(p))'
    BY <1>1, <1>2, AlignedOther DEF Receiving
  <1>5. Aligned(p)'
    <2>1. /\ ReadUpTo(p) = <<Passed(p, Due(p)) + 1, "filed">>
          /\ ReadUpTo(p)' = <<Passed(p, Due(p)) + 1, "next">>
      BY <1>1, <1>2, <1>3 DEF ReadUpTo, Passed, Due
    <2>2. Passed(p, Due(p)) + 1 \in Nat
      <3>1. Loop(p) = Due(p) /\ InLoop(p)
        BY <1>1 DEF Loop, InLoop, Receiving
      <3> QED
        BY <3>1, LoopStep
    <2>3. \A b \in Places : Moves(Due(p), p, ReadUpTo(p), Incoming(p), b) =>
             ReadUpTo(p)' = b
      <3>1. \A b : Moves(Due(p), p, <<Passed(p, Due(p)) + 1, "filed">>, Incoming(p), b) =>
                      b = <<Passed(p, Due(p)) + 1, "next">>
        BY <2>2, MoveFrom
      <3> QED
        BY <2>1, <3>1
    <2> QED
      BY <1>1, <1>2, <2>3, AlignedRead
  <1> QED
    BY <1>3, <1>4, <1>5, TwoPeers

LEMMA AlignedReceiveFails ==
    ASSUME Types, ListInv, NEW p \in Peers, ReceiveFails(p), unmatched' = {},
           \A q \in Peers : Aligned(q), NEW q \in Peers
    PROVE  Aligned(q)'
  <1>1. /\ pc[p] = "files" /\ todo[p] # <<>> /\ stream' = stream /\ order' = order
        /\ Other(p) \in Peers
    BY DEF ReceiveFails, Other, Peers, Types, TodoTypes
  <1>2. /\ pc'[p] = "receive" /\ pc'[Other(p)] = pc[Other(p)]
        /\ staged'[p] = {} /\ staged'[Other(p)] = staged[Other(p)]
        /\ todo'[p] = Tail(todo[p]) /\ todo'[Other(p)] = todo[Other(p)]
    BY GoneTo, StagedSet, TodoSet DEF ReceiveFails
  <1>3. /\ CanRead(p) => Incoming(p).action \in {"transfer_file", "transfer_end"}
        /\ CanRead(p) /\ Incoming(p).action = "transfer_end" => staged[p] # {}
        /\ ReadFails(p) => Severed(p)
    BY <1>1, ReadingVault
  <1>4. unmatched' # unmatched \cup {Head(todo[p])}
    OBVIOUS
  <1>5. \/ CanRead(p) /\ staged[p] # {} /\ chan' = Consume(p)
        \/ Severed(p) /\ chan' = Drop(p)
    BY <1>3, <1>4 DEF ReceiveFails
  <1>6. /\ Passed(p, Due(p)) \in Nat
        /\ Len(Due(p)) - Len(Tail(todo[p])) = Passed(p, Due(p)) + 1
    <2>1. Loop(p) = Due(p) /\ InLoop(p)
      BY <1>1 DEF Loop, InLoop, Receiving
    <2> QED
      BY <1>1, <2>1, LoopStep
  <1>7. ReadUpTo(p)' = <<Passed(p, Due(p)) + 1, "next">>
    BY <1>1, <1>2, <1>6 DEF ReadUpTo, Passed, Due
  <1>8. chan'[Other(p)] = chan[Other(p)]
    BY <1>5, ConsumeChan, DropChan
  <1>9. Aligned(Other(p))'
    BY <1>1, <1>2, <1>8, AlignedOther DEF Receiving
  <1>10. CASE CanRead(p) /\ staged[p] # {} /\ chan' = Consume(p)
    <2>1. ReadUpTo(p) = <<Passed(p, Due(p)) + 1, "filed">> /\ Passed(p, Due(p)) + 1 \in Nat
      BY <1>1, <1>6, <1>10 DEF ReadUpTo
    <2>2. \A b \in Places : Moves(Due(p), p, ReadUpTo(p), Incoming(p), b) =>
             ReadUpTo(p)' = b
      <3>1. \A b : Moves(Due(p), p, <<Passed(p, Due(p)) + 1, "filed">>, Incoming(p), b) =>
                      b = <<Passed(p, Due(p)) + 1, "next">>
        BY <2>1, MoveFrom
      <3> QED
        BY <1>7, <2>1, <3>1
    <2>3. chan'[p] = Tail(chan[p])
      BY <1>10, ConsumeChan
    <2>4. Aligned(p)'
      BY <1>1, <1>2, <1>10, <2>2, <2>3, AlignedRead
    <2> QED
      BY <1>9, <2>4, TwoPeers
  <1>11. CASE Severed(p) /\ chan' = Drop(p)
    <2>1. ReadUpTo(p)' \in Places
      BY <1>6, <1>7 DEF Places, Phases
    <2>2. Severed(p)'
      BY <1>1, <1>2, <1>11 DEF Severed
    <2>3. chan'[p] = <<>>
      BY <1>11, DropChan
    <2>4. Aligned(p)'
      BY <2>1, <2>2, <2>3, AlignedDropped
    <2> QED
      BY <1>9, <2>4, TwoPeers
  <1> QED
    BY <1>5, <1>10, <1>11

LEMMA AlignedRecord ==
    ASSUME Types, ListInv, NEW p \in Peers, Record(p),
           \A q \in Peers : Aligned(q), NEW q \in Peers
    PROVE  Aligned(q)'
  <1>1. /\ pc[p] = "record" /\ todo[p] # <<>> /\ stream' = stream /\ order' = order
        /\ Other(p) \in Peers /\ chan' = chan /\ staged' = staged
    BY DEF Record, Other, Peers, Types, TodoTypes
  <1>2. /\ pc'[p] = "receive" /\ pc'[Other(p)] = pc[Other(p)]
        /\ todo'[p] = Tail(todo[p]) /\ todo'[Other(p)] = todo[Other(p)]
    BY GoneTo, TodoSet DEF Record
  <1>3. Aligned(Other(p))'
    BY <1>1, <1>2, AlignedOther DEF Receiving
  <1>4. Aligned(p)'
    <2>1. Len(Due(p)) - Len(Tail(todo[p])) = Passed(p, Due(p)) + 1
      <3>1. Loop(p) = Due(p) /\ InLoop(p)
        BY <1>1 DEF Loop, InLoop, Receiving
      <3> QED
        BY <1>1, <3>1, LoopStep
    <2>2. ReadUpTo(p)' = ReadUpTo(p)
      BY <1>1, <1>2, <2>1 DEF ReadUpTo, Passed, Due
    <2>3. WrittenUpTo(p)' = WrittenUpTo(p)
      BY <1>1, <1>2, WrittenUpToStays
    <2>4. Severed(p)' \/ ~Severed(p)
      BY <1>1, <1>2 DEF Severed
    <2> QED
      BY <1>1, <1>2, <2>2, <2>3, <2>4, AlignedKept
  <1> QED
    BY <1>3, <1>4, TwoPeers

\* A loop that is over has reached the end of its list; the next begins at the
\* start of the other one.
LEMMA AlignedSendDone ==
    ASSUME Types, ListInv, NEW p \in Peers, SendDone(p), NEW q \in Peers, Aligned(q)
    PROVE  Aligned(q)'
  <1>1. /\ pc[p] = "send" /\ todo[p] = <<>> /\ stream' = stream /\ order' = order
        /\ chan' = chan /\ staged' = staged /\ Other(p) \in Peers /\ Other(p) # p
        /\ todo'[Other(p)] = todo[Other(p)] /\ pc'[Other(p)] = pc[Other(p)]
        /\ p = "init" => pc'[p] = "receive" /\ todo'[p] = order["pull"]
        /\ p = "resp" => pc'[p] = "complete"
    <2>1. Other(p) \in Peers /\ Other(p) # p
      BY DEF Other, Peers
    <2>2. CASE p = "init"
      BY <2>1, <2>2, GoneTo, TodoSet DEF SendDone
    <2>3. CASE p = "resp"
      BY <2>1, <2>3, GoneTo DEF SendDone
    <2> QED
      BY <2>2, <2>3 DEF Peers
  <1>2. Passed(p, Due(Other(p))) = Len(Due(Other(p)))
    <2>1. Loop(p) = Due(Other(p)) /\ InLoop(p)
      BY <1>1 DEF Loop, InLoop
    <2> QED
      BY <1>1, <2>1, LoopStep
  <1>3. Severed(q)' \/ ~Severed(q)
    BY <1>1, TwoPeers DEF Severed, Peers
  <1>4. CASE q = p
    <2>1. ReadUpTo(q)' = ReadUpTo(q)
      <3>1. CASE p = "init"
        <4>1. order["pull"] \in Seq(Names)
          BY PairsSeq DEF Types, PlanTypes
        <4>2. Passed(q, Due(q))' = 0
          BY <1>1, <1>4, <3>1, <4>1 DEF Passed, Due, Way
        <4> QED
          BY <1>1, <1>4, <3>1, <4>2 DEF ReadUpTo
      <3>2. CASE p = "resp"
        BY <1>1, <1>4, <3>2 DEF ReadUpTo, Due
      <3> QED
        BY <3>1, <3>2 DEF Peers
    <2>2. WrittenUpTo(q)' = WrittenUpTo(q)
      BY <1>1, <1>4, WrittenUpToStays
    <2> QED
      BY <1>1, <1>3, <1>4, <2>1, <2>2, AlignedKept
  <1>5. CASE q = Other(p) /\ p = Other(q)
    <2>1. ReadUpTo(q)' = ReadUpTo(q)
      BY <1>1, <1>5, ReadUpToStays
    <2>2. WrittenUpTo(q)' = WrittenUpTo(q)
      <3>1. WrittenUpTo(q) = <<Len(Due(q)), "next">>
        BY <1>1, <1>2, <1>5 DEF WrittenUpTo
      <3>2. WrittenUpTo(q)' = <<Len(Due(q)), "next">>
        BY <1>1, <1>5 DEF WrittenUpTo, Due, Peers
      <3> QED
        BY <3>1, <3>2
    <2> QED
      BY <1>1, <1>3, <1>5, <2>1, <2>2, AlignedKept
  <1> QED
    BY <1>4, <1>5, TwoPeers

LEMMA AlignedComplete ==
    ASSUME Types, StreamStates, ListInv, Complete, NEW q \in Peers, Aligned(q)
    PROVE  Aligned(q)'
  <1> DEFINE m == [action |-> "sync_complete"]
  <1>1. /\ pc["init"] = "receive" /\ pc'["init"] = "done" /\ pc'["resp"] = pc["resp"]
        /\ stream' = stream /\ order' = order /\ todo' = todo /\ staged' = staged
    BY GoneTo DEF Complete, Peers, Other
  <1>2. CASE q = "init"
    BY <1>1, <1>2 DEF Aligned
  <1>3. CASE q = "resp"
    <2>1. ReadUpTo(q)' = ReadUpTo(q) /\ Other(q) = "init"
      BY <1>1, <1>3, ReadUpToStays DEF Other
    <2>2. CASE CanWrite
      <3>1. chan'["resp"] = chan["resp"] \o <<m>>
        BY <2>2, SentChan DEF Complete, Peers, Other
      <3>2. m.action = "sync_complete"
        OBVIOUS
      <3> HIDE DEF m
      <3>3. WrittenUpTo(q) = <<Len(Due(q)), "next">> /\ WrittenUpTo(q)' = <<Len(Due(q)), "over">>
        BY <1>1, <2>1 DEF WrittenUpTo, Due
      <3>4. Moves(Due(q), q, <<Len(Due(q)), "next">>, m, <<Len(Due(q)), "over">>)
        BY <3>2 DEF Moves
      <3>5. <<Len(Due(q)), "over">> \in Places
        <4>1. Len(Due(q)) \in Nat
          BY DueType
        <4> QED
          BY <4>1 DEF Places, Phases
      <3>6. ~Severed(q)
        BY <1>1, <2>1, <2>2 DEF Severed, CanWrite
      <3> QED
        BY <1>1, <1>3, <2>1, <3>1, <3>3, <3>4, <3>5, <3>6, AlignedWritten
    <2>3. CASE ~CanWrite
      <3>1. chan' = chan /\ Severed(q)'
        BY <1>1, <2>3 DEF Complete, CanWrite, Severed, StreamStates, Types, RestTypes
      <3> QED
        BY <1>1, <1>3, <2>1, <3>1, AlignedKept
    <2> QED
      BY <2>2, <2>3
  <1> QED
    BY <1>2, <1>3 DEF Peers

LEMMA AlignedStartSending ==
    ASSUME Types, ListInv, StartSending, NEW q \in Peers, Aligned(q)
    PROVE  Aligned(q)'
  <1>1. /\ pc["resp"] = "receive" /\ pc'["resp"] = "send" /\ pc'["init"] = pc["init"]
        /\ stream' = stream /\ order' = order /\ staged' = staged /\ chan' = chan
        /\ todo["resp"] = <<>>
    BY GoneTo DEF StartSending, Peers, Other
  <1>2. todo'["resp"] = order["pull"] /\ todo'["init"] = todo["init"]
    BY TodoSet DEF StartSending, Peers, Other
  <1>3. Severed(q)' \/ ~Severed(q)
    BY <1>1 DEF Severed, Peers, Other
  <1>4. CASE q = "init"
    <2>1. ReadUpTo(q)' = ReadUpTo(q) /\ Other(q) = "resp"
      BY <1>1, <1>2, <1>4, ReadUpToStays DEF Other
    <2>2. order["pull"] \in Seq(Names)
      BY PairsSeq DEF Types, PlanTypes
    <2>3. Passed("resp", Due(q))' = 0
      BY <1>1, <1>2, <1>4, <2>2 DEF Passed, Due, Way
    <2>4. WrittenUpTo(q)' = WrittenUpTo(q)
      BY <1>1, <2>1, <2>3 DEF WrittenUpTo
    <2> QED
      BY <1>1, <1>3, <1>4, <2>1, <2>4, AlignedKept
  <1>5. CASE q = "resp"
    <2>1. Passed(q, Due(q)) = Len(Due(q))
      <3>1. Loop(q) = Due(q) /\ InLoop(q)
        BY <1>1, <1>5 DEF Loop, InLoop, Receiving
      <3> QED
        BY <1>1, <1>5, <3>1, LoopStep
    <2>2. ReadUpTo(q)' = ReadUpTo(q)
      BY <1>1, <1>5, <2>1 DEF ReadUpTo, Due
    <2>3. WrittenUpTo(q)' = WrittenUpTo(q)
      BY <1>1, <1>2, <1>5, WrittenUpToStays DEF Other
    <2> QED
      BY <1>1, <1>3, <1>5, <2>2, <2>3, AlignedKept
  <1> QED
    BY <1>4, <1>5 DEF Peers

LEMMA AlignedAwait ==
    ASSUME Types, AwaitComplete, NEW q \in Peers, Aligned(q) PROVE Aligned(q)'
  <1>1. /\ pc["resp"] = "complete" /\ pc'["resp"] = "done" /\ pc'["init"] = pc["init"]
        /\ stream' = stream /\ order' = order /\ staged' = staged /\ todo' = todo
        /\ chan'["init"] = chan["init"]
    <2>1. chan'["init"] = chan["init"]
      BY ConsumeChan, DropChan DEF AwaitComplete, Peers, Other
    <2> QED
      BY <2>1, GoneTo DEF AwaitComplete, Peers, Other
  <1>2. CASE q = "init"
    <2>1. ReadUpTo(q)' = ReadUpTo(q) /\ Other(q) = "resp"
      BY <1>1, <1>2, ReadUpToStays DEF Other
    <2>2. WrittenUpTo(q)' = WrittenUpTo(q)
      BY <1>1, <2>1 DEF WrittenUpTo, Due
    <2>3. Severed(q)' \/ ~Severed(q)
      BY <1>1, <2>1 DEF Severed
    <2> QED
      BY <1>1, <1>2, <2>1, <2>2, <2>3, AlignedKept
  <1>3. CASE q = "resp"
    BY <1>1, <1>3 DEF Aligned
  <1> QED
    BY <1>2, <1>3 DEF Peers

LEMMA AlignedStill ==
    ASSUME Break \/ UNCHANGED vars, NEW q \in Peers, Aligned(q) PROVE Aligned(q)'
  <1>1. /\ pc' = pc /\ todo' = todo /\ order' = order /\ staged' = staged /\ chan' = chan
        /\ stream' \in {stream, "broken"}
    BY DEF Break, vars
  <1>2. ReadUpTo(q)' = ReadUpTo(q) /\ WrittenUpTo(q)' = WrittenUpTo(q)
    BY <1>1, ReadUpToStays, WrittenUpToStays
  <1>3. Severed(q)' \/ ~Severed(q)
    BY <1>1 DEF Severed
  <1> QED
    BY <1>1, <1>2, <1>3, AlignedKept

\* What is on its way keeps leading from the one place to the other.
LEMMA AlignedNext ==
    ASSUME Types, StreamStates, ChanInv, PlanInv, ListInv, DirInv, [Next]_vars,
           unmatched' = {}, \A q \in Peers : Aligned(q), NEW q \in Peers
    PROVE  Aligned(q)'
  <1>1. CASE Open
    BY <1>1, AlignedOpen
  <1>2. CASE OpenFails
    BY <1>2, AlignedFail DEF OpenFails, Peers
  <1>3. CASE Accept
    BY <1>3, AlignedAccept
  <1>4. CASE Reject
    BY <1>4, AlignedFail DEF Reject, Peers
  <1>5. CASE AnswerCatalogue
    BY <1>5, AlignedAnswer
  <1>6. CASE SendPlan
    BY <1>6, AlignedSendPlan
  <1>7. CASE AcceptPlan
    BY <1>7, AlignedAcceptPlan
  <1>8. CASE RefusePlan
    BY <1>8, AlignedFail DEF RefusePlan, Peers
  <1>9. ASSUME NEW p \in Peers, HandshakeFails(p) PROVE Aligned(q)'
    BY <1>9, AlignedFail DEF HandshakeFails
  <1>10. ASSUME NEW p \in Peers, SendVault(p) PROVE Aligned(q)'
    BY <1>10, AlignedSendVault
  <1>11. ASSUME NEW p \in Peers, SendDone(p) PROVE Aligned(q)'
    BY <1>11, AlignedSendDone
  <1>12. ASSUME NEW p \in Peers, ReceiveBegin(p) PROVE Aligned(q)'
    BY <1>12, AlignedReceiveBegin
  <1>13. ASSUME NEW p \in Peers, ReceiveFile(p) PROVE Aligned(q)'
    BY <1>13, AlignedReceiveFile
  <1>14. ASSUME NEW p \in Peers, ReceiveEnd(p) PROVE Aligned(q)'
    BY <1>14, AlignedReceiveEnd
  <1>15. ASSUME NEW p \in Peers, ReceiveFails(p) PROVE Aligned(q)'
    BY <1>15, AlignedReceiveFails
  <1>16. ASSUME NEW p \in Peers, Record(p) PROVE Aligned(q)'
    BY <1>16, AlignedRecord
  <1>17. CASE Complete
    BY <1>17, AlignedComplete
  <1>18. CASE StartSending
    BY <1>18, AlignedStartSending
  <1>19. CASE AwaitComplete
    BY <1>19, AlignedAwait
  <1>20. CASE Break \/ UNCHANGED vars
    BY <1>20, AlignedStill
  <1> QED
    BY <1>1, <1>2, <1>3, <1>4, <1>5, <1>6, <1>7, <1>8, <1>9, <1>10, <1>11, <1>12, <1>13,
       <1>14, <1>15, <1>16, <1>17, <1>18, <1>19, <1>20
       DEF Next, Session, Handshake, Transfer, Ending, Over

-----------------------------------------------------------------------------
(* Directories and entries *)

\* A directory changes where a peer begins to receive it or commits it, an entry
\* where it is recorded, and what failed or was given up is not forgotten.
LEMMA DiskChanges ==
    [Next]_vars => disk' = disk \/ \E p \in Peers : ReceiveBegin(p) \/ ReceiveEnd(p)
  <1> SUFFICES ASSUME [Next]_vars,
                      ~\E p \in Peers : ReceiveBegin(p) \/ ReceiveEnd(p)
               PROVE  disk' = disk
    OBVIOUS
  <1>1. CASE Open
    BY <1>1 DEF Open
  <1>2. CASE OpenFails
    BY <1>2 DEF OpenFails, Fail
  <1>3. CASE Accept
    BY <1>3 DEF Accept
  <1>4. CASE Reject
    BY <1>4 DEF Reject, Fail
  <1>5. CASE AnswerCatalogue
    BY <1>5 DEF AnswerCatalogue
  <1>6. CASE SendPlan
    BY <1>6 DEF SendPlan
  <1>7. CASE AcceptPlan
    BY <1>7 DEF AcceptPlan, FollowPlan
  <1>8. CASE RefusePlan
    BY <1>8 DEF RefusePlan, Fail
  <1>9. ASSUME NEW p \in Peers, HandshakeFails(p) PROVE disk' = disk
    BY <1>9 DEF HandshakeFails, Fail
  <1>10. ASSUME NEW p \in Peers, SendVault(p) PROVE disk' = disk
    BY <1>10 DEF SendVault
  <1>11. ASSUME NEW p \in Peers, SendDone(p) PROVE disk' = disk
    BY <1>11 DEF SendDone
  <1>12. ASSUME NEW p \in Peers, ReceiveBegin(p) PROVE disk' = disk
    BY <1>12
  <1>13. ASSUME NEW p \in Peers, ReceiveFile(p) PROVE disk' = disk
    BY <1>13 DEF ReceiveFile
  <1>14. ASSUME NEW p \in Peers, ReceiveEnd(p) PROVE disk' = disk
    BY <1>14
  <1>15. ASSUME NEW p \in Peers, ReceiveFails(p) PROVE disk' = disk
    BY <1>15 DEF ReceiveFails
  <1>16. ASSUME NEW p \in Peers, Record(p) PROVE disk' = disk
    BY <1>16 DEF Record
  <1>17. CASE Complete
    BY <1>17 DEF Complete
  <1>18. CASE StartSending
    BY <1>18 DEF StartSending
  <1>19. CASE AwaitComplete
    BY <1>19 DEF AwaitComplete
  <1>20. CASE Break
    BY <1>20 DEF Break
  <1>21. CASE UNCHANGED vars
    BY <1>21 DEF vars
  <1> QED
    BY <1>1, <1>2, <1>3, <1>4, <1>5, <1>6, <1>7, <1>8, <1>9, <1>10, <1>11, <1>12, <1>13,
       <1>14, <1>15, <1>16, <1>17, <1>18, <1>19, <1>20, <1>21
       DEF Next, Session, Handshake, Transfer, Ending, Over

LEMMA CatChanges == [Next]_vars => cat' = cat \/ \E p \in Peers : Record(p)
  <1> SUFFICES ASSUME [Next]_vars, ~\E p \in Peers : Record(p) PROVE cat' = cat
    OBVIOUS
  <1>1. CASE Open
    BY <1>1 DEF Open
  <1>2. CASE OpenFails
    BY <1>2 DEF OpenFails, Fail
  <1>3. CASE Accept
    BY <1>3 DEF Accept
  <1>4. CASE Reject
    BY <1>4 DEF Reject, Fail
  <1>5. CASE AnswerCatalogue
    BY <1>5 DEF AnswerCatalogue
  <1>6. CASE SendPlan
    BY <1>6 DEF SendPlan
  <1>7. CASE AcceptPlan
    BY <1>7 DEF AcceptPlan, FollowPlan
  <1>8. CASE RefusePlan
    BY <1>8 DEF RefusePlan, Fail
  <1>9. ASSUME NEW p \in Peers, HandshakeFails(p) PROVE cat' = cat
    BY <1>9 DEF HandshakeFails, Fail
  <1>10. ASSUME NEW p \in Peers, SendVault(p) PROVE cat' = cat
    BY <1>10 DEF SendVault
  <1>11. ASSUME NEW p \in Peers, SendDone(p) PROVE cat' = cat
    BY <1>11 DEF SendDone
  <1>12. ASSUME NEW p \in Peers, ReceiveBegin(p) PROVE cat' = cat
    BY <1>12 DEF ReceiveBegin
  <1>13. ASSUME NEW p \in Peers, ReceiveFile(p) PROVE cat' = cat
    BY <1>13 DEF ReceiveFile
  <1>14. ASSUME NEW p \in Peers, ReceiveEnd(p) PROVE cat' = cat
    BY <1>14 DEF ReceiveEnd
  <1>15. ASSUME NEW p \in Peers, ReceiveFails(p) PROVE cat' = cat
    BY <1>15 DEF ReceiveFails
  <1>16. ASSUME NEW p \in Peers, Record(p) PROVE cat' = cat
    BY <1>16
  <1>17. CASE Complete
    BY <1>17 DEF Complete
  <1>18. CASE StartSending
    BY <1>18 DEF StartSending
  <1>19. CASE AwaitComplete
    BY <1>19 DEF AwaitComplete
  <1>20. CASE Break
    BY <1>20 DEF Break
  <1>21. CASE UNCHANGED vars
    BY <1>21 DEF vars
  <1> QED
    BY <1>1, <1>2, <1>3, <1>4, <1>5, <1>6, <1>7, <1>8, <1>9, <1>10, <1>11, <1>12, <1>13,
       <1>14, <1>15, <1>16, <1>17, <1>18, <1>19, <1>20, <1>21
       DEF Next, Session, Handshake, Transfer, Ending, Over

LEMMA UnmatchedGrows == [Next]_vars => unmatched \subseteq unmatched'
  <1> SUFFICES ASSUME [Next]_vars PROVE unmatched \subseteq unmatched'
    OBVIOUS
  <1>1. CASE Open
    BY <1>1 DEF Open
  <1>2. CASE OpenFails
    BY <1>2 DEF OpenFails, Fail
  <1>3. CASE Accept
    BY <1>3 DEF Accept
  <1>4. CASE Reject
    BY <1>4 DEF Reject, Fail
  <1>5. CASE AnswerCatalogue
    BY <1>5 DEF AnswerCatalogue
  <1>6. CASE SendPlan
    BY <1>6 DEF SendPlan
  <1>7. CASE AcceptPlan
    BY <1>7 DEF AcceptPlan, FollowPlan
  <1>8. CASE RefusePlan
    BY <1>8 DEF RefusePlan, Fail
  <1>9. ASSUME NEW p \in Peers, HandshakeFails(p) PROVE unmatched \subseteq unmatched'
    BY <1>9 DEF HandshakeFails, Fail
  <1>10. ASSUME NEW p \in Peers, SendVault(p) PROVE unmatched \subseteq unmatched'
    BY <1>10 DEF SendVault
  <1>11. ASSUME NEW p \in Peers, SendDone(p) PROVE unmatched \subseteq unmatched'
    BY <1>11 DEF SendDone
  <1>12. ASSUME NEW p \in Peers, ReceiveBegin(p) PROVE unmatched \subseteq unmatched'
    BY <1>12 DEF ReceiveBegin
  <1>13. ASSUME NEW p \in Peers, ReceiveFile(p) PROVE unmatched \subseteq unmatched'
    BY <1>13 DEF ReceiveFile
  <1>14. ASSUME NEW p \in Peers, ReceiveEnd(p) PROVE unmatched \subseteq unmatched'
    BY <1>14 DEF ReceiveEnd
  <1>15. ASSUME NEW p \in Peers, ReceiveFails(p) PROVE unmatched \subseteq unmatched'
    BY <1>15 DEF ReceiveFails
  <1>16. ASSUME NEW p \in Peers, Record(p) PROVE unmatched \subseteq unmatched'
    BY <1>16 DEF Record
  <1>17. CASE Complete
    BY <1>17 DEF Complete
  <1>18. CASE StartSending
    BY <1>18 DEF StartSending
  <1>19. CASE AwaitComplete
    BY <1>19 DEF AwaitComplete
  <1>20. CASE Break
    BY <1>20 DEF Break
  <1>21. CASE UNCHANGED vars
    BY <1>21 DEF vars
  <1> QED
    BY <1>1, <1>2, <1>3, <1>4, <1>5, <1>6, <1>7, <1>8, <1>9, <1>10, <1>11, <1>12, <1>13,
       <1>14, <1>15, <1>16, <1>17, <1>18, <1>19, <1>20, <1>21
       DEF Next, Session, Handshake, Transfer, Ending, Over

LEMMA FailuresStay == Types /\ StreamStates /\ [Next]_vars => (Clean' => Clean)
  <1> SUFFICES ASSUME Types, StreamStates, [Next]_vars, Clean' PROVE Clean
    OBVIOUS
  <1>0. faults \in Nat /\ faults' = 0 /\ unmatched' = {} /\ stream' # "broken"
    BY DEF Types, RestTypes, Clean
  <1>p. pc'["init"] # "failed" /\ pc'["resp"] # "failed"
    BY DEF Clean, Peers
  <1>u. unmatched = {}
    BY <1>0, UnmatchedGrows
  <1>1. CASE Open
    BY <1>1, <1>0, <1>p, <1>u DEF Open, Goto, Clean, StreamStates, Types, PcTypes, Peers
  <1>2. CASE OpenFails
    BY <1>2, <1>0, <1>p, <1>u DEF OpenFails, Fail, Goto, Fault, Clean, Types, PcTypes,
       Peers
  <1>3. CASE Accept
    BY <1>3, <1>0, <1>p, <1>u DEF Accept, Goto, Fault, Clean, Types, PcTypes, Peers
  <1>4. CASE Reject
    BY <1>4, <1>0, <1>p, <1>u DEF Reject, Fail, Goto, Fault, Clean, Types, PcTypes,
       Peers
  <1>5. CASE AnswerCatalogue
    BY <1>5, <1>0, <1>p, <1>u DEF AnswerCatalogue, Goto, Fault, Clean, Types, PcTypes,
       Peers
  <1>6. CASE SendPlan
    BY <1>6, <1>0, <1>p, <1>u DEF SendPlan, Goto, Fault, Clean, Types, PcTypes, Peers
  <1>7. CASE AcceptPlan
    BY <1>7, <1>0, <1>p, <1>u DEF AcceptPlan, FollowPlan, Goto, Fault, Clean, Types,
       PcTypes, Peers
  <1>8. CASE RefusePlan
    BY <1>8, <1>0, <1>p, <1>u DEF RefusePlan, Fail, Goto, Fault, Clean, Types, PcTypes,
       Peers
  <1>9. ASSUME NEW p \in Peers, HandshakeFails(p) PROVE Clean
    BY <1>9, <1>0, <1>p, <1>u DEF HandshakeFails, Fail, Goto, Fault, Clean, Types,
       PcTypes, Peers
  <1>10. ASSUME NEW p \in Peers, SendVault(p) PROVE Clean
    BY <1>10, <1>0, <1>p, <1>u DEF SendVault, Fault, Clean, Types, PcTypes, Peers
  <1>11. ASSUME NEW p \in Peers, SendDone(p) PROVE Clean
    BY <1>11, <1>0, <1>p, <1>u DEF SendDone, Goto, Fault, Clean, Types, PcTypes, Peers
  <1>12. ASSUME NEW p \in Peers, ReceiveBegin(p) PROVE Clean
    BY <1>12, <1>0, <1>p, <1>u DEF ReceiveBegin, Goto, Fault, Clean, Types, PcTypes,
       Peers
  <1>13. ASSUME NEW p \in Peers, ReceiveFile(p) PROVE Clean
    BY <1>13, <1>0, <1>p, <1>u DEF ReceiveFile, Fault, Clean, Types, PcTypes, Peers
  <1>14. ASSUME NEW p \in Peers, ReceiveEnd(p) PROVE Clean
    BY <1>14, <1>0, <1>p, <1>u DEF ReceiveEnd, Goto, Fault, Clean, Types, PcTypes, Peers
  <1>15. ASSUME NEW p \in Peers, ReceiveFails(p) PROVE Clean
    BY <1>15, <1>0, <1>p, <1>u DEF ReceiveFails, Goto, Fault, Clean, Types, PcTypes,
       Peers
  <1>16. ASSUME NEW p \in Peers, Record(p) PROVE Clean
    BY <1>16, <1>0, <1>p, <1>u DEF Record, Goto, Fault, Clean, Types, PcTypes, Peers
  <1>17. CASE Complete
    BY <1>17, <1>0, <1>p, <1>u DEF Complete, Goto, Fault, Clean, Types, PcTypes, Peers
  <1>18. CASE StartSending
    BY <1>18, <1>0, <1>p, <1>u DEF StartSending, Goto, Fault, Clean, Types, PcTypes,
       Peers
  <1>19. CASE AwaitComplete
    BY <1>19, <1>0, <1>p, <1>u DEF AwaitComplete, Goto, Fault, Clean, Types, PcTypes,
       Peers
  <1>20. CASE Break
    BY <1>20, <1>0, <1>p, <1>u DEF Break, Fault, Clean, Types, PcTypes, Peers
  <1>21. CASE UNCHANGED vars
    BY <1>21, <1>0, <1>p, <1>u DEF vars, Fault, Clean, Types, PcTypes, Peers
  <1> QED
    BY <1>1, <1>2, <1>3, <1>4, <1>5, <1>6, <1>7, <1>8, <1>9, <1>10, <1>11, <1>12, <1>13,
       <1>14, <1>15, <1>16, <1>17, <1>18, <1>19, <1>20, <1>21
       DEF Next, Session, Handshake, Transfer, Ending, Over

\* What the plan moves to a peer does not change once there is a plan.
LEMMA CameStays ==
    ASSUME Types, StartInv, [Next]_vars, NEW q, NEW n, Came(q, n) PROVE Came(q, n)'
  BY PlannedStays, PlansStay DEF Came

\* The vault a receiver is at came with the plan.
LEMMA HeadCame ==
    ASSUME Types, PlanInv, ListInv, NEW p \in Peers, Receiving(p), todo[p] # <<>>
    PROVE  Came(p, Head(todo[p])) /\ Head(todo[p]) \in Names
  <1>1. InLoop(p) /\ pc[p] # "send"
    BY DEF InLoop, Receiving
  <1> QED
    BY <1>1, HeadMoved DEF Came

LEMMA DirNext ==
    ASSUME Types, StartInv, PlanInv, ListInv, DirInv, HoldInv, [Next]_vars
    PROVE  DirInv'
  <1> SUFFICES ASSUME NEW q \in Peers, NEW v \in Names
               PROVE  /\ disk'[q][v] \in {NoVault, {<<v, q>>}, {}, Copy(q, v)}
                      /\ ~Came(q, v)' => disk'[q][v] \in {NoVault, {<<v, q>>}}
    BY DEF DirInv, Copy
  <1>1. /\ disk[q][v] \in {NoVault, {<<v, q>>}, {}, Copy(q, v)}
        /\ ~Came(q, v) => disk[q][v] \in {NoVault, {<<v, q>>}}
        /\ Came(q, v) => Came(q, v)'
    BY CameStays DEF DirInv
  <1>2. CASE disk' = disk
    BY <1>1, <1>2
  <1>3. ASSUME NEW p \in Peers, ReceiveBegin(p) \/ ReceiveEnd(p)
        PROVE  /\ disk'[q][v] \in {NoVault, {<<v, q>>}, {}, Copy(q, v)}
               /\ ~Came(q, v)' => disk'[q][v] \in {NoVault, {<<v, q>>}}
    <2> DEFINE n == Head(todo[p])
    <2>1. Receiving(p) /\ todo[p] # <<>>
      BY <1>3 DEF ReceiveBegin, ReceiveEnd, Receiving, Types, TodoTypes
    <2>2. Came(p, n) /\ n \in Names
      BY <2>1, HeadCame
    <2>3. PICK d : /\ disk' = [disk EXCEPT ![p][n] = d]
                   /\ d \in {disk[p][n], {}, Copy(p, n)}
      <3>1. CASE ReceiveBegin(p)
        <4>1. disk' = [disk EXCEPT ![p][n] = IF disk[p][n] =
                 NoVault THEN {} ELSE disk[p][n]]
          BY <3>1 DEF ReceiveBegin
        <4> QED
          BY <4>1
      <3>2. CASE ReceiveEnd(p)
        <4>1. disk' = [disk EXCEPT ![p][n] = staged[p]] /\ staged[p] \in {{}, Copy(p, n)}
          BY <3>2 DEF ReceiveEnd, HoldInv
        <4> QED
          BY <4>1
      <3> QED
        BY <1>3, <3>1, <3>2
    <2> HIDE DEF n
    <2>4. disk'[q][v] = IF q = p /\ v = n THEN d ELSE disk[q][v]
      BY <2>2, <2>3 DEF Types, DiskTypes, Disks
    <2>5. CASE q = p /\ v = n
      BY <1>1, <2>2, <2>3, <2>4, <2>5
    <2>6. CASE ~(q = p /\ v = n)
      BY <1>1, <2>4, <2>6
    <2> QED
      BY <2>5, <2>6
  <1> QED
    BY <1>2, <1>3, DiskChanges

\* A receiver stages the files of the vault it is at, and records what it has
\* committed.
HoldAt(q) ==
    /\ pc[q] = "files" => staged[q] \in {{}, Copy(q, Head(todo[q]))}
    /\ pc[q] = "record" => disk[q][Head(todo[q])] = Copy(q, Head(todo[q]))

LEMMA HoldKept ==
    ASSUME NEW q \in Peers, HoldAt(q), todo'[q] = todo[q], staged'[q] = staged[q],
           disk'[q] = disk[q], pc'[q] \in {"files", "record"} => pc'[q] = pc[q]
    PROVE  HoldAt(q)'
  BY DEF HoldAt, Copy

LEMMA HoldNext ==
    ASSUME Types, ListInv, HoldInv, \A q \in Peers : Aligned(q), [Next]_vars,
           NEW q \in Peers
    PROVE  HoldAt(q)'
  <1>h. HoldAt(q)
    BY DEF HoldInv, HoldAt
  <1>a. ASSUME todo' = todo, staged' = staged, disk' = disk,
               pc'[q] \in {"files", "record"} => pc'[q] = pc[q]
        PROVE  HoldAt(q)'
    BY <1>h, <1>a, HoldKept
  <1>1. CASE Open
    BY <1>1, <1>a DEF Open, Goto, Types, PcTypes, Peers
  <1>2. CASE OpenFails
    BY <1>2, <1>a DEF OpenFails, Fail, Goto, Types, PcTypes, Peers
  <1>3. CASE Accept
    BY <1>3, <1>a DEF Accept, Goto, Types, PcTypes, Peers
  <1>4. CASE Reject
    BY <1>4, <1>a DEF Reject, Fail, Goto, Types, PcTypes, Peers
  <1>5. CASE AnswerCatalogue
    BY <1>5, <1>a DEF AnswerCatalogue, Goto, Types, PcTypes, Peers
  <1>6. CASE SendPlan
    <2>1. CASE q # "init"
      <3>1. /\ todo'[q] = todo[q] /\ staged'[q] = staged[q]
            /\ disk'[q] = disk[q] /\ pc'[q] = pc[q]
        BY <1>6, <2>1 DEF SendPlan, Goto, Types, PcTypes, TodoTypes, DiskTypes
      <3> QED
        BY <1>h, <3>1, HoldKept
    <2>2. CASE q = "init"
      <3>1. pc'[q] \notin {"files", "record"}
        BY <1>6, <2>2 DEF SendPlan, Goto, Types, PcTypes, Peers
      <3> QED
        BY <3>1 DEF HoldAt
    <2> QED
      BY <2>1, <2>2
  <1>7. CASE AcceptPlan
    <2>1. CASE q # "resp"
      <3>1. /\ todo'[q] = todo[q] /\ staged'[q] = staged[q]
            /\ disk'[q] = disk[q] /\ pc'[q] = pc[q]
        BY <1>7, <2>1 DEF AcceptPlan, FollowPlan, Goto, Types, PcTypes, TodoTypes,
           DiskTypes
      <3> QED
        BY <1>h, <3>1, HoldKept
    <2>2. CASE q = "resp"
      <3>1. pc'[q] \notin {"files", "record"}
        BY <1>7, <2>2 DEF AcceptPlan, FollowPlan, Goto, Types, PcTypes, Peers
      <3> QED
        BY <3>1 DEF HoldAt
    <2> QED
      BY <2>1, <2>2
  <1>8. CASE RefusePlan
    BY <1>8, <1>a DEF RefusePlan, Fail, Goto, Types, PcTypes, Peers
  <1>9. ASSUME NEW p \in Peers, HandshakeFails(p) PROVE HoldAt(q)'
    BY <1>9, <1>a DEF HandshakeFails, Fail, Goto, Types, PcTypes, Peers
  <1>10. ASSUME NEW p \in Peers, SendVault(p) PROVE HoldAt(q)'
    <2>1. CASE q # p
      <3>1. /\ todo'[q] = todo[q] /\ staged'[q] = staged[q]
            /\ disk'[q] = disk[q] /\ pc'[q] = pc[q]
        BY <1>10, <2>1 DEF SendVault, Types, PcTypes, TodoTypes, DiskTypes
      <3> QED
        BY <1>h, <3>1, HoldKept
    <2>2. CASE q = p
      <3>1. pc'[q] \notin {"files", "record"}
        BY <1>10, <2>2 DEF SendVault
      <3> QED
        BY <3>1 DEF HoldAt
    <2> QED
      BY <2>1, <2>2
  <1>11. ASSUME NEW p \in Peers, SendDone(p) PROVE HoldAt(q)'
    <2>1. CASE q # p
      <3>1. /\ todo'[q] = todo[q] /\ staged'[q] = staged[q]
            /\ disk'[q] = disk[q] /\ pc'[q] = pc[q]
        BY <1>11, <2>1 DEF SendDone, Goto, Types, PcTypes, TodoTypes, DiskTypes
      <3> QED
        BY <1>h, <3>1, HoldKept
    <2>2. CASE q = p
      <3>1. pc'[q] \notin {"files", "record"}
        BY <1>11, <2>2 DEF SendDone, Goto, Types, PcTypes, Peers
      <3> QED
        BY <3>1 DEF HoldAt
    <2> QED
      BY <2>1, <2>2
  <1>12. ASSUME NEW p \in Peers, ReceiveBegin(p) PROVE HoldAt(q)'
    <2>1. CASE q # p
      <3>1. /\ todo'[q] = todo[q] /\ staged'[q] = staged[q]
            /\ disk'[q] = disk[q] /\ pc'[q] = pc[q]
        BY <1>12, <2>1 DEF ReceiveBegin, Goto, Types, PcTypes, TodoTypes, DiskTypes
      <3> QED
        BY <1>h, <3>1, HoldKept
    <2>2. CASE q = p
      <3>1. staged'[q] = {}
        BY <1>12, <2>2, StagedSet DEF ReceiveBegin
      <3>2. pc'[q] # "record"
        BY <1>12, <2>2 DEF ReceiveBegin, Goto, Types, PcTypes
      <3> QED
        BY <3>1, <3>2 DEF HoldAt
    <2> QED
      BY <2>1, <2>2
  <1>13. ASSUME NEW p \in Peers, ReceiveFile(p) PROVE HoldAt(q)'
    <2>1. CASE q # p
      <3>1. /\ todo'[q] = todo[q] /\ staged'[q] = staged[q]
            /\ disk'[q] = disk[q] /\ pc'[q] = pc[q]
        BY <1>13, <2>1 DEF ReceiveFile, Types, PcTypes, TodoTypes, DiskTypes
      <3> QED
        BY <1>h, <3>1, HoldKept
    <2>2. CASE q = p
      <3>1. /\ pc[p] = "files" /\ CanRead(p) /\ todo[p] # <<>> /\ todo' = todo /\ pc' = pc
            /\ Incoming(p).action = "transfer_file"
        BY <1>13 DEF ReceiveFile, Types, TodoTypes
      <3>2. staged[p] = {} /\ Incoming(p).files = Copy(p, Head(todo[p]))
        BY <3>1, ReadingVault
      <3>3. staged'[p] = staged[p] \cup Incoming(p).files
        BY <1>13, StagedSet DEF ReceiveFile
      <3>4. staged'[q] = Copy(q, Head(todo[q]))
        BY <2>2, <3>2, <3>3
      <3> QED
        BY <2>2, <3>1, <3>4 DEF HoldAt, Copy
    <2> QED
      BY <2>1, <2>2
  <1>14. ASSUME NEW p \in Peers, ReceiveEnd(p) PROVE HoldAt(q)'
    <2>1. CASE q # p
      <3>1. /\ todo'[q] = todo[q] /\ staged'[q] = staged[q]
            /\ disk'[q] = disk[q] /\ pc'[q] = pc[q]
        BY <1>14, <2>1 DEF ReceiveEnd, Goto, Types, PcTypes, TodoTypes, DiskTypes
      <3> QED
        BY <1>h, <3>1, HoldKept
    <2>2. CASE q = p
      <3>1. pc[p] = "files" /\ pc'[p] = "record" /\ todo' = todo /\ Head(todo[p]) \in Names
        BY <1>14, GoneTo DEF ReceiveEnd, Types, TodoTypes
      <3>2. staged[p] # {}
        BY <1>14, AlignedReceiveEnd
      <3>3. staged[p] = Copy(p, Head(todo[p]))
        BY <1>h, <2>2, <3>1, <3>2 DEF HoldAt
      <3>4. disk'[p][Head(todo[p])] = staged[p]
        <4>1. disk' = [disk EXCEPT ![p][Head(todo[p])] = staged[p]]
          BY <1>14 DEF ReceiveEnd
        <4> QED
          BY <3>1, <4>1 DEF Types, DiskTypes, Disks
      <3> QED
        BY <2>2, <3>1, <3>3, <3>4 DEF HoldAt, Copy
    <2> QED
      BY <2>1, <2>2
  <1>15. ASSUME NEW p \in Peers, ReceiveFails(p) PROVE HoldAt(q)'
    <2>1. CASE q # p
      <3>1. /\ todo'[q] = todo[q] /\ staged'[q] = staged[q]
            /\ disk'[q] = disk[q] /\ pc'[q] = pc[q]
        BY <1>15, <2>1 DEF ReceiveFails, Goto, Types, PcTypes, TodoTypes, DiskTypes
      <3> QED
        BY <1>h, <3>1, HoldKept
    <2>2. CASE q = p
      <3>1. pc'[q] \notin {"files", "record"}
        BY <1>15, <2>2 DEF ReceiveFails, Goto, Types, PcTypes, Peers
      <3> QED
        BY <3>1 DEF HoldAt
    <2> QED
      BY <2>1, <2>2
  <1>16. ASSUME NEW p \in Peers, Record(p) PROVE HoldAt(q)'
    <2>1. CASE q # p
      <3>1. /\ todo'[q] = todo[q] /\ staged'[q] = staged[q]
            /\ disk'[q] = disk[q] /\ pc'[q] = pc[q]
        BY <1>16, <2>1 DEF Record, Goto, Types, PcTypes, TodoTypes, DiskTypes
      <3> QED
        BY <1>h, <3>1, HoldKept
    <2>2. CASE q = p
      <3>1. pc'[q] \notin {"files", "record"}
        BY <1>16, <2>2 DEF Record, Goto, Types, PcTypes, Peers
      <3> QED
        BY <3>1 DEF HoldAt
    <2> QED
      BY <2>1, <2>2
  <1>17. CASE Complete
    BY <1>17, <1>a DEF Complete, Goto, Types, PcTypes, Peers
  <1>18. CASE StartSending
    <2>1. CASE q # "resp"
      <3>1. /\ todo'[q] = todo[q] /\ staged'[q] = staged[q]
            /\ disk'[q] = disk[q] /\ pc'[q] = pc[q]
        BY <1>18, <2>1 DEF StartSending, Goto, Types, PcTypes, TodoTypes, DiskTypes
      <3> QED
        BY <1>h, <3>1, HoldKept
    <2>2. CASE q = "resp"
      <3>1. pc'[q] \notin {"files", "record"}
        BY <1>18, <2>2 DEF StartSending, Goto, Types, PcTypes, Peers
      <3> QED
        BY <3>1 DEF HoldAt
    <2> QED
      BY <2>1, <2>2
  <1>19. CASE AwaitComplete
    BY <1>19, <1>a DEF AwaitComplete, Goto, Types, PcTypes, Peers
  <1>20. CASE Break
    BY <1>20, <1>a DEF Break, Types, PcTypes, Peers
  <1>21. CASE UNCHANGED vars
    BY <1>21, <1>a DEF vars, Types, PcTypes, Peers
  <1> QED
    BY <1>1, <1>2, <1>3, <1>4, <1>5, <1>6, <1>7, <1>8, <1>9, <1>10, <1>11, <1>12, <1>13,
       <1>14, <1>15, <1>16, <1>17, <1>18, <1>19, <1>20, <1>21
       DEF Next, Session, Handshake, Transfer, Ending, Over

\* Recorded entries stay backed by the files.
LEMMA BackedNext ==
    ASSUME Types, StartInv, ListInv, HoldInv, CatalogueBackedByFiles,
           \A q \in Peers : Aligned(q), [Next]_vars, unmatched = {}
    PROVE  CatalogueBackedByFiles'
  <1> SUFFICES ASSUME NEW q \in Peers, NEW v \in Names, cat'[q][v] # mine'[q][v]
               PROVE  disk'[q][v] = Copy(q, v)
    BY DEF CatalogueBackedByFiles, Copy
  <1>1. mine' = mine
    BY MineStays
  <1>2. disk[q][v] = Copy(q, v)
    <2>1. cat[q][v] # mine[q][v] => disk[q][v] = Copy(q, v)
      BY DEF CatalogueBackedByFiles, Copy
    <2>2. ASSUME NEW p \in Peers, Record(p) PROVE disk[q][v] = Copy(q, v)
      <3>1. pc[p] = "record" /\ Head(todo[p]) \in Names
        BY <2>2 DEF Record, Types, TodoTypes
      <3>2. disk[p][Head(todo[p])] = Copy(p, Head(todo[p]))
        BY <3>1 DEF HoldInv
      <3>3. cat' = cat \/ cat' = [cat EXCEPT ![p][Head(todo[p])] = Written(p)]
        BY <2>2, RecordStep
      <3>4. cat'[q][v] = cat[q][v] \/ (q = p /\ v = Head(todo[p]))
        BY <3>1, <3>3 DEF Types, CatTypes, Catalogues
      <3> QED
        BY <1>1, <2>1, <3>2, <3>4
    <2> QED
      BY <1>1, <2>1, <2>2, CatChanges
  <1>3. CASE disk' = disk
    BY <1>2, <1>3
  <1>4. ASSUME NEW p \in Peers, ReceiveBegin(p) PROVE disk'[q][v] = Copy(q, v)
    <2>1. Head(todo[p]) \in Names
      BY <1>4 DEF ReceiveBegin, Types, TodoTypes
    <2>2. disk' = [disk EXCEPT ![p][Head(todo[p])] =
                      IF disk[p][Head(todo[p])] = NoVault THEN {} ELSE disk[p][Head(todo[p])]]
      BY <1>4 DEF ReceiveBegin
    <2>3. disk'[q][v] = disk[q][v] \/ disk[q][v] = NoVault
      BY <2>1, <2>2 DEF Types, DiskTypes, Disks
    <2>4. Copy(q, v) # NoVault
      BY StartsAssumption DEF Copy, Other, Peers
    <2> QED
      BY <1>2, <2>3, <2>4
  <1>5. ASSUME NEW p \in Peers, ReceiveEnd(p) PROVE disk'[q][v] = Copy(q, v)
    <2>1. Head(todo[p]) \in Names /\ pc[p] = "files"
      BY <1>5 DEF ReceiveEnd, Types, TodoTypes
    <2>2. staged[p] = Copy(p, Head(todo[p]))
      BY <1>5, <2>1, AlignedReceiveEnd DEF HoldInv
    <2>3. disk' = [disk EXCEPT ![p][Head(todo[p])] = staged[p]]
      BY <1>5 DEF ReceiveEnd
    <2>4. disk'[q][v] = IF q = p /\ v = Head(todo[p]) THEN staged[p] ELSE disk[q][v]
      BY <2>1, <2>3 DEF Types, DiskTypes, Disks
    <2> QED
      BY <1>2, <2>2, <2>4
  <1> QED
    BY <1>3, <1>4, <1>5, DiskChanges

-----------------------------------------------------------------------------
(* What has been recorded *)

\* As long as nothing fails, a peer leaves no vault of its loop behind that it has
\* not recorded.
LEMMA RecordedStep ==
    ASSUME Types, StreamStates, ChanInv, PlanInv, ListInv, \A q \in Peers : Aligned(q),
           [Next]_vars, Clean, Clean', ~\E p \in Peers : Record(p), NEW q \in Peers
    PROVE  Recorded(q)' = 0 \/ (Recorded(q)' = Recorded(q) /\ order' = order)
  <1> DEFINE G == Recorded(q)' = 0 \/ (Recorded(q)' = Recorded(q) /\ order' = order)
  <1>c. /\ \A p \in Peers : pc[p] # "failed" /\ pc'[p] # "failed" /\ ~Severed(p)
        /\ unmatched' = {} /\ faults' = 0 /\ faults \in Nat
    <2>1. \A p \in Peers : Other(p) \in Peers
      BY DEF Other, Peers
    <2> QED
      BY <2>1 DEF Clean, Severed, Types, RestTypes
  <1>k. ASSUME pc'[q] = pc[q], todo'[q] = todo[q], order' = order PROVE G
    BY <1>k DEF Recorded, Receiving, Passed, Due
  <1>z. ASSUME \/ pc'[q] \in {"start", "catalogue", "plan"}
               \/ q = "init" /\ pc'[q] = "send"
               \/ Receiving(q)' /\ Passed(q, Due(q))' = 0
        PROVE  G
    BY <1>z DEF Recorded, Receiving
  <1>e. ASSUME Receiving(q), todo[q] = <<>> PROVE Recorded(q) = Len(Due(q))
    <2>1. InLoop(q) /\ Loop(q) = Due(q)
      BY <1>e DEF InLoop, Loop, Receiving
    <2> QED
      BY <1>e, <2>1, LoopStep DEF Recorded, Receiving
  <1>o. /\ order["push"] \in Seq(Names) /\ order["pull"] \in Seq(Names)
        /\ Len(order["push"]) - Len(order["push"]) = 0
        /\ Len(order["pull"]) - Len(order["pull"]) = 0
    <2>1. order["push"] \in Seq(Names) /\ order["pull"] \in Seq(Names)
      BY PairsSeq DEF Types, PlanTypes
    <2> QED
      BY <2>1
  <1> HIDE DEF G
  <1>1. ASSUME Open PROVE G
    <2>1. CASE q # "init"
      <3>1. pc'[q] = pc[q] /\ todo'[q] = todo[q] /\ order' = order
        BY <1>1, <2>1 DEF Open, Goto, Types, PcTypes, TodoTypes, Peers
      <3> QED
        BY <1>k, <3>1
    <2>2. CASE q = "init"
      BY <1>1, <1>z, <2>2 DEF Open, Goto, Types, PcTypes, TodoTypes, Peers
    <2> QED
      BY <2>1, <2>2
  <1>2. ASSUME OpenFails PROVE G
    BY <1>2, <1>c DEF OpenFails, Fail, Goto, Types, PcTypes, TodoTypes, Peers
  <1>3. ASSUME Accept PROVE G
    <2>1. CASE q # "resp"
      <3>1. pc'[q] = pc[q] /\ todo'[q] = todo[q] /\ order' = order
        BY <1>3, <2>1 DEF Accept, Goto, Types, PcTypes, TodoTypes, Peers
      <3> QED
        BY <1>k, <3>1
    <2>2. CASE q = "resp"
      BY <1>3, <1>z, <2>2 DEF Accept, Goto, Types, PcTypes, TodoTypes, Peers
    <2> QED
      BY <2>1, <2>2
  <1>4. ASSUME Reject PROVE G
    BY <1>4, <1>c DEF Reject, Fail, Goto, Types, PcTypes, TodoTypes, Peers
  <1>5. ASSUME AnswerCatalogue PROVE G
    <2>1. CASE q # "resp"
      <3>1. pc'[q] = pc[q] /\ todo'[q] = todo[q] /\ order' = order
        BY <1>5, <2>1 DEF AnswerCatalogue, Goto, Types, PcTypes, TodoTypes, Peers
      <3> QED
        BY <1>k, <3>1
    <2>2. CASE q = "resp"
      BY <1>5, <1>z, <2>2 DEF AnswerCatalogue, Goto, Types, PcTypes, TodoTypes, Peers
    <2> QED
      BY <2>1, <2>2
  <1>6. ASSUME SendPlan PROVE G
    <2>1. ~Planned /\ ~Accepted
      BY <1>6 DEF SendPlan, PlanInv, Planned
    <2>2. pc'["init"] = "send" /\ pc'["resp"] = pc["resp"]
      BY <1>6, GoneTo DEF SendPlan, Peers, Other
    <2>3. pc["resp"] \in {"start", "catalogue", "plan"}
      BY <1>c, <2>1 DEF Accepted, Types, PcTypes, RespAts, Peers
    <2> QED
      BY <1>z, <2>2, <2>3 DEF Peers
  <1>7. ASSUME AcceptPlan PROVE G
    <2>1. CASE q # "resp"
      <3>1. pc'[q] = pc[q] /\ todo'[q] = todo[q] /\ order' = order
        BY <1>7, <2>1 DEF AcceptPlan, FollowPlan, Goto, Types, PcTypes, TodoTypes, Peers
      <3> QED
        BY <1>k, <3>1
    <2>2. CASE q = "resp"
      <3>1. Incoming("resp").order = order
        BY <1>7, ReadsInv DEF AcceptPlan, FollowPlan, Types, To, Peers
      <3>2. todo'["resp"] = order["push"] /\ order' = order /\ pc'["resp"] = "receive"
        BY <1>7, <3>1, TodoSet, GoneTo DEF AcceptPlan, FollowPlan, Peers
      <3>3. Passed(q, Due(q))' = 0
        BY <1>o, <2>2, <3>2 DEF Passed, Due, Way
      <3> QED
        BY <1>z, <2>2, <3>2, <3>3 DEF Receiving
    <2> QED
      BY <2>1, <2>2
  <1>8. ASSUME RefusePlan PROVE G
    BY <1>8, <1>c DEF RefusePlan, Fail, Goto, Types, PcTypes, TodoTypes, Peers
  <1>9. ASSUME NEW p \in Peers, HandshakeFails(p) PROVE G
    BY <1>9, <1>c DEF HandshakeFails, Fail, Goto, Types, PcTypes, TodoTypes, Peers
  <1>10. ASSUME NEW p \in Peers, SendVault(p) PROVE G
    <2>1. CASE q # p
      <3>1. pc'[q] = pc[q] /\ todo'[q] = todo[q] /\ order' = order
        BY <1>10, <2>1 DEF SendVault, Types, PcTypes, TodoTypes, Peers
      <3> QED
        BY <1>k, <3>1
    <2>2. CASE q = p
      <3>1. pc[q] = "send" /\ pc'[q] = "send" /\ order' = order
        BY <1>10, <2>2 DEF SendVault
      <3> QED
        BY <3>1 DEF G, Recorded, Receiving, Due
    <2> QED
      BY <2>1, <2>2
  <1>11. ASSUME NEW p \in Peers, SendDone(p) PROVE G
    <2>1. CASE q # p
      <3>1. pc'[q] = pc[q] /\ todo'[q] = todo[q] /\ order' = order
        BY <1>11, <2>1 DEF SendDone, Goto, Types, PcTypes, TodoTypes, Peers
      <3> QED
        BY <1>k, <3>1
    <2>2. CASE q = p
      <3>1. CASE p = "init"
        <4>1. todo'[q] = order["pull"] /\ order' = order /\ pc'[q] = "receive"
          BY <1>11, <2>2, <3>1, TodoSet, GoneTo DEF SendDone
        <4>2. Passed(q, Due(q))' = 0
          BY <1>o, <2>2, <3>1, <4>1 DEF Passed, Due, Way
        <4> QED
          BY <1>z, <4>1, <4>2 DEF Receiving
      <3>2. CASE p = "resp"
        <4>1. pc[q] = "send" /\ pc'[q] = "complete" /\ order' = order
          BY <1>11, <2>2, <3>2, GoneTo DEF SendDone
        <4> QED
          BY <2>2, <3>2, <4>1 DEF G, Recorded, Receiving, Due
      <3> QED
        BY <3>1, <3>2 DEF Peers
    <2> QED
      BY <2>1, <2>2
  <1>12. ASSUME NEW p \in Peers, ReceiveBegin(p) PROVE G
    <2>1. CASE q # p
      <3>1. pc'[q] = pc[q] /\ todo'[q] = todo[q] /\ order' = order
        BY <1>12, <2>1 DEF ReceiveBegin, Goto, Types, PcTypes, TodoTypes, Peers
      <3> QED
        BY <1>k, <3>1
    <2>2. CASE q = p
      <3>1. pc[p] = "receive" /\ todo[p] # <<>>
        BY <1>12 DEF ReceiveBegin
      <3>2. ~ReadFails(p) /\ (CanRead(p) => Incoming(p).action = "transfer_begin")
        BY <1>c, <3>1, ReadingVault
      <3>3. Goto(p, "files") /\ todo' = todo /\ order' = order
        BY <1>12, <1>c, <3>2 DEF ReceiveBegin, Fault
      <3>4. pc'[p] = "files"
        BY <3>3, GoneTo
      <3> QED
        BY <2>2, <3>1, <3>3, <3>4 DEF G, Recorded, Receiving, Passed, Due
    <2> QED
      BY <2>1, <2>2
  <1>13. ASSUME NEW p \in Peers, ReceiveFile(p) PROVE G
    BY <1>13, <1>k DEF ReceiveFile
  <1>14. ASSUME NEW p \in Peers, ReceiveEnd(p) PROVE G
    <2>1. CASE q # p
      <3>1. pc'[q] = pc[q] /\ todo'[q] = todo[q] /\ order' = order
        BY <1>14, <2>1 DEF ReceiveEnd, Goto, Types, PcTypes, TodoTypes, Peers
      <3> QED
        BY <1>k, <3>1
    <2>2. CASE q = p
      <3>1. pc[p] = "files" /\ pc'[p] = "record" /\ todo' = todo /\ order' = order
        BY <1>14, GoneTo DEF ReceiveEnd
      <3> QED
        BY <2>2, <3>1 DEF G, Recorded, Receiving, Passed, Due
    <2> QED
      BY <2>1, <2>2
  <1>15. ASSUME NEW p \in Peers, ReceiveFails(p) PROVE G
    <2>1. pc[p] = "files" /\ todo[p] # <<>>
      BY <1>15 DEF ReceiveFails, Types, TodoTypes
    <2>2. /\ ~ReadFails(p)
          /\ CanRead(p) => Incoming(p).action \in {"transfer_file", "transfer_end"}
      BY <1>c, <2>1, ReadingVault
    <2> QED
      BY <1>15, <1>c, <2>2 DEF ReceiveFails, Fault
  <1>16. ASSUME NEW p \in Peers, Record(p) PROVE G
    BY <1>16
  <1>17. ASSUME Complete PROVE G
    <2>1. CASE q # "init"
      <3>1. pc'[q] = pc[q] /\ todo'[q] = todo[q] /\ order' = order
        BY <1>17, <2>1 DEF Complete, Goto, Types, PcTypes, TodoTypes, Peers
      <3> QED
        BY <1>k, <3>1
    <2>2. CASE q = "init"
      <3>1. /\ pc["init"] = "receive" /\ todo["init"] = <<>> /\ pc'["init"] = "done"
            /\ order' = order
        BY <1>17, GoneTo DEF Complete, Peers
      <3>2. Recorded(q) = Len(Due(q))
        BY <1>e, <2>2, <3>1 DEF Receiving
      <3> QED
        BY <2>2, <3>1, <3>2 DEF G, Recorded, Receiving, Due
    <2> QED
      BY <2>1, <2>2
  <1>18. ASSUME StartSending PROVE G
    <2>1. CASE q # "resp"
      <3>1. pc'[q] = pc[q] /\ todo'[q] = todo[q] /\ order' = order
        BY <1>18, <2>1 DEF StartSending, Goto, Types, PcTypes, TodoTypes, Peers
      <3> QED
        BY <1>k, <3>1
    <2>2. CASE q = "resp"
      <3>1. /\ pc["resp"] = "receive" /\ todo["resp"] = <<>> /\ pc'["resp"] = "send"
            /\ order' = order
        BY <1>18, GoneTo DEF StartSending, Peers
      <3>2. Recorded(q) = Len(Due(q))
        BY <1>e, <2>2, <3>1 DEF Receiving
      <3> QED
        BY <2>2, <3>1, <3>2 DEF G, Recorded, Receiving, Due
    <2> QED
      BY <2>1, <2>2
  <1>19. ASSUME AwaitComplete PROVE G
    <2>1. CASE q # "resp"
      <3>1. pc'[q] = pc[q] /\ todo'[q] = todo[q] /\ order' = order
        BY <1>19, <2>1 DEF AwaitComplete, Goto, Types, PcTypes, TodoTypes, Peers
      <3> QED
        BY <1>k, <3>1
    <2>2. CASE q = "resp"
      <3>1. pc["resp"] = "complete" /\ pc'["resp"] = "done" /\ order' = order
        BY <1>19, GoneTo DEF AwaitComplete, Peers
      <3> QED
        BY <2>2, <3>1 DEF G, Recorded, Receiving, Due
    <2> QED
      BY <2>1, <2>2
  <1>20. ASSUME Break PROVE G
    BY <1>20, <1>k DEF Break
  <1>21. ASSUME UNCHANGED vars PROVE G
    BY <1>21, <1>k DEF vars
  <1> QED
    <2>1. G
      BY <1>1, <1>2, <1>3, <1>4, <1>5, <1>6, <1>7, <1>8, <1>9, <1>10, <1>11, <1>12,
         <1>13,
         <1>14, <1>15, <1>16, <1>17, <1>18, <1>19, <1>20, <1>21
         DEF Next, Session, Handshake, Transfer, Ending, Over
    <2> QED
      BY <2>1 DEF G

\* The other peer has an entry of a vault that a peer receives.
LEMMA CameKnown ==
    ASSUME Types, NEW q \in Peers, NEW n \in Names, Came(q, n)
    PROVE  mine[Other(q)][n] \in Entries
  <1>1. /\ mine["init"][n] \in Entries \cup {NoEntry}
        /\ mine["resp"][n] \in Entries \cup {NoEntry}
    BY DEF Types, CatTypes, Catalogues, Peers
  <1>2. Direction(mine["init"][n], mine["resp"][n], strict["init"]) = Way(q)
    BY DEF Came, InitPlan, Negotiate
  <1>3. CASE q = "init"
    <2>1. mine["resp"][n] # NoEntry
      BY <1>2, <1>3 DEF Direction, Way
    <2> QED
      BY <1>1, <1>3, <2>1 DEF Other
  <1>4. CASE q = "resp"
    <2>1. mine["init"][n] # NoEntry
      BY <1>2, <1>4 DEF Direction, Way
    <2> QED
      BY <1>1, <1>4, <2>1 DEF Other
  <1> QED
    BY <1>3, <1>4 DEF Peers

\* Recording the vault v, which it receives, a peer leaves it as it was or makes it
\* like the other peer's; the former, when nothing fails, only if the merge keeps it.
LEMMA RecordedLike ==
    ASSUME Types, TheirsInv, PlanInv, ListInv, CopiedInv, NEW p \in Peers, Record(p),
           NEW v, v = Head(todo[p])
    PROVE  /\ v \in Names /\ Receiving(p) /\ Came(p, v)
           /\ \A q \in Peers, n \in Names : cat'[q][n] = cat[q][n] \/ (q = p /\ n = v)
           /\ cat' = cat \/ Like(cat'[p][v], mine[Other(p)][v])
           /\ faults = 0 /\ faults' = 0 =>
                 Like(cat'[p][v], mine[Other(p)][v]) \/ Kept(p, v)
  <1>1. pc[p] = "record" /\ todo[p] # <<>>
    BY DEF Record, Types, TodoTypes
  <1>2. Came(p, v) /\ v \in Names /\ Receiving(p)
    BY <1>1, HeadCame DEF Receiving
  <1>3. theirs[p] = mine[Other(p)]
    BY <1>1, <1>2 DEF TheirsInv, Came, Other, Peers
  <1>4. mine[Other(p)][v] \in Entries
    BY <1>2, CameKnown
  <1>5. \/ cat' = cat
        \/ /\ cat' = [cat EXCEPT ![p][v] = Written(p)] /\ Written(p) \in Entries
           /\ Written(p).version = mine[Other(p)][v].version
           /\ Written(p).modified = mine[Other(p)][v].modified
    BY <1>3, RecordStep
  <1>6. ASSUME cat' = [cat EXCEPT ![p][v] = Written(p)] PROVE cat'[p][v] = Written(p)
    BY <1>2, <1>6 DEF Types, CatTypes, Catalogues
  <1>7. cat' = cat \/ Like(cat'[p][v], mine[Other(p)][v])
    BY <1>4, <1>5, <1>6 DEF Like
  <1>8. \A q \in Peers, n \in Names : cat'[q][n] = cat[q][n] \/ (q = p /\ n = v)
    BY <1>2, <1>5 DEF Types, CatTypes, Catalogues
  <1>9. ASSUME faults = 0, faults' = 0
        PROVE  Like(cat'[p][v], mine[Other(p)][v]) \/ Kept(p, v)
    <2>1. ~Fault
      BY <1>9 DEF Fault
    <2>2. mine[Other(p)][v] # NoEntry
      BY <1>4, StartsAssumption
    <2>3. \/ cat' = [cat EXCEPT ![p][v] = Written(p)]
          \/ cat' = cat /\ KeepsOwn(p, cat[p][v], mine[Other(p)][v])
      BY <1>3, <2>1, <2>2 DEF Record, Written
    <2>4. CASE cat' = [cat EXCEPT ![p][v] = Written(p)]
      <3>1. Written(p) \in Entries /\ Written(p).version = mine[Other(p)][v].version
            /\ Written(p).modified = mine[Other(p)][v].modified
        <4>1. cat[p][v] \in Entries \cup {NoEntry}
          BY <1>2 DEF Types, CatTypes, Catalogues
        <4>2. Written(p) = UpdatedEntry(p, cat[p][v], mine[Other(p)][v])
          BY <1>3 DEF Written
        <4> QED
          BY <1>4, <4>1, <4>2, EntryMade DEF Types
      <3> QED
        BY <1>4, <1>6, <2>4, <3>1 DEF Like
    <2>5. CASE cat' = cat /\ KeepsOwn(p, cat[p][v], mine[Other(p)][v])
      <3>1. CASE cat[p][v] = mine[p][v]
        BY <2>5, <3>1 DEF Kept
      <3>2. CASE cat[p][v] # mine[p][v]
        BY <1>2, <2>5, <3>2 DEF CopiedInv
      <3> QED
        BY <3>1, <3>2
    <2> QED
      BY <2>3, <2>4, <2>5
  <1> QED
    BY <1>2, <1>7, <1>8, <1>9

LEMMA CopiedNext ==
    ASSUME Types, StreamStates, StartInv, ChanInv, PlanInv, ListInv, TheirsInv,
           unmatched = {} => \A q \in Peers : Aligned(q), CopiedInv, [Next]_vars
    PROVE  CopiedInv'
  <1>1. mine' = mine /\ chained' = chained
    BY MineStays, GivenNext DEF given
  <1>2. ASSUME NEW q \in Peers, NEW v \in Names, cat'[q][v] # mine'[q][v]
        PROVE  Came(q, v)' /\ Like(cat'[q][v], mine[Other(q)][v])
    <2>1. cat[q][v] # mine[q][v] => Came(q, v) /\ Like(cat[q][v], mine[Other(q)][v])
      BY DEF CopiedInv
    <2>2. ASSUME NEW p \in Peers, Record(p)
          PROVE  Came(q, v) /\ Like(cat'[q][v], mine[Other(q)][v])
      <3>1. \/ cat' = cat
            \/ cat'[q][v] = cat[q][v]
            \/ q = p /\ v = Head(todo[p]) /\ Like(cat'[p][v], mine[Other(p)][v])
        BY <2>2, RecordedLike
      <3>2. Came(p, Head(todo[p]))
        BY <2>2, RecordedLike
      <3> QED
        BY <1>1, <1>2, <2>1, <3>1, <3>2
    <2>3. Came(q, v) /\ Like(cat'[q][v], mine[Other(q)][v])
      BY <1>1, <1>2, <2>1, <2>2, CatChanges
    <2> QED
      BY <2>3, CameStays
  <1> DEFINE Good(c, q, n) == Like(c[q][n], mine[Other(q)][n]) \/ Kept(q, n)
  <1>3. ASSUME Clean', NEW q \in Peers, NEW k \in 1 .. Recorded(q)'
        PROVE  Good(cat', q, Due(q)'[k])
    <2>1. Clean /\ \A r \in Peers : Aligned(r)
      BY <1>3, FailuresStay DEF Clean
    <2>2. \A j \in 1 .. Recorded(q) : Good(cat, q, Due(q)[j])
      BY <2>1 DEF CopiedInv
    <2> HIDE DEF Good
    <2>3. CASE ~\E p \in Peers : Record(p)
      <3>1. Recorded(q)' = 0 \/ (Recorded(q)' = Recorded(q) /\ order' = order)
        BY <1>3, <2>1, <2>3, RecordedStep
      <3>2. Recorded(q)' = Recorded(q) /\ Due(q)' = Due(q) /\ cat' = cat
        BY <1>3, <2>3, <3>1, CatChanges DEF Due
      <3> QED
        BY <1>3, <2>2, <3>2
    <2>4. ASSUME NEW p \in Peers, Record(p)
          PROVE  Good(cat', q, Due(q)'[k])
      <3> DEFINE h == Head(todo[p])
      <3>1. /\ h \in Names /\ Receiving(p) /\ Came(p, h)
            /\ \A r \in Peers, n \in Names : cat'[r][n] = cat[r][n] \/ (r = p /\ n = h)
            /\ Like(cat'[p][h], mine[Other(p)][h]) \/ Kept(p, h)
        BY <1>3, <2>1, <2>4, RecordedLike DEF Clean
      <3>2. Due(q)' = Due(q) /\ todo'[Other(p)] = todo[Other(p)] /\ todo'[p] = Tail(todo[p])
            /\ pc'[p] = "receive" /\ pc'[Other(p)] = pc[Other(p)] /\ order' = order
            /\ todo[p] # <<>> /\ pc[p] = "record"
        BY <2>4, TodoSet, GoneTo DEF Record, Due, Types, TodoTypes
      <3>3. CASE q = p
        <4>1. InLoop(p) /\ Loop(p) = Due(p)
          BY <3>2 DEF InLoop, Receiving, Loop
        <4>2. /\ h = Due(p)[Passed(p, Due(p)) + 1] /\ Passed(p, Due(p)) \in Nat
              /\ Passed(p, Due(p)) < Len(Due(p))
              /\ Len(Due(p)) - Len(Tail(todo[p])) = Passed(p, Due(p)) + 1
          BY <3>2, <4>1, LoopStep
        <4>3. Recorded(q) = Passed(p, Due(p)) /\ Recorded(q)' = Passed(p, Due(p)) + 1
          BY <3>2, <3>3, <4>2 DEF Recorded, Receiving, Passed
        <4>4. Planned
          BY <3>1 DEF Came
        <4>5. Due(p)[k] \in Names
          <5>1. Len(Due(p)) \in Nat
            BY DueType
          <5>2. k \in 1 .. Len(Due(p))
            BY <1>3, <4>2, <4>3, <5>1
          <5> QED
            BY <4>4, <5>2, DueMoved
        <4> HIDE DEF h
        <4>6. CASE Due(p)[k] = h
          BY <3>1, <3>2, <3>3, <4>6 DEF Good
        <4>7. CASE Due(p)[k] # h
          <5>1. k # Passed(p, Due(p)) + 1
            BY <4>2, <4>7
          <5>2. k \in 1 .. Recorded(q)
            BY <1>3, <4>2, <4>3, <5>1
          <5>3. cat'[p][Due(p)[k]] = cat[p][Due(p)[k]]
            BY <3>1, <4>5, <4>7
          <5>4. Good(cat, p, Due(p)[k])
            BY <2>2, <3>3, <5>2
          <5> QED
            BY <3>2, <3>3, <5>3, <5>4 DEF Good
        <4> QED
          BY <4>6, <4>7
      <3>4. CASE q # p
        <4>1. q = Other(p)
          BY <3>4, TwoPeers
        <4>2. Recorded(q)' = Recorded(q)
          BY <3>2, <4>1 DEF Recorded, Receiving, Passed
        <4>3. Good(cat, q, Due(q)[k])
          BY <1>3, <2>2, <4>2
        <4>4. cat'[q] = cat[q]
          BY <2>4, <3>4 DEF Record, Types, CatTypes
        <4> QED
          BY <3>2, <4>3, <4>4 DEF Good
      <3> QED
        BY <3>3, <3>4
    <2> QED
      BY <2>3, <2>4
  <1>4. \A q \in Peers, v \in Names :
           cat'[q][v] # mine'[q][v] => Came(q, v)' /\ Like(cat'[q][v], mine'[Other(q)][v])
    BY <1>1, <1>2
  <1>5. ASSUME Clean', NEW q \in Peers, NEW k \in 1 .. Recorded(q)'
        PROVE  (Like(cat[q][Due(q)[k]], mine[Other(q)][Due(q)[k]]) \/ Kept(q, Due(q)[k]))'
    BY <1>1, <1>3, <1>5 DEF Kept, KeepsOwn
  <1>6. (Clean => \A q \in Peers : \A k \in 1 .. Recorded(q) :
                     \/ Like(cat[q][Due(q)[k]], mine[Other(q)][Due(q)[k]])
                     \/ Kept(q, Due(q)[k]))'
    BY <1>5
  <1> QED
    BY <1>4, <1>6 DEF CopiedInv

-----------------------------------------------------------------------------
(* The conversation *)

LEMMA InitJInv == Init => JInv
  <1> SUFFICES ASSUME Init PROVE JInv
    OBVIOUS
  <1>1. /\ pc = [p \in Peers |-> "start"] /\ chan = [p \in Peers |-> <<>>]
        /\ stream = "none" /\ mine = cat /\ synced = {}
    BY DEF Init
  <1>2. IInv
    BY InitIInv
  <1>3. StreamStates /\ ListInv /\ TheirsInv /\ SyncedInv
    BY <1>1 DEF StreamStates, ListInv, Receiving, TheirsInv, Planned, SyncedInv, Peers
  <1>4. CopiedInv
    <2>1. \A q \in Peers : Recorded(q) = 0
      BY <1>1 DEF Recorded
    <2> QED
      BY <1>1, <2>1 DEF CopiedInv
  <1>5. ASSUME NEW q \in Peers PROVE Aligned(q)
    <2>1. ReadUpTo(q) = <<0, "hello">> /\ WrittenUpTo(q) = <<0, "hello">> /\ chan[q] = <<>>
      BY <1>1 DEF ReadUpTo, WrittenUpTo, Other, Peers
    <2>2. <<0, "hello">> \in Places
      BY DEF Places, Phases
    <2>3. Leads(Due(q), q, chan[q], <<0, "hello">>, <<0, "hello">>)
      BY <2>1, <2>2, LeadsNowhere
    <2> QED
      BY <2>1, <2>2, <2>3 DEF Aligned
  <1>6. DirInv
    <2>1. PICK t \in Starts : \E g \in [Peers -> [t.vaults -> BOOLEAN]] :
             disk = [p \in Peers |-> [n \in Names |->
                       Directory(p, n, cat[p][n], n \in t.vaults /\ g[p][n])]]
      BY DEF Init
    <2>2. PICK g \in [Peers -> [t.vaults -> BOOLEAN]] :
             disk = [p \in Peers |-> [n \in Names |->
                       Directory(p, n, cat[p][n], n \in t.vaults /\ g[p][n])]]
      BY <2>1
    <2>3. \A q \in Peers, n \in Names : disk[q][n] \in {NoVault, {<<n, q>>}}
      BY <2>2 DEF Directory
    <2> QED
      BY <2>3 DEF DirInv
  <1>7. HoldInv
    BY <1>1 DEF HoldInv
  <1>8. CatalogueBackedByFiles
    BY <1>1 DEF CatalogueBackedByFiles
  <1> QED
    BY <1>2, <1>3, <1>4, <1>5, <1>6, <1>7, <1>8 DEF JInv, StreamInv

\* The two sides of a session follow one conversation: what is on its way to a
\* peer is what that peer expects next, until the stream breaks or one of them
\* gives up, whichever vaults there are and in whatever order they are sent.
THEOREM OneConversation == Spec => []JInv
  <1>1. Init => JInv
    BY InitJInv
  <1>2. JInv /\ IInv' /\ [Next]_vars => JInv'
    <2> SUFFICES ASSUME JInv, IInv', [Next]_vars PROVE JInv'
      OBVIOUS
    <2>1. /\ Types /\ ChanInv /\ StartInv /\ PlanInv
          /\ StreamStates /\ ListInv /\ TheirsInv /\ CopiedInv /\ SyncedInv /\ StreamInv
      BY DEF JInv, IInv
    <2>2. StreamStates' /\ ListInv' /\ TheirsInv' /\ SyncedInv'
      BY <2>1, StreamStatesNext, ListNext, TheirsNext, SyncedNext
    <2>3. unmatched' = {} => unmatched = {}
      BY UnmatchedGrows
    <2>4. StreamInv'
      <3> SUFFICES ASSUME unmatched' = {}
                   PROVE  /\ \A q \in Peers : Aligned(q)'
                          /\ DirInv' /\ HoldInv' /\ CatalogueBackedByFiles'
        BY DEF StreamInv
      <3>1. /\ unmatched = {} /\ \A q \in Peers : Aligned(q)
            /\ DirInv /\ HoldInv /\ CatalogueBackedByFiles
        BY <2>1, <2>3 DEF StreamInv
      <3>2. \A q \in Peers : Aligned(q)'
        BY <2>1, <3>1, AlignedNext
      <3>3. DirInv' /\ CatalogueBackedByFiles'
        BY <2>1, <3>1, DirNext, BackedNext
      <3>4. \A q \in Peers : HoldAt(q)'
        BY <2>1, <3>1, HoldNext
      <3>5. HoldInv'
        BY <3>4 DEF HoldInv, HoldAt
      <3> QED
        BY <3>2, <3>3, <3>5
    <2>5. CopiedInv'
      BY <2>1, CopiedNext DEF StreamInv
    <2> QED
      BY <2>2, <2>4, <2>5 DEF JInv
  <1> QED
    BY <1>1, <1>2, Inductive, PTL DEF Spec

\* While neither side gives up a transfer by itself, the two sides never both wait
\* for the other one, so that no session hangs until the deadline of the stream
\* (SyncWithPeer and handleSyncStream read with no timeout of their own).
THEOREM NeverBothWait == Spec => []NoMutualWait
  <1>1. JInv => NoMutualWait
    <2> SUFFICES ASSUME JInv, unmatched = {}, Waiting("init"), Waiting("resp") PROVE FALSE
      BY DEF NoMutualWait
    <2>1. /\ Types /\ ListInv /\ \A q \in Peers : Aligned(q)
      BY DEF JInv, IInv, StreamInv
    <2>2. /\ chan["init"] = <<>> /\ chan["resp"] = <<>>
          /\ ~Severed("init") /\ ~Severed("resp")
          /\ pc["init"] \notin {"done", "failed"} /\ pc["resp"] \notin {"done", "failed"}
      BY DEF Waiting, ReadFails, Closed, Severed, Other
    <2>3. ReadUpTo("init") = WrittenUpTo("init") /\ ReadUpTo("resp") = WrittenUpTo("resp")
      <3>1. ASSUME NEW q \in Peers, chan[q] = <<>>, ~Severed(q),
                   pc[q] \notin {"done", "failed"}
            PROVE  ReadUpTo(q) = WrittenUpTo(q)
        <4>1. Leads(Due(q), q, <<>>, ReadUpTo(q), WrittenUpTo(q))
          BY <2>1, <3>1 DEF Aligned
        <4> QED
          BY <4>1, LeadsHere
      <3> QED
        BY <2>2, <3>1 DEF Peers
    <2>4. \A q \in Peers : pc[q] \in {"receive", "files"} /\ todo[q] # <<>> =>
             /\ Passed(q, Due(q)) < Len(Due(q)) /\ Passed(q, Due(q)) \in Nat
             /\ \/ ReadUpTo(q) = <<Passed(q, Due(q)), "next">>
                \/ ReadUpTo(q)[2] \in {"begun", "filed"}
      <3> SUFFICES ASSUME NEW q \in Peers, pc[q] \in {"receive", "files"}, todo[q] # <<>>
                   PROVE  /\ Passed(q, Due(q)) < Len(Due(q)) /\ Passed(q, Due(q)) \in Nat
                          /\ \/ ReadUpTo(q) = <<Passed(q, Due(q)), "next">>
                             \/ ReadUpTo(q)[2] \in {"begun", "filed"}
        OBVIOUS
      <3>1. InLoop(q) /\ Loop(q) = Due(q)
        BY DEF InLoop, Loop, Receiving
      <3> QED
        BY <2>1, <3>1, LoopStep DEF ReadUpTo
    <2>5. /\ \/ pc["init"] = "catalogue"
             \/ pc["init"] \in {"receive", "files"} /\ todo["init"] # <<>>
          /\ \/ pc["resp"] \in {"catalogue", "plan", "complete"}
             \/ pc["resp"] \in {"receive", "files"} /\ todo["resp"] # <<>>
      BY <2>1 DEF Waiting, Types, PcTypes, InitAts, TodoTypes, Peers
    <2>6. CASE pc["init"] = "catalogue"
      <3>1. ReadUpTo("init") = <<0, "hello">> /\ WrittenUpTo("resp") = <<0, "plan">>
        BY <2>6 DEF ReadUpTo, WrittenUpTo, Other
      <3>2. pc["resp"] = "catalogue"
        BY <2>3, <2>5, <3>1 DEF WrittenUpTo, Other
      <3>3. ReadUpTo("resp") = <<0, "hello">>
        BY <3>2 DEF ReadUpTo
      <3> QED
        BY <2>3, <3>1, <3>3
    <2>7. CASE pc["init"] \in {"receive", "files"} /\ todo["init"] # <<>>
      <3>1. WrittenUpTo("resp") = <<Len(Due("resp")), "next">>
        BY <2>7 DEF WrittenUpTo, Other
      <3>2. pc["resp"] # "plan" /\ pc["resp"] # "catalogue"
        BY <2>3, <3>1 DEF ReadUpTo
      <3>3. ~(pc["resp"] \in {"receive", "files"} /\ todo["resp"] # <<>>)
        BY <2>3, <2>4, <3>1 DEF Peers
      <3>4. pc["resp"] = "complete"
        BY <2>5, <3>2, <3>3
      <3>5. WrittenUpTo("init") = <<Len(Due("init")), "next">>
        BY <3>4 DEF WrittenUpTo, Other
      <3> QED
        BY <2>3, <2>4, <2>7, <3>5 DEF Peers
    <2> QED
      BY <2>5, <2>6, <2>7
  <1> QED
    BY <1>1, OneConversation, PTL

\* While neither side gives up a transfer by itself, the files of one vault never
\* end up in the directory of another: receiveVault does not compare the vault of
\* a transfer_begin, but the vault it is at is the one that was sent.
THEOREM VaultsStayApart == Spec => []VaultsNotMixed
  <1>1. JInv => VaultsNotMixed
    <2> SUFFICES ASSUME JInv, unmatched = {}, NEW p \in Peers, NEW n \in Names
                 PROVE  FilesOf(disk[p][n], n)
      BY DEF VaultsNotMixed
    <2>1. disk[p][n] \in {NoVault, {<<n, p>>}, {}, {<<n, Other(p)>>}}
      BY DEF JInv, StreamInv, DirInv, Copy
    <2> QED
      BY <2>1 DEF FilesOf
  <1> QED
    BY <1>1, OneConversation, PTL

\* While neither side gives up a transfer by itself, an entry taken from the other
\* side stands for the files of the other side, wherever the session stopped
\* (updateCatalogueAfterReceive runs after the commit, and only then).
THEOREM EntriesBacked == Spec => []CatalogueBackedByFiles
  <1>1. JInv => CatalogueBackedByFiles
    BY DEF JInv, StreamInv, CatalogueBackedByFiles
  <1> QED
    BY <1>1, OneConversation, PTL

\* Entries of one version have nothing to transfer.
LEMMA SameVersionSkips ==
    ASSUME NEW a, NEW b, Like(a, b), NEW s \in BOOLEAN
    PROVE  Direction(a, b, s) = "skip" /\ Direction(b, a, s) = "skip"
  <1>1. a # NoEntry /\ b # NoEntry /\ a.version \in Int /\ a.version = b.version
    BY StartsAssumption DEF Like
  <1>2. ~(a.version > b.version) /\ ~(b.version > a.version)
    BY <1>1
  <1> QED
    BY <1>1, <1>2 DEF Direction, compareEntries

\* A session in which nothing failed leaves nothing to transfer: negotiating the
\* catalogues it leaves plans no automatic transfer, on either side, whatever the
\* modes of the two were and with or without a chain; but for a vault that a peer
\* without a chain received although its own entry, of a lower version, was the
\* later one by time, which StoreAppState's merge may keep.
THEOREM SecondSyncFindsNothing == Spec => []SecondSyncIsIdle
  <1>1. JInv => SecondSyncIsIdle
    <2> SUFFICES ASSUME JInv, synced = Peers, stream = "open", faults = 0, unmatched = {},
                        NEW n \in Names,
                        \A q \in Peers : ~(Received(q, n) /\ Kept(q, n)),
                        NEW p \in Peers
                 PROVE  Direction(cat["init"][n], cat["resp"][n], strict[p]) = "skip"
      BY DEF SecondSyncIsIdle, Kept
    <2>1. /\ Types /\ PlanInv /\ CopiedInv /\ pc["init"] = "done" /\ pc["resp"] = "done"
      BY DEF JInv, IInv, SyncedInv, Peers
    <2>2. Accepted /\ Planned /\ VerifyPlanConsistency(InitPlan, RespPlan)
      BY <2>1 DEF Accepted, PlanInv
    <2>3. Clean /\ \A q \in Peers : Recorded(q) = Len(Due(q))
      BY <2>1 DEF Clean, Recorded, Receiving, Peers
    <2>4. strict[p] \in BOOLEAN /\ strict["init"] \in BOOLEAN /\ strict["resp"] \in BOOLEAN
      BY <2>1 DEF Types, GivenTypes, Peers
    <2>5. \A q \in Peers : cat[q][n] # mine[q][n] => InitPlan.auto[n] = Way(q)
      BY <2>1 DEF CopiedInv, Came
    <2>6. CASE InitPlan.auto[n] # "skip"
      <3>1. PICK q \in Peers : InitPlan.auto[n] = Way(q)
        <4>1. InitPlan.auto[n] \in {"push", "pull", "skip"}
          BY NegotiateType DEF InitPlan, Plans
        <4> QED
          BY <2>6, <4>1 DEF Way, Peers
      <3>2. PICK i \in 1 .. Len(Due(q)) : Due(q)[i] = n
        BY <2>1, <2>2, <3>1, DueMoved
      <3>3. Like(cat[q][n], mine[Other(q)][n]) \/ Kept(q, n)
        BY <2>1, <2>3, <3>2 DEF CopiedInv
      <3>4. cat[Other(q)][n] = mine[Other(q)][n]
        BY <2>5, <3>1 DEF Way, Other, Peers
      <3>5. Received(q, n)
        <4>1. plan["init"] = InitPlan
          BY <2>1, <2>2 DEF PlanInv
        <4> QED
          BY <3>1, <4>1 DEF Received, Way, Peers
      <3>6. Like(cat[q][n], cat[Other(q)][n])
        BY <3>3, <3>4, <3>5
      <3> QED
        BY <2>4, <3>6, SameVersionSkips DEF Other, Peers
    <2>7. CASE InitPlan.auto[n] = "skip"
      <3>1. cat["init"][n] = mine["init"][n] /\ cat["resp"][n] = mine["resp"][n]
        BY <2>5, <2>7 DEF Way, Peers
      <3>2. Direction(mine["init"][n], mine["resp"][n], strict["init"]) = "skip"
        BY <2>7 DEF InitPlan, Negotiate
      <3>3. Direction(mine["resp"][n], mine["init"][n], strict["resp"]) = "skip"
        BY <2>2, <2>7 DEF VerifyPlanConsistency, RespPlan, Negotiate
      <3>4. IsEntry(mine["init"][n]) /\ IsEntry(mine["resp"][n])
        <4>1. /\ mine["init"][n] \in Entries \cup {NoEntry}
              /\ mine["resp"][n] \in Entries \cup {NoEntry}
          BY <2>1 DEF Types, CatTypes, Catalogues, Peers
        <4> QED
          BY <4>1, StartsAssumption DEF IsEntry
      <3>5. flipDirection(Direction(mine["init"][n], mine["resp"][n], strict["resp"])) =
               "skip"
        BY <2>4, <3>3, <3>4, DirectionMirrors
      <3>6. Direction(mine["init"][n], mine["resp"][n], strict["resp"]) = "skip"
        BY <3>5 DEF flipDirection
      <3> QED
        BY <3>1, <3>2, <3>6 DEF Peers
    <2> QED
      BY <2>6, <2>7
  <1> QED
    BY <1>1, OneConversation, PTL
================================================================================
