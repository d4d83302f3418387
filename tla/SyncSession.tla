------------------------------ MODULE SyncSession ------------------------------
(***************************************************************************)
(* One sync session between two paired peers, message by message:          *)
(* SyncWithPeer of the initiator, handleSyncStream of the responder, and   *)
(* sendVault, receiveVault and updateCatalogueAfterReceive on both sides   *)
(* (internal/sync/service.go).                                             *)
(*                                                                         *)
(* The content of a vault directory is a set of tags <<vault, peer>>: the  *)
(* files of that vault as that peer had them.  The files of one vault      *)
(* travel as one transfer_file.  CommitStaging is atomic here; its steps   *)
(* are in VaultTransfer.  The catalogue is the chain of the                *)
(* CatalogueManager or, for a service without one, usm.json.  The stream   *)
(* delivers in order; it may break at any moment (a reset, a peer that     *)
(* died, the five minute deadline).                                        *)
(***************************************************************************)
EXTENDS Negotiation, Sequences, SequencesExt

CONSTANTS
    Entries,        \* the catalogue entries there are
    NoVault,        \* there is no directory for the vault
    Starts,         \* what the two peers may start from
    MaxFaults       \* bound: files not read or written, catalogues not written

\* The entry e as a peer writes it down that keeps its own ChainCS, sum.
Copied(e, sum) ==
    [version |-> e.version, modified |-> e.modified, chainCS |-> sum,
     keyFingerprint |-> e.keyFingerprint, itemCount |-> e.itemCount]

\* The vaults in the catalogues and the entries they may have; the pairs of
\* modes <<initiator strict, responder strict>> and of <<initiator chained,
\* responder chained>>; whether a deleted vault may still be in a catalogue;
\* whether the stream may break and calls may fail.  NoEntry is no entry, and
\* NoVault none of the contents that a vault directory can have.
ASSUME StartsAssumption ==
    /\ MaxFaults \in Nat /\ IsFiniteSet(Names)
    /\ \A files \in SUBSET (Names \X {"init", "resp"}) : files # NoVault
    /\ NoEntry \notin Entries
    /\ \A e \in Entries : e.version \in Int /\ e.modified \in Int
    /\ \A e \in Entries : \A sum \in {NoSum} \cup {o.chainCS : o \in Entries} :
          Copied(e, sum) \in Entries
    /\ \A s \in Starts :
          /\ s.vaults \subseteq Names /\ s.entries \subseteq Entries
          /\ s.modes \subseteq BOOLEAN \X BOOLEAN
          /\ s.chains \subseteq BOOLEAN \X BOOLEAN
          /\ s.ghosts \in BOOLEAN /\ s.fallible \in BOOLEAN

Peers == {"init", "resp"}
Other(p) == IF p = "init" THEN "resp" ELSE "init"

VARIABLES
    cat,     \* the catalogue of each peer
    disk,    \* the vault directories of each peer
    strict,  \* whether the peer runs in Strict mode
    chained, \* whether the peer's service has a CatalogueManager
    trusts,  \* whether the peer has the other one in its trust store
    fallible,  \* whether anything may fail in this session
    pc,      \* where each peer is
    chan,    \* chan[p]: the messages on their way to p
    stream,  \* "none", "open" or "broken"
    mine,    \* the catalogue each peer loaded for this session
    theirs,  \* the catalogue it received
    plan,    \* the plan the peer follows: a record of Negotiate
    order,   \* the order of plan.Auto, a list for each direction
    todo,    \* todo[p]: what is left of the loop p is in
    staged,  \* the files of the receiveVault p is in
    synced,  \* the peers that recorded a completed session
    locked,  \* whether the responder's window is locked
    faults,  \* calls that failed so far
    had,     \* history: the vault directories when the session began
    unmatched  \* history: the vaults of which one side gave up the transfer by
               \* itself, so that the messages of the other side have no match

\* What stays as it is for the whole session.
given == <<strict, chained, trusts, fallible, had>>

vars == <<cat, disk, given, pc, chan, stream, mine, theirs, plan, order,
          todo, staged, synced, locked, faults, unmatched>>

Tags == Names \X Peers
NoPlan == [auto |-> [n \in Names |-> "skip"], conflicts |-> {}]
NoCatalogue == [n \in Names |-> NoEntry]
Catalogues == [Names -> Entries \cup {NoEntry}]
Disks == [Names -> (SUBSET Tags) \cup {NoVault}]

\* Negotiate ranges over Go maps, so that plan.Auto comes in any order: the
\* pushes in it in any order, and the pulls.
Orders(S) == UNION {SetToSeqs(T) : T \in SUBSET S}
Lists(pl) == {o \in [{"push", "pull"} -> Orders(Names)] :
                 \A dir \in {"push", "pull"} :
                    o[dir] \in SetToSeqs({n \in Names : pl.auto[n] = dir})}

Messages ==
    [action : {"catalogue"}, body : Catalogues]
    \cup [action : {"sync_plan"}, body : [auto : [Names -> {"push", "pull", "skip"}],
                                        conflicts : SUBSET Names],
          order : [{"push", "pull"} -> Orders(Names)]]
    \cup [action : {"transfer_begin", "transfer_end"}, vault : Names]
    \cup [action : {"transfer_file"}, vault : Names, files : SUBSET Tags]
    \cup [action : {"sync_complete"}]

TypeOK ==
    /\ cat \in [Peers -> Catalogues] /\ disk \in [Peers -> Disks]
    /\ strict \in [Peers -> BOOLEAN] /\ chained \in [Peers -> BOOLEAN]
    /\ trusts \in [Peers -> BOOLEAN] /\ fallible \in BOOLEAN
    /\ pc["init"] \in {"start", "catalogue", "send", "receive", "files", "record",
                       "done", "failed"}
    /\ pc["resp"] \in {"start", "catalogue", "plan", "receive", "files", "record",
                       "send", "complete", "done", "failed"}
    /\ stream \in {"none", "open", "broken"}
    /\ \A p \in Peers : \A i \in 1 .. Len(chan[p]) : chan[p][i] \in Messages
    /\ mine \in [Peers -> Catalogues] /\ theirs \in [Peers -> Catalogues]
    /\ \A p \in Peers : /\ Range(todo[p]) \subseteq Names
                        /\ staged[p] \subseteq Tags
    /\ synced \subseteq Peers /\ locked \in BOOLEAN
    /\ faults \in 0 .. MaxFaults /\ unmatched \subseteq Names

\* A vault in the catalogue has its directory, unless DeleteVault removed it:
\* DeleteVault does not touch the catalogue.
Directory(p, n, e, ghost) == IF e = NoEntry \/ ghost THEN NoVault ELSE {<<n, p>>}

Init ==
    /\ \E s \in Starts :
          /\ \E c \in [Peers -> [s.vaults -> s.entries \cup {NoEntry}]] :
                cat = [p \in Peers |->
                         [n \in Names |-> IF n \in s.vaults THEN c[p][n] ELSE NoEntry]]
          /\ \E g \in [Peers -> [s.vaults -> BOOLEAN]] :
                /\ \A p \in Peers, n \in s.vaults :
                      g[p][n] => s.ghosts /\ cat[p][n] # NoEntry
                /\ disk = [p \in Peers |-> [n \in Names |->
                             Directory(p, n, cat[p][n], n \in s.vaults /\ g[p][n])]]
          /\ \E m \in s.modes :
                strict = [p \in Peers |-> IF p = "init" THEN m[1] ELSE m[2]]
          /\ \E c \in s.chains :
                chained = [p \in Peers |-> IF p = "init" THEN c[1] ELSE c[2]]
          /\ fallible = s.fallible
    /\ trusts \in [Peers -> BOOLEAN] /\ had = disk
    /\ pc = [p \in Peers |-> "start"]
    /\ chan = [p \in Peers |-> <<>>] /\ stream = "none"
    /\ mine = cat /\ theirs = [p \in Peers |-> NoCatalogue]
    /\ plan = [p \in Peers |-> NoPlan] /\ order \in Lists(NoPlan)
    /\ todo = [p \in Peers |-> <<>>] /\ staged = [p \in Peers |-> {}]
    /\ synced = {} /\ locked = FALSE /\ faults = 0 /\ unmatched = {}

--------------------------------------------------------------------------------
(* The stream *)

\* dec.Decode returns a message, or an error once the stream is broken or the
\* other side has closed it and everything was read.
Closed(p) == pc[Other(p)] \in {"done", "failed"}
CanRead(p) == chan[p] # <<>>
ReadFails(p) == stream = "broken" \/ (Closed(p) /\ chan[p] = <<>>)
Incoming(p) == Head(chan[p])
\* The error of a json.Decoder is final: nothing is read after it.
Drop(p) == [chan EXCEPT ![p] = <<>>]
Consume(p) == [chan EXCEPT ![p] = Tail(@)]

\* enc.Encode fails on a broken stream; what is written to a peer that has
\* already returned is never read.
CanWrite == stream = "open"
Sent(c, p, ms) == [c EXCEPT ![Other(p)] = @ \o ms]

Goto(p, l) == pc' = [pc EXCEPT ![p] = l]

\* Mutant of Fail: the callback that unlocks the window is not deferred.
FailLocked(p) ==
    /\ Goto(p, "failed")
    /\ UNCHANGED <<cat, disk, given, chan, stream, mine, theirs, plan, order,
                   todo, staged, synced, locked, faults, unmatched>>

\* Return with an error; the deferred calls close the stream and, on the
\* responder, unlock the window.
Fail(p) ==
    /\ Goto(p, "failed")
    /\ locked' = (locked /\ p # "resp")
    /\ UNCHANGED <<cat, disk, given, chan, stream, mine, theirs, plan, order,
                   todo, staged, synced, faults, unmatched>>

\* The connection is reset, or the deadline both sides set passes.
Break ==
    /\ fallible /\ stream = "open"
    /\ stream' = "broken"
    /\ UNCHANGED <<cat, disk, given, pc, chan, mine, theirs, plan, order,
                   todo, staged, synced, locked, faults, unmatched>>

\* One more call to the file system fails.
Fault == fallible /\ faults < MaxFaults /\ faults' = faults + 1

--------------------------------------------------------------------------------
(* Catalogues and plan *)

\* SyncWithPeer up to the first message.
Open ==
    /\ pc["init"] = "start" /\ trusts["init"]
    /\ stream' = "open" /\ Goto("init", "catalogue")
    /\ mine' = [mine EXCEPT !["init"] = cat["init"]]
    /\ chan' = Sent(chan, "init", <<[action |-> "catalogue", body |-> cat["init"]]>>)
    /\ UNCHANGED <<cat, disk, given, theirs, plan, order, todo, staged,
                   synced, locked, faults, unmatched>>

\* The peer is not trusted, or no stream can be opened.
OpenFails == pc["init"] = "start" /\ (~trusts["init"] \/ fallible) /\ Fail("init")

\* handleSyncStream: the trust check, then the callback that locks the window.
Accept ==
    /\ pc["resp"] = "start" /\ stream # "none" /\ trusts["resp"]
    /\ Goto("resp", "catalogue") /\ locked' = TRUE
    /\ UNCHANGED <<cat, disk, given, chan, stream, mine, theirs, plan, order,
                   todo, staged, synced, faults, unmatched>>

Reject ==
    /\ pc["resp"] = "start" /\ stream # "none" /\ ~trusts["resp"]
    /\ Fail("resp")

\* The responder reads the catalogue, answers with its own and plans.
AnswerCatalogue ==
    /\ pc["resp"] = "catalogue" /\ CanRead("resp") /\ CanWrite
    /\ Incoming("resp").action = "catalogue"
    /\ theirs' = [theirs EXCEPT !["resp"] = Incoming("resp").body]
    /\ mine' = [mine EXCEPT !["resp"] = cat["resp"]]
    /\ chan' = Sent(Consume("resp"), "resp",
                    <<[action |-> "catalogue", body |-> cat["resp"]]>>)
    /\ plan' = [plan EXCEPT !["resp"] =
                    Negotiate(cat["resp"], Incoming("resp").body, strict["resp"])]
    /\ Goto("resp", "plan")
    /\ UNCHANGED <<cat, disk, given, stream, order, todo, staged, synced,
                   locked, faults, unmatched>>

\* Mutant of SendPlan: the pulls come first.
SendPlanPullFirst ==
    /\ pc["init"] = "catalogue" /\ CanRead("init") /\ CanWrite
    /\ theirs' = [theirs EXCEPT !["init"] = Incoming("init").body]
    /\ LET pl == Negotiate(mine["init"], Incoming("init").body, strict["init"])
       IN \E o \in Lists(pl) :
             /\ plan' = [plan EXCEPT !["init"] = pl] /\ order' = o
             /\ chan' = Sent(Consume("init"), "init",
                             <<[action |-> "sync_plan", body |-> pl, order |-> o]>>)
             /\ todo' = [todo EXCEPT !["init"] = o["pull"]]
    /\ Goto("init", "receive")
    /\ UNCHANGED <<cat, disk, given, stream, mine, staged, synced, locked, faults, unmatched>>

\* The initiator reads the answer, plans and sends its plan.
SendPlan ==
    /\ pc["init"] = "catalogue" /\ CanRead("init") /\ CanWrite
    /\ Incoming("init").action = "catalogue"
    /\ theirs' = [theirs EXCEPT !["init"] = Incoming("init").body]
    /\ LET pl == Negotiate(mine["init"], Incoming("init").body, strict["init"])
       IN \E o \in Lists(pl) :
             /\ plan' = [plan EXCEPT !["init"] = pl] /\ order' = o
             /\ chan' = Sent(Consume("init"), "init",
                             <<[action |-> "sync_plan", body |-> pl, order |-> o]>>)
             /\ todo' = [todo EXCEPT !["init"] = o["push"]]
    /\ Goto("init", "send")
    /\ UNCHANGED <<cat, disk, given, stream, mine, staged, synced, locked, faults, unmatched>>

\* The responder reads a plan and takes it over.
FollowPlan ==
    /\ pc["resp"] = "plan" /\ CanRead("resp")
    /\ Incoming("resp").action = "sync_plan"
    /\ chan' = Consume("resp")
    /\ plan' = [plan EXCEPT !["resp"] = Incoming("resp").body]
    /\ Goto("resp", "receive")
    /\ UNCHANGED <<cat, disk, given, stream, mine, theirs, order, staged,
                   synced, locked, faults, unmatched>>

\* Mutants of AcceptPlan: without VerifyPlanConsistency; in the order of the
\* responder's own plan.
AcceptPlanUnverified ==
    /\ FollowPlan
    /\ todo' = [todo EXCEPT !["resp"] = Incoming("resp").order["push"]]
AcceptPlanOwnOrder ==
    /\ FollowPlan
    /\ VerifyPlanConsistency(Incoming("resp").body, plan["resp"])
    /\ \E o \in SetToSeqs({n \in Names : plan["resp"].auto[n] = "pull"}) :
          todo' = [todo EXCEPT !["resp"] = o]

\* The responder follows the initiator's plan, in the order of its list, once
\* it agrees with its own.
AcceptPlan ==
    /\ FollowPlan
    /\ VerifyPlanConsistency(Incoming("resp").body, plan["resp"])
    /\ todo' = [todo EXCEPT !["resp"] = Incoming("resp").order["push"]]

RefusePlan ==
    /\ pc["resp"] = "plan" /\ CanRead("resp")
    /\ Incoming("resp").action = "sync_plan"
    /\ ~VerifyPlanConsistency(Incoming("resp").body, plan["resp"])
    /\ Fail("resp")

\* A read or a write of this phase fails on either side.
HandshakeFails(p) ==
    /\ pc[p] \in {"catalogue", "plan"}
    /\ ReadFails(p) \/ (CanRead(p) /\ ~CanWrite)
    /\ Fail(p)

--------------------------------------------------------------------------------
(* Transfers *)

Begin(n) == [action |-> "transfer_begin", vault |-> n]
File(n, fs) == [action |-> "transfer_file", vault |-> n, files |-> fs]
End(n) == [action |-> "transfer_end", vault |-> n]

Whole(n, fs) == <<Begin(n)>> \o (IF fs = {} THEN <<>> ELSE <<File(n, fs)>>) \o <<End(n)>>

\* sendVault, in the loop of either side; its error is recorded and the loop
\* goes on.  Without a directory nothing is sent; a file that cannot be read
\* ends it between transfer_begin and transfer_end.
SendVault(p) ==
    /\ pc[p] = "send" /\ todo[p] # <<>>
    /\ LET n == Head(todo[p])
           fs == disk[p][n]
       IN \/ /\ ~CanWrite
             /\ UNCHANGED <<chan, faults, unmatched>>
          \/ /\ CanWrite /\ fs = NoVault
             /\ unmatched' = unmatched \cup {n} /\ UNCHANGED <<chan, faults>>
          \/ /\ CanWrite /\ fs # NoVault
             /\ chan' = Sent(chan, p, Whole(n, fs)) /\ UNCHANGED <<faults, unmatched>>
          \/ /\ CanWrite /\ fs # NoVault /\ Fault
             /\ unmatched' = unmatched \cup {n}
             /\ chan' = Sent(chan, p, <<Begin(n)>>)
    /\ todo' = [todo EXCEPT ![p] = Tail(@)]
    /\ UNCHANGED <<cat, disk, given, pc, stream, mine, theirs, plan, order,
                   staged, synced, locked>>

\* The loop is over: the initiator goes on to its pulls, the responder waits
\* for sync_complete.
SendDone(p) ==
    /\ pc[p] = "send" /\ todo[p] = <<>>
    /\ IF p = "init"
         THEN /\ Goto(p, "receive")
              /\ todo' = [todo EXCEPT ![p] = order["pull"]]
         ELSE Goto(p, "complete") /\ UNCHANGED todo
    /\ UNCHANGED <<cat, disk, given, chan, stream, mine, theirs, plan, order,
                   staged, synced, locked, faults, unmatched>>

\* receiveVault of the next vault of the loop: MkdirAll, PrepareStaging, and
\* the first message, whichever vault it names.  When the directory cannot be
\* prepared nothing is read: the messages of this vault stay in the stream.
ReceiveBegin(p) ==
    /\ pc[p] = "receive" /\ todo[p] # <<>>
    /\ LET n == Head(todo[p])
       IN /\ disk' = [disk EXCEPT ![p][n] = IF @ = NoVault THEN {} ELSE @]
          /\ \/ /\ CanRead(p) /\ Incoming(p).action = "transfer_begin"
                /\ chan' = Consume(p) /\ Goto(p, "files")
                /\ UNCHANGED <<todo, faults, unmatched>>
             \/ /\ \/ /\ CanRead(p) /\ Incoming(p).action # "transfer_begin"
                      /\ chan' = Consume(p) /\ UNCHANGED <<faults, unmatched>>
                   \/ ReadFails(p) /\ chan' = Drop(p) /\ UNCHANGED <<faults, unmatched>>
                   \/ Fault /\ unmatched' = unmatched \cup {n} /\ UNCHANGED chan
                /\ todo' = [todo EXCEPT ![p] = Tail(@)] /\ UNCHANGED pc
    /\ staged' = [staged EXCEPT ![p] = {}]
    /\ UNCHANGED <<cat, given, stream, mine, theirs, plan, order, synced, locked>>

\* transfer_file, whichever vault it names.
ReceiveFile(p) ==
    /\ pc[p] = "files" /\ CanRead(p) /\ Incoming(p).action = "transfer_file"
    /\ staged' = [staged EXCEPT ![p] = @ \cup Incoming(p).files]
    /\ chan' = Consume(p)
    /\ UNCHANGED <<cat, disk, given, pc, stream, mine, theirs, plan, order,
                   todo, synced, locked, faults, unmatched>>

\* transfer_end: CommitStaging makes the staged files the vault.
ReceiveEnd(p) ==
    /\ pc[p] = "files" /\ CanRead(p) /\ Incoming(p).action = "transfer_end"
    /\ disk' = [disk EXCEPT ![p][Head(todo[p])] = staged[p]]
    /\ chan' = Consume(p) /\ Goto(p, "record")
    /\ UNCHANGED <<cat, given, stream, mine, theirs, plan, order, todo, staged,
                   synced, locked, faults, unmatched>>

\* Mutant of ReceiveFails: the error does not skip the catalogue update.
ReceiveFailsRecords(p) ==
    /\ pc[p] = "files" /\ ReadFails(p)
    /\ chan' = Drop(p) /\ staged' = [staged EXCEPT ![p] = {}] /\ Goto(p, "record")
    /\ UNCHANGED <<cat, disk, given, stream, mine, theirs, plan, order, todo, synced,
                   locked, faults, unmatched>>

\* Any other message, or none, or a file that cannot be written, or a
\* CommitStaging that fails and restores the old files: the loop goes on with
\* the next vault.
ReceiveFails(p) ==
    /\ pc[p] = "files"
    /\ \/ /\ CanRead(p)
          /\ Incoming(p).action \notin {"transfer_file", "transfer_end"}
          /\ chan' = Consume(p) /\ UNCHANGED <<faults, unmatched>>
       \/ ReadFails(p) /\ chan' = Drop(p) /\ UNCHANGED <<faults, unmatched>>
       \/ /\ CanRead(p) /\ Incoming(p).action = "transfer_file" /\ Fault
          /\ chan' = Consume(p) /\ unmatched' = unmatched \cup {Head(todo[p])}
       \/ /\ CanRead(p) /\ Incoming(p).action = "transfer_end" /\ Fault
          /\ chan' = Consume(p) /\ UNCHANGED unmatched
    /\ staged' = [staged EXCEPT ![p] = {}]
    /\ todo' = [todo EXCEPT ![p] = Tail(@)] /\ Goto(p, "receive")
    /\ UNCHANGED <<cat, disk, given, stream, mine, theirs, plan, order, synced,
                   locked>>

\* The entry updateCatalogueAfterReceive makes of e, that of the sender, beside
\* its own: a service without a CatalogueManager leaves ChainCS alone.
UpdatedEntry(p, own, e) ==
    IF chained[p] THEN e
    ELSE Copied(e, IF own = NoEntry THEN NoSum ELSE own.chainCS)

\* StoreAppState, which such a service stores with, merges by time and may keep
\* the entry of usm.json instead: Created and LastUnlocked stay what they were,
\* so it does when its Modified is later than that of e and than those two,
\* which are not modelled.
KeepsOwn(p, own, e) == ~chained[p] /\ own # NoEntry /\ own.modified > e.modified

\* Mutant of Record: the catalogue is not updated.
RecordNothing(p) ==
    /\ pc[p] = "record"
    /\ todo' = [todo EXCEPT ![p] = Tail(@)] /\ Goto(p, "receive")
    /\ UNCHANGED <<cat, disk, given, chan, stream, mine, theirs, plan, order, staged,
                   synced, locked, faults, unmatched>>

\* updateCatalogueAfterReceive, whose error is only reported.
Record(p) ==
    /\ pc[p] = "record"
    /\ LET n == Head(todo[p])
           own == cat[p][n]
           e == theirs[p][n]
       IN \/ /\ e # NoEntry
             /\ cat' = [cat EXCEPT ![p][n] = UpdatedEntry(p, own, e)]
             /\ UNCHANGED faults
          \/ (e = NoEntry \/ KeepsOwn(p, own, e)) /\ UNCHANGED <<cat, faults>>
          \/ Fault /\ UNCHANGED cat
    /\ todo' = [todo EXCEPT ![p] = Tail(@)] /\ Goto(p, "receive")
    /\ UNCHANGED <<disk, given, chan, stream, mine, theirs, plan, order, staged,
                   synced, locked, unmatched>>

\* The initiator sends sync_complete and returns ...
Complete ==
    /\ pc["init"] = "receive" /\ todo["init"] = <<>>
    /\ chan' = IF CanWrite THEN Sent(chan, "init", <<[action |-> "sync_complete"]>>)
               ELSE chan
    /\ synced' = synced \cup {"init"} /\ Goto("init", "done")
    /\ UNCHANGED <<cat, disk, given, stream, mine, theirs, plan, order, todo,
                   staged, locked, faults, unmatched>>

\* ... the responder goes on to the vaults the initiator pulls ...
StartSending ==
    /\ pc["resp"] = "receive" /\ todo["resp"] = <<>>
    /\ todo' = [todo EXCEPT !["resp"] = order["pull"]]
    /\ Goto("resp", "send")
    /\ UNCHANGED <<cat, disk, given, chan, stream, mine, theirs, plan, order,
                   staged, synced, locked, faults, unmatched>>

\* ... and takes whatever it reads last, or an error, for the end.
AwaitComplete ==
    /\ pc["resp"] = "complete"
    /\ \/ CanRead("resp") /\ chan' = Consume("resp")
       \/ ReadFails("resp") /\ chan' = Drop("resp")
    /\ synced' = synced \cup {"resp"} /\ locked' = FALSE /\ Goto("resp", "done")
    /\ UNCHANGED <<cat, disk, given, stream, mine, theirs, plan, order, todo,
                   staged, faults, unmatched>>

--------------------------------------------------------------------------------
Handshake ==
    \/ Accept \/ Reject \/ AnswerCatalogue \/ SendPlan \/ AcceptPlan \/ RefusePlan
    \/ \E p \in Peers : HandshakeFails(p)
Transfer(p) ==
    \/ SendVault(p) \/ SendDone(p) \/ ReceiveBegin(p) \/ ReceiveFile(p)
    \/ ReceiveEnd(p) \/ ReceiveFails(p) \/ Record(p)
Ending == Complete \/ StartSending \/ AwaitComplete

\* The goroutines of the two sides.
Session == Handshake \/ (\E p \in Peers : Transfer(p)) \/ Ending

Ended == \A p \in Peers : pc[p] \in {"done", "failed"}

\* Nothing more happens: the session is over or was never opened.
Over == (Ended \/ (pc["init"] = "failed" /\ stream = "none")) /\ UNCHANGED vars

Next == Open \/ OpenFails \/ Session \/ Break \/ Over

Spec == Init /\ [][Next]_vars

\* Go schedules both goroutines, and the deadline of the stream always passes.
FairSpec == Spec /\ WF_vars(Session) /\ WF_vars(Break)

--------------------------------------------------------------------------------
(* Properties *)

\* Two peers in the same mode never refuse each other: the plan the initiator
\* sends always passes the responder's VerifyPlanConsistency, though each side
\* computed its own from its own side of the exchange.
HonestPlanAccepted ==
    /\ pc["resp"] = "plan" /\ chan["resp"] # <<>>
    /\ Incoming("resp").action = "sync_plan" /\ strict["init"] = strict["resp"]
    => VerifyPlanConsistency(Incoming("resp").body, plan["resp"])

\* If either side is in Strict mode, no vault both sides know under different
\* keys is moved, in whichever direction and whoever started the session: both
\* keep their entry and their files.  (A relaxed initiator that asks for a vault
\* whose directory is gone makes it, empty, before the responder's answer.)
RekeyedVaultStays ==
    \A n \in Names :
       /\ strict["init"] \/ strict["resp"]
       /\ mine["init"][n] # NoEntry /\ mine["resp"][n] # NoEntry
       /\ fingerprintMismatch(mine["init"][n], mine["resp"][n])
       => \A p \in Peers : /\ cat[p][n] = mine[p][n]
                            /\ \/ disk[p][n] = had[p][n]
                               \/ had[p][n] = NoVault /\ disk[p][n] = {}

\* d holds files of the vault n only.
FilesOf(d, n) == d = NoVault \/ \A t \in d : t[1] = n

\* While neither side gives up a transfer by itself, the files of one vault never
\* end up in the directory of another, wherever the stream breaks and whichever
\* commit or catalogue update fails.  (With a vault whose directory is gone while
\* its entry stayed it is false: transfer_begin's vault is not compared.)
VaultsNotMixed == unmatched = {} => \A p \in Peers, n \in Names : FilesOf(disk[p][n], n)

\* A catalogue never runs ahead of the disk: an entry taken from the other side
\* stands for the files of the other side.  (The reverse, new files under the
\* old entry, is what a failing catalogue update leaves.)
CatalogueBackedByFiles ==
    \A p \in Peers, n \in Names :
       unmatched = {} /\ cat[p][n] # mine[p][n] => disk[p][n] = {<<n, Other(p)>>}

\* After a session in which nothing failed there is nothing left to transfer:
\* negotiating again finds no automatic transfer, in whatever mode and with or
\* without a chain on either side.  The exception is a vault that a peer without
\* a chain received although its own entry, older by version, is the later one by
\* time: the merge may keep that entry beside the new files, and the next session
\* sends the vault again.
Received(p, n) ==
    plan["init"].auto[n] = (IF p = "init" THEN "pull" ELSE "push")
SecondSyncIsIdle ==
    synced = Peers /\ stream = "open" /\ faults = 0 /\ unmatched = {}
    => \A n \in Names :
          \/ \E p \in Peers :
                Received(p, n) /\ KeepsOwn(p, mine[p][n], mine[Other(p)][n])
          \/ \A p \in Peers :
                Direction(cat["init"][n], cat["resp"][n], strict[p]) = "skip"

\* While neither side gives up a transfer by itself, the two sides never both
\* wait for the other one (and so for the deadline).
Waiting(p) ==
    /\ \/ pc[p] \in {"catalogue", "plan", "files", "complete"}
       \/ pc[p] = "receive" /\ todo[p] # <<>>
    /\ chan[p] = <<>> /\ ~ReadFails(p)
NoMutualWait == unmatched = {} => ~(Waiting("init") /\ Waiting("resp"))

\* Every session ends on both sides and the responder's window, which the user
\* cannot unlock, is unlocked.
SessionEnds == stream # "none" ~> Ended /\ ~locked
================================================================================
