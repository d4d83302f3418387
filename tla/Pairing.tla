------------------------------ MODULE Pairing ------------------------------
(***************************************************************************)
(* Pairing two devices, and what they remember of it: the exchange of      *)
(* InitiatePairing and handlePairStream (sync/service.go), the trust store *)
(* and its file (sync/truststore.go), the list of discovered peers fed by  *)
(* mDNS callbacks (sync/discovery.go) and the buttons of the discovery     *)
(* view (ui/discovery.go).  Several pairings may run at once, in both      *)
(* directions; streams break, writes fail and programs are restarted.      *)
(***************************************************************************)
EXTENDS Naturals, FiniteSets

CONSTANTS Devices,      \* the two devices
          MaxPairings,  \* bound: pairings started
          MaxFaults,    \* bound: broken streams, failed writes, restarts, gaps
          MaxEvents     \* bound: both together, a pairing counting for two

ASSUME PairingAssumption ==
    Cardinality(Devices) = 2 /\ {MaxPairings, MaxFaults, MaxEvents} \subseteq Nat

VARIABLES
    trust,    \* the trust store in memory: the entries it has
    file,     \* trusted_peers.json: the entries it has (none when missing), or Cut
    up,       \* the sync service exists
    listed,   \* the entry of the peer list: "absent", "plain" or "trusted"
    seen,     \* an mDNS callback between its look at the store and its update
    from,     \* the initiator of each pairing
    ini, res, \* where the initiator and the responder of each pairing are
    wire,     \* the message in flight, or "lost" when the stream is broken
    typed,    \* the code the responder's user typed (0: none of them)
    session,  \* the sync session each device has started
    pairings, faults,
    kept,     \* history: the entries that were stored and not given up since
    unread,   \* history: those of kept that a start left out, for it could not read the file
    removed   \* history: trust was removed from the file and not given since

stores == <<trust, file, up>>
view == <<listed, seen>>
exchange == <<from, ini, res, wire, typed, pairings>>
history == <<kept, unread, removed>>
vars == <<stores, view, exchange, session, faults, history>>

\* The entry of the other device, and that of a third one, paired earlier and
\* not at home now; a file that a write left unfinished.
Entries == {"peer", "third"}
Cut == {"cut"}
Trusts(d) == "peer" \in trust[d]

Other(d) == CHOOSE e \in Devices : e # d
Pairings == 1..MaxPairings
To(n) == Other(from[n])
Started(n) == n <= pairings

Fault == faults < MaxFaults /\ faults' = faults + 1 /\ 2 * pairings + faults < MaxEvents

-----------------------------------------------------------------------------
(* The trust store *)

\* persist truncates the file and writes all the entries in memory; a failing
\* write leaves it as it was or cut short.  The change in memory comes first
\* and stays.
persist(d, entries, ok) ==
    \/ ok /\ file' = [file EXCEPT ![d] = entries] /\ UNCHANGED faults
    \/ ~ok /\ Fault /\ \E f \in {file[d], Cut} : file' = [file EXCEPT ![d] = f]

\* Change memory to the given entries, then the file.
store(d, entries, ok) ==
    trust' = [trust EXCEPT ![d] = entries] /\ persist(d, entries, ok)

Add(d, ok) ==
    /\ store(d, trust[d] \cup {"peer"}, ok)
    /\ IF ok THEN /\ kept' = [kept EXCEPT ![d] = @ \cup {"peer"}]
                  /\ unread' = [unread EXCEPT ![d] = @ \ {"peer"}]
       ELSE UNCHANGED <<kept, unread>>
    /\ removed' = [removed EXCEPT ![d] = FALSE]

Remove(d, ok) ==
    /\ store(d, trust[d] \ {"peer"}, ok)
    /\ kept' = [kept EXCEPT ![d] = @ \ {"peer"}]
    /\ removed' = [removed EXCEPT ![d] = ok]
    /\ UNCHANGED unread

\* Mutant of UpdateLastSync: the entry is written without looking for it.
UpdateLastSyncUnchecked(d, ok) ==
    store(d, trust[d] \cup {"peer"}, ok) /\ UNCHANGED history

\* An entry that is gone is not written again.
UpdateLastSync(d, ok) ==
    /\ IF Trusts(d) THEN persist(d, trust[d], ok) ELSE ok /\ UNCHANGED <<file, faults>>
    /\ UNCHANGED <<trust, history>>

Loaded(d, entries) ==
    /\ trust' = [trust EXCEPT ![d] = entries]
    /\ up' = [up EXCEPT ![d] = TRUE]
    /\ unread' = [unread EXCEPT ![d] = @ \ entries]

\* ReadFile failed, for whatever reason: the store is taken for a new one, and
\* its next mutation writes the file over.
NotRead(d) ==
    /\ trust' = [trust EXCEPT ![d] = {}]
    /\ up' = [up EXCEPT ![d] = TRUE]
    /\ unread' = [unread EXCEPT ![d] = kept[d]]

\* Mutant of NewTrustStore: a file that does not parse counts as empty.
NewTrustStoreLenient(d) ==
    Loaded(d, IF file[d] = Cut THEN {} ELSE file[d]) \/ NotRead(d)

\* A file that does not parse is an error, and the program goes on without a
\* sync service.
NewTrustStore(d) ==
    \/ file[d] # Cut /\ Loaded(d, file[d])
    \/ /\ file[d] = Cut
       /\ trust' = [trust EXCEPT ![d] = {}] /\ up' = [up EXCEPT ![d] = FALSE]
       /\ UNCHANGED unread
    \/ NotRead(d)

-----------------------------------------------------------------------------
(* The list of peers *)

SetTrusted(d, v) ==
    listed' = [listed EXCEPT ![d] = IF @ = "absent" THEN @
                                    ELSE IF v THEN "trusted" ELSE "plain"]
RemovePeer(d) == listed' = [listed EXCEPT ![d] = "absent"]

\* HandlePeerFound asks the trust store and, later, updates the list.
PeerFound(d) ==
    /\ up[d] /\ seen[d] = "absent"
    /\ seen' = [seen EXCEPT ![d] = IF Trusts(d) THEN "trusted" ELSE "plain"]
    /\ UNCHANGED <<stores, listed, exchange, session, faults, history>>

\* Mutant of PeerUpdate: a peer that is listed already is left alone.
PeerUpdateOnce(d) ==
    /\ seen[d] # "absent"
    /\ listed' = [listed EXCEPT ![d] = IF @ = "absent" THEN seen[d] ELSE @]
    /\ seen' = [seen EXCEPT ![d] = "absent"]
    /\ UNCHANGED <<stores, exchange, session, faults, history>>

PeerUpdate(d) ==
    /\ seen[d] # "absent"
    /\ listed' = [listed EXCEPT ![d] = seen[d]]
    /\ seen' = [seen EXCEPT ![d] = "absent"]
    /\ UNCHANGED <<stores, exchange, session, faults, history>>

\* The peer was out of the network for longer than peerMaxAge.
Sweep(d) ==
    /\ listed[d] # "absent" /\ seen[d] = "absent" /\ Fault
    /\ RemovePeer(d)
    /\ UNCHANGED <<stores, seen, exchange, session, history>>

-----------------------------------------------------------------------------
(* The pairing exchange *)

\* The Pair button of a peer that is not listed as trusted.
InitiatePairing(d) ==
    /\ up[d] /\ listed[d] = "plain" /\ pairings < MaxPairings
    /\ 2 * pairings + faults + 2 <= MaxEvents
    /\ pairings' = pairings + 1
    /\ from' = [from EXCEPT ![pairings + 1] = d]
    /\ ini' = [ini EXCEPT ![pairings + 1] = "asked"]
    /\ wire' = [wire EXCEPT ![pairings + 1] = "request"]
    /\ UNCHANGED <<stores, view, res, typed, session, faults, history>>

\* The request arrives and the dialog opens; without a handler, with a bad
\* nonce, or when the user cancels, the stream is closed in silence.
Ask(n) ==
    /\ wire[n] = "request" /\ up[To(n)]
    /\ wire' = [wire EXCEPT ![n] = "none"]
    /\ res' = [res EXCEPT ![n] = "prompt"]
    /\ UNCHANGED <<stores, view, from, ini, typed, pairings, session, faults, history>>

Decline(n) ==
    /\ wire[n] = "request" \/ res[n] = "prompt"
    /\ wire' = [wire EXCEPT ![n] = "lost"]
    /\ res' = [res EXCEPT ![n] = "over"]
    /\ UNCHANGED <<stores, view, from, ini, typed, pairings, session, faults, history>>

OtherCode(n) == IF \E m \in Pairings : m # n /\ Started(m)
                THEN CHOOSE m \in Pairings : m # n /\ Started(m) ELSE 0

\* The user types the code of this pairing or another one, which some device
\* may show for a pairing of its own.  The dialog stays open past the deadline of the stream; then the answer is lost.
Answer(n) ==
    /\ res[n] = "prompt"
    /\ \E c \in {n, OtherCode(n)} : typed' = [typed EXCEPT ![n] = c]
    /\ IF wire[n] = "lost" THEN res' = [res EXCEPT ![n] = "over"] /\ UNCHANGED wire
       ELSE /\ res' = [res EXCEPT ![n] = "answered"]
            /\ wire' = [wire EXCEPT ![n] = "response"]
    /\ UNCHANGED <<stores, view, from, ini, pairings, session, faults, history>>

VerifyPairingHMAC(n) == typed[n] = n

\* Mutant of Judge: the code is not compared.
JudgeAnything(n) ==
    /\ ini[n] = "asked" /\ wire[n] = "response"
    /\ ini' = [ini EXCEPT ![n] = "accepted"] /\ wire' = [wire EXCEPT ![n] = "yes"]
    /\ UNCHANGED <<stores, view, from, res, typed, pairings, session, faults, history>>

\* The initiator compares the proof with its own code and sends the result;
\* whether the result could be sent is not looked at.
Judge(n) ==
    /\ ini[n] = "asked" /\ wire[n] = "response"
    /\ IF VerifyPairingHMAC(n)
       THEN ini' = [ini EXCEPT ![n] = "accepted"] /\ wire' = [wire EXCEPT ![n] = "yes"]
       ELSE ini' = [ini EXCEPT ![n] = "failed"] /\ wire' = [wire EXCEPT ![n] = "no"]
    /\ UNCHANGED <<stores, view, from, res, typed, pairings, session, faults, history>>

\* No answer came: the stream was closed, broke, or its deadline passed.
NoResponse(n) ==
    /\ ini[n] = "asked" /\ wire[n] = "lost"
    /\ ini' = [ini EXCEPT ![n] = "failed"]
    /\ UNCHANGED <<stores, view, from, res, wire, typed, pairings, session, faults, history>>

\* Add ignores its error; the list and the dialog follow in a later step.
InitiatorAdds(n, ok) ==
    /\ ini[n] = "accepted"
    /\ Add(from[n], ok)
    /\ ini' = [ini EXCEPT ![n] = "added"]
    /\ UNCHANGED <<up, view, from, res, wire, typed, pairings, session>>

InitiatorLists(n) ==
    /\ ini[n] = "added"
    /\ SetTrusted(from[n], TRUE)
    /\ ini' = [ini EXCEPT ![n] = "over"]
    /\ UNCHANGED <<stores, seen, from, res, wire, typed, pairings, session,
                   faults, history>>

\* A failed pairing takes the peer off the list.
InitiatorGivesUp(n) ==
    /\ ini[n] = "failed"
    /\ RemovePeer(from[n])
    /\ ini' = [ini EXCEPT ![n] = "over"]
    /\ UNCHANGED <<stores, seen, from, res, wire, typed, pairings, session,
                   faults, history>>

ResponderAdds(n, ok) ==
    /\ res[n] = "answered" /\ wire[n] = "yes"
    /\ Add(To(n), ok)
    /\ res' = [res EXCEPT ![n] = "added"]
    /\ wire' = [wire EXCEPT ![n] = "lost"]
    /\ UNCHANGED <<up, view, from, ini, typed, pairings, session>>

ResponderLists(n) ==
    /\ res[n] = "added"
    /\ SetTrusted(To(n), TRUE)
    /\ res' = [res EXCEPT ![n] = "over"]
    /\ UNCHANGED <<stores, seen, from, ini, wire, typed, pairings, session,
                   faults, history>>

\* The result is a refusal, or never comes.
ResponderEnds(n) ==
    /\ res[n] = "answered" /\ wire[n] \in {"no", "lost"}
    /\ res' = [res EXCEPT ![n] = "over"]
    /\ wire' = [wire EXCEPT ![n] = "lost"]
    /\ UNCHANGED <<stores, view, from, ini, typed, pairings, session, faults, history>>

Expired(n) == wire' = [wire EXCEPT ![n] = "lost"]

\* Mutant of Deadline: it is set for the request only.
DeadlineForRequest(n) ==
    /\ wire[n] = "request" /\ ini[n] = "asked"
    /\ Expired(n)
    /\ UNCHANGED <<stores, view, from, ini, res, typed, pairings, session, faults, history>>

\* The 60 seconds are over while an answer is awaited.
Deadline(n) ==
    /\ wire[n] \in {"none", "request"} /\ ini[n] = "asked"
    /\ Expired(n)
    /\ UNCHANGED <<stores, view, from, ini, res, typed, pairings, session, faults, history>>

\* A message is lost with its stream.
Break(n) ==
    /\ wire[n] \notin {"none", "lost"} /\ Fault
    /\ Expired(n)
    /\ UNCHANGED <<stores, view, from, ini, res, typed, pairings, session, history>>

-----------------------------------------------------------------------------
(* Unpair, sync, restart *)

\* When the store cannot be written the list keeps the peer as trusted.
Unpair(d, ok) ==
    /\ up[d] /\ listed[d] = "trusted"
    /\ Remove(d, ok)
    /\ IF ok THEN SetTrusted(d, FALSE) ELSE UNCHANGED listed
    /\ UNCHANGED <<up, seen, exchange, session>>

\* The Sync button: both sides ask their trust store, once.
SyncWithPeer(d) ==
    /\ up[d] /\ listed[d] = "trusted" /\ ~session[d]
    /\ Trusts(d) /\ up[Other(d)] /\ Trusts(Other(d))
    /\ session' = [session EXCEPT ![d] = TRUE]
    /\ UNCHANGED <<stores, view, exchange, faults, history>>

\* The end of the session stamps the peer's entry.
CompleteSync(d, ok) ==
    /\ session[d]
    /\ session' = [session EXCEPT ![d] = FALSE]
    /\ UpdateLastSync(d, ok)
    /\ UNCHANGED <<up, view, exchange>>

\* A program is killed, in the middle of a write or not, and started again.
Restart(d) ==
    /\ Fault
    /\ NewTrustStore(d)
    /\ listed' = [listed EXCEPT ![d] = "absent"]
    /\ seen' = [seen EXCEPT ![d] = "absent"]
    /\ ini' = [n \in Pairings |-> IF Started(n) /\ from[n] = d THEN "over" ELSE ini[n]]
    /\ res' = [n \in Pairings |-> IF Started(n) /\ To(n) = d THEN "over" ELSE res[n]]
    /\ wire' = [n \in Pairings |-> IF Started(n) THEN "lost" ELSE wire[n]]
    /\ session' = [e \in Devices |-> FALSE]
    /\ UNCHANGED <<file, from, typed, pairings, kept, removed>>

-----------------------------------------------------------------------------
Init ==
    /\ trust = [d \in Devices |-> {"third"}] /\ file = trust
    /\ up = [d \in Devices |-> TRUE]
    /\ listed = [d \in Devices |-> "absent"] /\ seen = [d \in Devices |-> "absent"]
    /\ from \in [Pairings -> {CHOOSE d \in Devices : TRUE}]
    /\ ini = [n \in Pairings |-> "none"] /\ res = [n \in Pairings |-> "none"]
    /\ wire = [n \in Pairings |-> "none"] /\ typed = [n \in Pairings |-> 0]
    /\ session = [d \in Devices |-> FALSE]
    /\ pairings = 0 /\ faults = 0
    /\ kept = file /\ unread = [d \in Devices |-> {}] /\ removed = [d \in Devices |-> FALSE]

Discovery(d) == PeerFound(d) \/ PeerUpdate(d)
Initiator(n) == \/ Judge(n) \/ NoResponse(n) \/ InitiatorLists(n) \/ InitiatorGivesUp(n)
                \/ \E ok \in BOOLEAN : InitiatorAdds(n, ok)
Responder(n) == \/ Ask(n) \/ ResponderLists(n) \/ ResponderEnds(n)
                \/ \E ok \in BOOLEAN : ResponderAdds(n, ok)
User(n) == Answer(n) \/ Decline(n)
Device(d) == \/ Discovery(d) \/ Sweep(d) \/ InitiatePairing(d)
             \/ SyncWithPeer(d) \/ Restart(d)
             \/ \E ok \in BOOLEAN : Unpair(d, ok) \/ CompleteSync(d, ok)

Next == \/ \E d \in Devices : Device(d)
        \/ \E n \in Pairings : Initiator(n) \/ Responder(n) \/ User(n) \/ Deadline(n) \/ Break(n)

\* mDNS announces a present peer again and again, goroutines run, and the
\* stream's deadline passes; the user at the other device may never answer.
Fairness == /\ \A d \in Devices : WF_vars(PeerFound(d)) /\ WF_vars(PeerUpdate(d))
            /\ \A n \in Pairings : WF_vars(Initiator(n)) /\ WF_vars(Deadline(n))
            /\ \A n \in Pairings : WF_vars(Responder(n))
Spec == Init /\ [][Next]_vars /\ Fairness

-----------------------------------------------------------------------------
(* Properties *)

\* Every variable has its type, and a program without a service finds nobody.
TypeOK ==
    /\ \A d \in Devices : ~up[d] => listed[d] = "absent" /\ seen[d] = "absent"
    /\ trust \in [Devices -> SUBSET Entries] /\ up \in [Devices -> BOOLEAN]
    /\ file \in [Devices -> (SUBSET Entries) \cup {Cut}]
    /\ listed \in [Devices -> {"absent", "plain", "trusted"}]
    /\ seen \in [Devices -> {"absent", "plain", "trusted"}]
    /\ from \in [Pairings -> Devices] /\ typed \in [Pairings -> 0..MaxPairings]
    /\ ini \in [Pairings -> {"none", "asked", "accepted", "added", "failed", "over"}]
    /\ res \in [Pairings -> {"none", "prompt", "answered", "added", "over"}]
    /\ wire \in [Pairings -> {"none", "request", "response", "yes", "no", "lost"}]
    /\ session \in [Devices -> BOOLEAN]
    /\ {kept, unread} \subseteq [Devices -> SUBSET Entries] /\ removed \in [Devices -> BOOLEAN]

\* Whoever trusts a peer does so because a user typed on one device the code
\* of a pairing that the other one had started and shown, also when several
\* pairings run at once and a code is typed into the wrong dialog.
TrustIsEarned ==
    \A d \in Devices : Trusts(d) => \E n \in Pairings : Started(n) /\ typed[n] = n

\* Trust is what the users decided last, whatever session ends and whenever
\* the program is restarted: a peer that was removed from the store stays out
\* until it is paired again, and trust that was stored is there as long as
\* there is a service, for this peer and for the others, which every write
\* writes anew.  A file that does not parse keeps the service from starting; a
\* file that could not be read does not, and what it had is then missing until
\* a start reads it or the peer is paired again.
TrustFollowsTheUser ==
    \A d \in Devices : /\ removed[d] => ~Trusts(d)
                       /\ up[d] => kept[d] \ unread[d] \subseteq trust[d]

\* A stale flag in the peer list, left by a callback that read the store
\* before a pairing or an unpairing, does not stay.
ListHeals ==
    \A d \in Devices :
        []<>(~up[d] \/ listed[d] = "absent" \/ (listed[d] = "trusted" <=> Trusts(d)))

\* The window that waits for a pairing always gets its answer, though the
\* other user may never touch the dialog.
PairingEnds == \A n \in Pairings : ini[n] = "asked" ~> ini[n] = "over"
=============================================================================
