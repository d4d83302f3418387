--------------------------- MODULE PairingProofs ---------------------------
(***************************************************************************)
(* Proofs about Pairing for any two devices, any number of pairings, and   *)
(* any number of broken streams, failed writes, restarts and gaps.         *)
(*                                                                         *)
(* CodeInv follows one code from the dialog it is typed into to the        *)
(* verdict; EarnedInv carries it over to the trust store and its file.     *)
(* ServedInv says that only a program with a sync service takes part in a  *)
(* pairing or a session, and StoreInv what the users' last decision leaves *)
(* in the store and its file.                                              *)
(***************************************************************************)
EXTENDS Pairing, FiniteSetTheorems, TLAPS

\* A code is typed once, in answer to the request; accepted is only a proof
\* made from the code of the same pairing.
CodeInv ==
    \A n \in Pairings :
       /\ ~Started(n) => ini[n] = "none" /\ res[n] = "none" /\ wire[n] = "none"
       /\ wire[n] = "request" => res[n] = "none"
       /\ res[n] \in {"none", "prompt"} =>
             typed[n] = 0 /\ ini[n] \notin {"accepted", "added"} /\ wire[n] \notin {"response", "yes"}
       /\ ini[n] \in {"accepted", "added"} \/ wire[n] = "yes" => typed[n] = n

\* Some user has typed the code of a pairing that was started.
CodeTyped == \E n \in Pairings : Started(n) /\ typed[n] = n

EarnedInv == \A d \in Devices : Trusts(d) \/ "peer" \in file[d] => CodeTyped

\* Without a service there is no session and no side of a pairing.
ServedInv ==
    /\ \A d \in Devices : session[d] => up[d]
    /\ \A n \in Pairings : /\ ini[n] \notin {"none", "over"} => up[from[n]]
                           /\ res[n] \notin {"none", "over"} => up[To(n)]

\* A removal that was written is in the file too; an entry that was written is
\* in the file, unless that was not read at a start and may have been written
\* over, or it is cut and the next start refuses it.
StoreInv ==
    \A d \in Devices :
       /\ removed[d] => ~Trusts(d) /\ "peer" \notin file[d]
       /\ up[d] => kept[d] \ unread[d] \subseteq trust[d]
       /\ file[d] # Cut => kept[d] \ unread[d] \subseteq file[d]

IInv == /\ TypeOK /\ pairings \in 0..MaxPairings
        /\ CodeInv /\ EarnedInv /\ ServedInv /\ StoreInv
---------------------------------------------------------------------------
(* The operators *)

\* The other device is one of the two.
LEMMA OtherIsDevice == \A d \in Devices : Other(d) \in Devices
  <1> SUFFICES ASSUME NEW d \in Devices PROVE \E e \in Devices : e # d
    BY DEF Other
  <1> SUFFICES ASSUME \A e \in Devices : e = d PROVE FALSE
    OBVIOUS
  <1>1. Devices = {d}
    OBVIOUS
  <1>2. Cardinality({d}) = 1
    BY FS_Singleton
  <1> QED
    BY <1>1, <1>2, PairingAssumption

LEMMA SomeDevice == (CHOOSE d \in Devices : TRUE) \in Devices
  BY FS_EmptySet, PairingAssumption

\* Another code is that of a pairing, or none.
LEMMA OtherCodeRange == \A n \in Pairings : OtherCode(n) \in Pairings \cup {0}
  BY DEF OtherCode

\* Only these steps reach the trust store.
StoreStep(d, ok) == Add(d, ok) \/ Remove(d, ok) \/ UpdateLastSync(d, ok)

---------------------------------------------------------------------------
(* Type correctness *)

Types == TypeOK /\ pairings \in 0..MaxPairings

\* The steps of the store keep its variables in their sets.
LEMMA StoreTypes ==
    ASSUME Types, NEW d \in Devices, NEW ok \in BOOLEAN, StoreStep(d, ok)
    PROVE  /\ trust' \in [Devices -> SUBSET Entries]
           /\ file' \in [Devices -> (SUBSET Entries) \cup {Cut}]
           /\ {kept', unread'} \subseteq [Devices -> SUBSET Entries]
           /\ removed' \in [Devices -> BOOLEAN]
  <1>1. /\ trust \in [Devices -> SUBSET Entries]
        /\ file \in [Devices -> (SUBSET Entries) \cup {Cut}]
        /\ kept \in [Devices -> SUBSET Entries] /\ unread \in [Devices -> SUBSET Entries]
        /\ removed \in [Devices -> BOOLEAN]
    BY DEF Types, TypeOK
  <1>2. ASSUME NEW s \in SUBSET Entries
        PROVE  s \cup {"peer"} \in SUBSET Entries /\ s \ {"peer"} \in SUBSET Entries
    BY DEF Entries
  <1>3. ASSUME NEW s \in SUBSET Entries, persist(d, s, ok)
        PROVE  file' \in [Devices -> (SUBSET Entries) \cup {Cut}]
    <2>1. \E f \in {s, file[d], Cut} : file' = [file EXCEPT ![d] = f]
      BY <1>3 DEF persist
    <2> QED
      BY <1>1, <2>1
  <1>4. ASSUME NEW s \in SUBSET Entries, store(d, s, ok)
        PROVE  trust' \in [Devices -> SUBSET Entries] /\ file' \in [Devices -> (SUBSET Entries) \cup {Cut}]
    BY <1>1, <1>3, <1>4 DEF store
  <1>5. trust[d] \in SUBSET Entries /\ kept[d] \in SUBSET Entries /\ unread[d] \in SUBSET Entries
    BY <1>1
  <1>6. CASE Add(d, ok)
    <2>1. store(d, trust[d] \cup {"peer"}, ok)
      BY <1>6 DEF Add
    <2>2. /\ \E k \in {kept[d], kept[d] \cup {"peer"}} : kept' = [kept EXCEPT ![d] = k]
          /\ \E u \in {unread[d], unread[d] \ {"peer"}} : unread' = [unread EXCEPT ![d] = u]
          /\ removed' = [removed EXCEPT ![d] = FALSE]
      <3>1. CASE ok
        BY <1>6, <3>1 DEF Add
      <3>2. CASE ~ok
        BY <1>1, <1>6, <3>2 DEF Add
      <3> QED
        BY <3>1, <3>2
    <2> QED
      BY <1>1, <1>2, <1>4, <1>5, <2>1, <2>2
  <1>7. CASE Remove(d, ok)
    <2>1. store(d, trust[d] \ {"peer"}, ok)
      BY <1>7 DEF Remove
    <2>2. /\ kept' = [kept EXCEPT ![d] = kept[d] \ {"peer"}] /\ unread' = unread
          /\ removed' = [removed EXCEPT ![d] = ok]
      BY <1>7 DEF Remove
    <2> QED
      BY <1>1, <1>2, <1>4, <1>5, <2>1, <2>2
  <1>8. CASE UpdateLastSync(d, ok)
    <2>1. persist(d, trust[d], ok) \/ UNCHANGED file
      BY <1>8 DEF UpdateLastSync
    <2>2. file' \in [Devices -> (SUBSET Entries) \cup {Cut}]
      BY <1>1, <1>3, <1>5, <2>1
    <2>3. UNCHANGED <<trust, kept, unread, removed>>
      BY <1>8 DEF UpdateLastSync, history
    <2> QED
      BY <1>1, <2>2, <2>3
  <1> QED
    BY <1>6, <1>7, <1>8 DEF StoreStep

\* A start keeps them in their sets too.
LEMMA StartTypes ==
    ASSUME Types, NEW d \in Devices, NewTrustStore(d)
    PROVE  /\ trust' \in [Devices -> SUBSET Entries] /\ up' \in [Devices -> BOOLEAN]
           /\ unread' \in [Devices -> SUBSET Entries]
           /\ \A e \in Devices : e # d => up'[e] = up[e]
  <1>1. /\ trust \in [Devices -> SUBSET Entries] /\ up \in [Devices -> BOOLEAN]
        /\ kept[d] \in SUBSET Entries /\ unread \in [Devices -> SUBSET Entries]
        /\ file[d] # Cut => file[d] \in SUBSET Entries
    BY DEF Types, TypeOK
  <1>2. CASE file[d] # Cut /\ Loaded(d, file[d])
    BY <1>1, <1>2 DEF Loaded
  <1>3. CASE NotRead(d)
    BY <1>1, <1>3 DEF NotRead
  <1>4. CASE file[d] = Cut /\ trust' = [trust EXCEPT ![d] = {}] /\ up' = [up EXCEPT ![d] = FALSE]
             /\ UNCHANGED unread
    BY <1>1, <1>4
  <1> QED
    BY <1>2, <1>3, <1>4 DEF NewTrustStore

\* Trust is marked on peers that are listed.
LEMMA ListTypes ==
    ASSUME listed \in [Devices -> {"absent", "plain", "trusted"}],
           NEW d, NEW v \in BOOLEAN, SetTrusted(d, v)
    PROVE  /\ listed' \in [Devices -> {"absent", "plain", "trusted"}]
           /\ \A e \in Devices : listed[e] = "absent" => listed'[e] = "absent"
  BY DEF SetTrusted

\* Every step keeps the variables in their sets.
LEMMA TypesNext == Types /\ [Next]_vars => Types'
  <1> SUFFICES ASSUME Types, [Next]_vars PROVE Types'
    OBVIOUS
  <1> USE DEF Types, TypeOK, stores, view, exchange, history
  <1>1. ASSUME NEW d \in Devices, PeerFound(d) PROVE Types'
    BY <1>1 DEF PeerFound
  <1>2. ASSUME NEW d \in Devices, PeerUpdate(d) PROVE Types'
    BY <1>2 DEF PeerUpdate
  <1>3. ASSUME NEW d \in Devices, Sweep(d) PROVE Types'
    BY <1>3 DEF Sweep, RemovePeer
  <1>4. ASSUME NEW d \in Devices, InitiatePairing(d) PROVE Types'
    BY <1>4, PairingAssumption DEF InitiatePairing, Pairings
  <1>5. ASSUME NEW d \in Devices, SyncWithPeer(d) PROVE Types'
    BY <1>5 DEF SyncWithPeer
  <1>6. ASSUME NEW d \in Devices, Restart(d) PROVE Types'
    BY <1>6, StartTypes DEF Restart
  <1>7. ASSUME NEW d \in Devices, NEW ok \in BOOLEAN, Unpair(d, ok) PROVE Types'
    <2>1. /\ trust' \in [Devices -> SUBSET Entries]
          /\ file' \in [Devices -> (SUBSET Entries) \cup {Cut}]
          /\ {kept', unread'} \subseteq [Devices -> SUBSET Entries]
          /\ removed' \in [Devices -> BOOLEAN]
      BY <1>7, StoreTypes DEF Unpair, StoreStep
    <2>2. /\ listed' \in [Devices -> {"absent", "plain", "trusted"}]
          /\ \A e \in Devices : listed[e] = "absent" => listed'[e] = "absent"
      BY <1>7, ListTypes DEF Unpair
    <2>3. UNCHANGED <<up, seen, exchange, session>>
      BY <1>7 DEF Unpair
    <2> QED
      BY <2>1, <2>2, <2>3
  <1>8. ASSUME NEW d \in Devices, NEW ok \in BOOLEAN, CompleteSync(d, ok) PROVE Types'
    BY <1>8, StoreTypes DEF CompleteSync, StoreStep
  <1>9. ASSUME NEW n \in Pairings, Judge(n) PROVE Types'
    BY <1>9 DEF Judge
  <1>10. ASSUME NEW n \in Pairings, NoResponse(n) PROVE Types'
    BY <1>10 DEF NoResponse
  <1>11. ASSUME NEW n \in Pairings, InitiatorLists(n) PROVE Types'
    BY <1>11, ListTypes DEF InitiatorLists
  <1>12. ASSUME NEW n \in Pairings, InitiatorGivesUp(n) PROVE Types'
    BY <1>12 DEF InitiatorGivesUp, RemovePeer
  <1>13. ASSUME NEW n \in Pairings, NEW ok \in BOOLEAN, InitiatorAdds(n, ok) PROVE Types'
    BY <1>13, StoreTypes DEF InitiatorAdds, StoreStep
  <1>14. ASSUME NEW n \in Pairings, Ask(n) PROVE Types'
    BY <1>14 DEF Ask
  <1>15. ASSUME NEW n \in Pairings, ResponderLists(n) PROVE Types'
    BY <1>15, ListTypes DEF ResponderLists
  <1>16. ASSUME NEW n \in Pairings, ResponderEnds(n) PROVE Types'
    BY <1>16 DEF ResponderEnds
  <1>17. ASSUME NEW n \in Pairings, NEW ok \in BOOLEAN, ResponderAdds(n, ok) PROVE Types'
    BY <1>17, StoreTypes, OtherIsDevice DEF ResponderAdds, To, StoreStep
  <1>18. ASSUME NEW n \in Pairings, Answer(n) PROVE Types'
    <2>1. PICK c \in {n, OtherCode(n)} : typed' = [typed EXCEPT ![n] = c]
      BY <1>18 DEF Answer
    <2>2. c \in 0..MaxPairings
      BY <2>1, OtherCodeRange, PairingAssumption DEF Pairings
    <2>3. typed' \in [Pairings -> 0..MaxPairings]
      BY <2>1, <2>2
    <2>4. /\ res' \in [Pairings -> {"none", "prompt", "answered", "added", "over"}]
          /\ wire' \in [Pairings -> {"none", "request", "response", "yes", "no", "lost"}]
      BY <1>18 DEF Answer
    <2>5. UNCHANGED <<stores, view, from, ini, pairings, session, faults, history>>
      BY <1>18 DEF Answer
    <2> QED
      BY <2>3, <2>4, <2>5
  <1>19. ASSUME NEW n \in Pairings, Decline(n) PROVE Types'
    BY <1>19 DEF Decline
  <1>20. ASSUME NEW n \in Pairings, Deadline(n) PROVE Types'
    BY <1>20 DEF Deadline, Expired
  <1>21. ASSUME NEW n \in Pairings, Break(n) PROVE Types'
    BY <1>21 DEF Break, Expired
  <1>22. CASE UNCHANGED vars
    <2>1. /\ UNCHANGED <<trust, file, up, listed, seen, session, kept, unread, removed>>
          /\ UNCHANGED <<from, ini, res, wire, typed, pairings>>
      BY <1>22 DEF vars
    <2> QED
      BY <2>1
  <1> QED
    BY <1>1, <1>2, <1>3, <1>4, <1>5, <1>6, <1>7, <1>8, <1>9, <1>10, <1>11, <1>12,
       <1>13, <1>14, <1>15, <1>16, <1>17, <1>18, <1>19, <1>20, <1>21, <1>22
       DEF Next, Device, Discovery, Initiator, Responder, User

---------------------------------------------------------------------------
(* The codes *)

\* Every step of a pairing keeps its code and its verdict together.
LEMMA CodeNext == Types /\ CodeInv /\ [Next]_vars => CodeInv'
  <1> SUFFICES ASSUME Types, CodeInv, [Next]_vars PROVE CodeInv'
    OBVIOUS
  <1> USE DEF Types, TypeOK, CodeInv, Started, exchange
  <1>1. ASSUME NEW d \in Devices, InitiatePairing(d) PROVE CodeInv'
    BY <1>1, PairingAssumption DEF InitiatePairing, Pairings
  <1>2. ASSUME NEW d \in Devices, Restart(d) PROVE CodeInv'
    BY <1>2 DEF Restart
  <1>3. ASSUME NEW n \in Pairings, Judge(n) PROVE CodeInv'
    BY <1>3 DEF Judge, VerifyPairingHMAC
  <1>4. ASSUME NEW n \in Pairings, NoResponse(n) PROVE CodeInv'
    BY <1>4 DEF NoResponse
  <1>5. ASSUME NEW n \in Pairings, InitiatorLists(n) PROVE CodeInv'
    BY <1>5 DEF InitiatorLists
  <1>6. ASSUME NEW n \in Pairings, InitiatorGivesUp(n) PROVE CodeInv'
    BY <1>6 DEF InitiatorGivesUp
  <1>7. ASSUME NEW n \in Pairings, NEW ok \in BOOLEAN, InitiatorAdds(n, ok) PROVE CodeInv'
    BY <1>7 DEF InitiatorAdds
  <1>8. ASSUME NEW n \in Pairings, Ask(n) PROVE CodeInv'
    BY <1>8 DEF Ask
  <1>9. ASSUME NEW n \in Pairings, ResponderLists(n) PROVE CodeInv'
    BY <1>9 DEF ResponderLists
  <1>10. ASSUME NEW n \in Pairings, ResponderEnds(n) PROVE CodeInv'
    BY <1>10 DEF ResponderEnds
  <1>11. ASSUME NEW n \in Pairings, NEW ok \in BOOLEAN, ResponderAdds(n, ok) PROVE CodeInv'
    BY <1>11 DEF ResponderAdds
  <1>12. ASSUME NEW n \in Pairings, Answer(n) PROVE CodeInv'
    BY <1>12 DEF Answer
  <1>13. ASSUME NEW n \in Pairings, Decline(n) PROVE CodeInv'
    BY <1>13 DEF Decline
  <1>14. ASSUME NEW n \in Pairings, Deadline(n) PROVE CodeInv'
    BY <1>14 DEF Deadline, Expired
  <1>15. ASSUME NEW n \in Pairings, Break(n) PROVE CodeInv'
    BY <1>15 DEF Break, Expired
  <1>16. ASSUME NEW d \in Devices, Device(d), ~InitiatePairing(d), ~Restart(d) PROVE CodeInv'
    <2>1. UNCHANGED <<ini, res, wire, typed, pairings>>
      BY <1>16 DEF Device, Discovery, PeerFound, PeerUpdate, Sweep, SyncWithPeer, Unpair, CompleteSync
    <2> QED
      BY <2>1
  <1>17. CASE UNCHANGED vars
    BY <1>17 DEF vars
  <1> QED
    BY <1>1, <1>2, <1>3, <1>4, <1>5, <1>6, <1>7, <1>8, <1>9, <1>10, <1>11, <1>12,
       <1>13, <1>14, <1>15, <1>16, <1>17
       DEF Next, Initiator, Responder, User

\* A code that was typed stays typed.
LEMMA TypedStays == Types /\ CodeInv /\ [Next]_vars => (CodeTyped => CodeTyped')
  <1> SUFFICES ASSUME Types, CodeInv, [Next]_vars, NEW n \in Pairings, Started(n), typed[n] = n
               PROVE  pairings' >= pairings /\ typed'[n] = n
    BY TypesNext DEF CodeTyped, Started, Types, Pairings
  <1>1. ASSUME NEW m \in Pairings, Answer(m) PROVE pairings' = pairings /\ typed'[n] = n
    BY <1>1 DEF Answer, CodeInv, Types, TypeOK, Pairings
  <1>2. ASSUME NEW m \in Pairings, Initiator(m) \/ Responder(m) \/ Decline(m) \/ Deadline(m) \/ Break(m)
        PROVE  UNCHANGED <<typed, pairings>>
    BY <1>2 DEF Initiator, Responder, Judge, NoResponse, InitiatorLists, InitiatorGivesUp,
       InitiatorAdds, Ask, ResponderLists, ResponderEnds, ResponderAdds, Decline, Deadline, Break
  <1>3. ASSUME NEW d \in Devices, Device(d)
        PROVE  typed' = typed /\ pairings' \in {pairings, pairings + 1}
    BY <1>3 DEF Device, Discovery, PeerFound, PeerUpdate, Sweep, InitiatePairing, SyncWithPeer,
       Restart, Unpair, CompleteSync, exchange
  <1>4. CASE UNCHANGED vars
    BY <1>4 DEF vars, exchange, Types
  <1> QED
    BY <1>1, <1>2, <1>3, <1>4 DEF Next, User, Types

---------------------------------------------------------------------------
(* The services *)

\* Whoever takes part in a pairing or a session has a service.
LEMMA ServedNext == Types /\ CodeInv /\ ServedInv /\ [Next]_vars => ServedInv'
  <1> SUFFICES ASSUME Types, CodeInv, ServedInv, [Next]_vars PROVE ServedInv'
    OBVIOUS
  <1>t. /\ from \in [Pairings -> Devices] /\ pairings \in 0..MaxPairings
        /\ ini \in [Pairings -> {"none", "asked", "accepted", "added", "failed", "over"}]
        /\ res \in [Pairings -> {"none", "prompt", "answered", "added", "over"}]
        /\ up \in [Devices -> BOOLEAN] /\ session \in [Devices -> BOOLEAN]
    BY DEF Types, TypeOK
  <1>1. ASSUME NEW d \in Devices, InitiatePairing(d) PROVE ServedInv'
    <2>1. /\ up[d] /\ UNCHANGED <<up, res, session>>
          /\ ini' = [ini EXCEPT ![pairings + 1] = "asked"]
          /\ from' = [from EXCEPT ![pairings + 1] = d]
      BY <1>1 DEF InitiatePairing, stores
    <2>2. res[pairings + 1] = "none" /\ pairings + 1 \in Pairings
      BY <1>1, <1>t, PairingAssumption DEF InitiatePairing, CodeInv, Pairings, Started
    <2> QED
      BY <1>t, <2>1, <2>2 DEF ServedInv, To
  <1>2. ASSUME NEW d \in Devices, Restart(d) PROVE ServedInv'
    <2>1. session' = [e \in Devices |-> FALSE] /\ UNCHANGED from
      BY <1>2 DEF Restart
    <2>2. \A e \in Devices : e # d => up'[e] = up[e]
      BY <1>2, <1>t DEF Restart, NewTrustStore, Loaded, NotRead
    <2>3. ASSUME NEW n \in Pairings, ini'[n] \notin {"none", "over"} PROVE up'[from[n]]
      <3>1. ini[n] \notin {"none", "over"} /\ from[n] # d
        BY <1>2, <2>3 DEF Restart, CodeInv
      <3> QED
        BY <1>t, <2>2, <3>1 DEF ServedInv
    <2>4. ASSUME NEW n \in Pairings, res'[n] \notin {"none", "over"} PROVE up'[To(n)]
      <3>1. res[n] \notin {"none", "over"} /\ To(n) # d
        BY <1>2, <2>4 DEF Restart, CodeInv
      <3>2. To(n) \in Devices
        BY <1>t, OtherIsDevice DEF To
      <3> QED
        BY <2>2, <3>1, <3>2 DEF ServedInv
    <2> QED
      BY <2>1, <2>3, <2>4 DEF ServedInv, To
  <1>3. ASSUME NEW n \in Pairings, Initiator(n) PROVE ServedInv'
    <2>1. UNCHANGED <<up, session, from, res>>
      BY <1>3 DEF Initiator, Judge, NoResponse, InitiatorLists, InitiatorGivesUp, InitiatorAdds, stores
    <2>2. \E v \in {"accepted", "added", "failed", "over"} : ini' = [ini EXCEPT ![n] = v]
      BY <1>3 DEF Initiator, Judge, NoResponse, InitiatorLists, InitiatorGivesUp, InitiatorAdds
    <2>3. ini[n] \notin {"none", "over"}
      BY <1>3 DEF Initiator, Judge, NoResponse, InitiatorLists, InitiatorGivesUp, InitiatorAdds
    <2> QED
      BY <1>t, <2>1, <2>2, <2>3 DEF ServedInv, To
  <1>4. ASSUME NEW n \in Pairings, Responder(n) \/ User(n) PROVE ServedInv'
    <2>1. UNCHANGED <<up, session, from, ini>>
      BY <1>4 DEF Responder, User, Ask, ResponderLists, ResponderEnds, ResponderAdds, Answer, Decline,
         stores
    <2>2. \E v \in {"prompt", "answered", "added", "over"} : res' = [res EXCEPT ![n] = v]
      BY <1>4 DEF Responder, User, Ask, ResponderLists, ResponderEnds, ResponderAdds, Answer, Decline
    <2>3. res'[n] = "over" \/ up[To(n)]
      BY <1>4, <1>t DEF Responder, User, Ask, ResponderLists, ResponderEnds, ResponderAdds, Answer,
         Decline, ServedInv
    <2> QED
      BY <1>t, <2>1, <2>2, <2>3 DEF ServedInv, To
  <1>5. ASSUME NEW n \in Pairings, Deadline(n) \/ Break(n) PROVE ServedInv'
    BY <1>5 DEF Deadline, Break, stores, ServedInv, To
  <1>6. ASSUME NEW d \in Devices, Device(d), ~InitiatePairing(d), ~Restart(d) PROVE ServedInv'
    <2>1. UNCHANGED <<up, from, ini, res>>
      BY <1>6 DEF Device, Discovery, PeerFound, PeerUpdate, Sweep, SyncWithPeer, Unpair, CompleteSync,
         stores, exchange
    <2>2. \/ UNCHANGED session
          \/ session' = [session EXCEPT ![d] = FALSE]
          \/ up[d] /\ session' = [session EXCEPT ![d] = TRUE]
      BY <1>6 DEF Device, Discovery, PeerFound, PeerUpdate, Sweep, SyncWithPeer, Unpair, CompleteSync
    <2> QED
      BY <1>t, <2>1, <2>2 DEF ServedInv, To
  <1>7. CASE UNCHANGED vars
    BY <1>7 DEF vars, stores, exchange, ServedInv, To
  <1> QED
    BY <1>1, <1>2, <1>3, <1>4, <1>5, <1>6, <1>7 DEF Next

---------------------------------------------------------------------------
(* The stores *)

\* The steps of a device or of a pairing that leave the stores alone, and
\* those that do not.
LEMMA StoreSteps ==
    Types /\ ServedInv /\ [Next]_vars =>
       \/ UNCHANGED <<stores, history>>
       \/ \E d \in Devices : Restart(d)
       \/ \E d \in Devices, ok \in BOOLEAN : StoreStep(d, ok) /\ up[d] /\ UNCHANGED up
  <1> SUFFICES ASSUME Types, ServedInv, [Next]_vars
               PROVE  \/ UNCHANGED <<stores, history>>
                      \/ \E d \in Devices : Restart(d)
                      \/ \E d \in Devices, ok \in BOOLEAN : StoreStep(d, ok) /\ up[d] /\ UNCHANGED up
    OBVIOUS
  <1>1. ASSUME NEW d \in Devices, Device(d), ~Restart(d)
        PROVE  \/ UNCHANGED <<stores, history>>
               \/ \E ok \in BOOLEAN : StoreStep(d, ok) /\ up[d] /\ UNCHANGED up
    BY <1>1 DEF Device, Discovery, PeerFound, PeerUpdate, Sweep, InitiatePairing, SyncWithPeer,
       Unpair, CompleteSync, StoreStep, stores, ServedInv
  <1>2. ASSUME NEW n \in Pairings, Initiator(n)
        PROVE  \/ UNCHANGED <<stores, history>>
               \/ \E ok \in BOOLEAN : Add(from[n], ok) /\ up[from[n]] /\ UNCHANGED up
    BY <1>2 DEF Initiator, Judge, NoResponse, InitiatorLists, InitiatorGivesUp, InitiatorAdds, stores,
       ServedInv
  <1>3. ASSUME NEW n \in Pairings, Responder(n)
        PROVE  \/ UNCHANGED <<stores, history>>
               \/ \E ok \in BOOLEAN : Add(To(n), ok) /\ up[To(n)] /\ UNCHANGED up
    BY <1>3 DEF Responder, Ask, ResponderLists, ResponderEnds, ResponderAdds, stores, ServedInv
  <1>4. ASSUME NEW n \in Pairings, User(n) \/ Deadline(n) \/ Break(n)
        PROVE  UNCHANGED <<stores, history>>
    BY <1>4 DEF User, Answer, Decline, Deadline, Break
  <1>5. ASSUME NEW n \in Pairings PROVE from[n] \in Devices /\ To(n) \in Devices
    BY OtherIsDevice DEF Types, TypeOK, To
  <1>6. CASE UNCHANGED vars
    BY <1>6 DEF vars
  <1> QED
    BY <1>1, <1>2, <1>3, <1>4, <1>5, <1>6 DEF Next, StoreStep

\* What a step writes to the stores of one device, and of no other.
LEMMA Written ==
    ASSUME Types, NEW d \in Devices, NEW ok \in BOOLEAN, StoreStep(d, ok)
    PROVE  /\ \A e \in Devices : e # d => trust'[e] = trust[e] /\ file'[e] = file[e]
                                          /\ kept'[e] = kept[e] /\ unread'[e] = unread[e]
                                          /\ removed'[e] = removed[e]
           /\ \/ file'[d] = trust'[d]
              \/ ~ok /\ file'[d] \in {file[d], Cut}
              \/ UNCHANGED <<file, trust, history>>
  <1> USE DEF Types, TypeOK
  <1>1. CASE Add(d, ok)
    <2>1. store(d, trust[d] \cup {"peer"}, ok)
      BY <1>1 DEF Add
    <2>2. /\ trust' = [trust EXCEPT ![d] = trust[d] \cup {"peer"}]
          /\ \/ file' = [file EXCEPT ![d] = trust[d] \cup {"peer"}]
             \/ ~ok /\ \E f \in {file[d], Cut} : file' = [file EXCEPT ![d] = f]
      BY <2>1 DEF store, persist
    <2>3. \A e \in Devices : e # d => /\ kept'[e] = kept[e] /\ unread'[e] = unread[e]
                                      /\ removed'[e] = removed[e]
      BY <1>1 DEF Add
    <2> QED
      BY <2>2, <2>3
  <1>2. CASE Remove(d, ok)
    <2>1. store(d, trust[d] \ {"peer"}, ok)
      BY <1>2 DEF Remove
    <2>2. /\ trust' = [trust EXCEPT ![d] = trust[d] \ {"peer"}]
          /\ \/ file' = [file EXCEPT ![d] = trust[d] \ {"peer"}]
             \/ ~ok /\ \E f \in {file[d], Cut} : file' = [file EXCEPT ![d] = f]
      BY <2>1 DEF store, persist
    <2>3. \A e \in Devices : e # d => /\ kept'[e] = kept[e] /\ unread'[e] = unread[e]
                                      /\ removed'[e] = removed[e]
      BY <1>2 DEF Remove
    <2> QED
      BY <2>2, <2>3
  <1>3. CASE UpdateLastSync(d, ok)
    <2>1. UNCHANGED <<trust, kept, unread, removed>>
      BY <1>3 DEF UpdateLastSync, history
    <2>2. \/ file' = [file EXCEPT ![d] = trust[d]]
          \/ ~ok /\ \E f \in {file[d], Cut} : file' = [file EXCEPT ![d] = f]
          \/ UNCHANGED file
      BY <1>3 DEF UpdateLastSync, persist
    <2> QED
      BY <2>1, <2>2 DEF history
  <1> QED
    BY <1>1, <1>2, <1>3 DEF StoreStep

\* Only a pairing whose code was typed gives trust.
LEMMA AddIsEarned ==
    ASSUME Types, CodeInv, [Next]_vars, NEW d \in Devices,
           Trusts(d)', ~Trusts(d), "peer" \notin file[d]
    PROVE  CodeTyped
  <1> USE DEF Trusts
  <1>1. ASSUME NEW n \in Pairings, Initiator(n) \/ Responder(n) PROVE CodeTyped
    <2>1. ini[n] = "accepted" \/ wire[n] = "yes" \/ UNCHANGED trust
      BY <1>1 DEF Initiator, Responder, Judge, NoResponse, InitiatorLists, InitiatorGivesUp,
         InitiatorAdds, Ask, ResponderLists, ResponderEnds, ResponderAdds, stores
    <2> QED
      BY <2>1 DEF CodeInv, CodeTyped
  <1>2. ASSUME NEW n \in Pairings, User(n) \/ Deadline(n) \/ Break(n) PROVE FALSE
    BY <1>2 DEF User, Answer, Decline, Deadline, Break, stores
  <1>3. ASSUME NEW e \in Devices, Device(e) PROVE FALSE
    <2>1. \/ trust' = trust
          \/ \E v \in {{}, trust[e] \ {"peer"}, file[e]} : trust' = [trust EXCEPT ![e] = v]
      BY <1>3 DEF Device, Discovery, PeerFound, PeerUpdate, Sweep, InitiatePairing, SyncWithPeer,
         Restart, Unpair, CompleteSync, NewTrustStore, Loaded, NotRead, Remove, store,
         UpdateLastSync, stores
    <2> QED
      BY <2>1 DEF Types, TypeOK
  <1>4. CASE UNCHANGED vars
    BY <1>4 DEF vars, stores
  <1> QED
    BY <1>1, <1>2, <1>3, <1>4 DEF Next

LEMMA EarnedNext ==
    Types /\ CodeInv /\ ServedInv /\ EarnedInv /\ [Next]_vars => EarnedInv'
  <1> SUFFICES ASSUME Types, CodeInv, ServedInv, EarnedInv, [Next]_vars, NEW d \in Devices,
                      Trusts(d)' \/ "peer" \in file'[d]
               PROVE  CodeTyped
    BY TypedStays DEF EarnedInv
  <1>1. CASE Trusts(d)'
    BY <1>1, AddIsEarned DEF EarnedInv
  <1>2. "peer" \in file'[d] => "peer" \in file[d] \/ Trusts(d) \/ Trusts(d)'
    <2>1. ASSUME NEW e \in Devices, NEW ok \in BOOLEAN, StoreStep(e, ok), "peer" \in file'[d]
          PROVE  "peer" \in file[d] \/ Trusts(d)'
      <3>1. file'[d] \in {file[d], trust'[d], Cut}
        BY <2>1, Written
      <3> QED
        BY <2>1, <3>1 DEF Cut, Trusts
    <2> QED
      BY <2>1, StoreSteps DEF Restart, stores
  <1> QED
    BY <1>1, <1>2 DEF EarnedInv

\* The file follows memory, or is cut.
LEMMA StoreNext == Types /\ ServedInv /\ StoreInv /\ [Next]_vars => StoreInv'
  <1> SUFFICES ASSUME Types, ServedInv, StoreInv, [Next]_vars PROVE StoreInv'
    OBVIOUS
  <1> USE DEF StoreInv, Trusts
  <1>t. trust \in [Devices -> SUBSET Entries] /\ kept \in [Devices -> SUBSET Entries]
        /\ unread \in [Devices -> SUBSET Entries] /\ removed \in [Devices -> BOOLEAN]
        /\ file \in [Devices -> (SUBSET Entries) \cup {Cut}] /\ up \in [Devices -> BOOLEAN]
    BY DEF Types, TypeOK
  <1>1. ASSUME NEW d \in Devices, NEW ok \in BOOLEAN, StoreStep(d, ok), up[d], UNCHANGED up
        PROVE  StoreInv'
    <2> DEFINE Followed(e) ==
          /\ removed'[e] => "peer" \notin trust'[e] /\ "peer" \notin file'[e]
          /\ up'[e] => kept'[e] \ unread'[e] \subseteq trust'[e]
          /\ file'[e] # Cut => kept'[e] \ unread'[e] \subseteq file'[e]
    <2>1. ASSUME NEW e \in Devices, e # d PROVE Followed(e)
      BY <1>1, <2>1, Written
    <2>2. \/ file'[d] = trust'[d]
          \/ ~ok /\ file'[d] \in {file[d], Cut}
          \/ UNCHANGED <<file, trust, history>>
      BY <1>1, Written
    <2>3. ASSUME Add(d, ok) PROVE Followed(d)
      <3>1. trust'[d] = trust[d] \cup {"peer"}
        BY <1>t, <2>3 DEF Add, store
      <3>2. /\ ok => kept'[d] = kept[d] \cup {"peer"} /\ unread'[d] = unread[d] \ {"peer"}
            /\ ~ok => kept'[d] = kept[d] /\ unread'[d] = unread[d]
            /\ ~removed'[d]
        BY <1>t, <2>3 DEF Add
      <3>3. kept'[d] \ unread'[d] \subseteq trust'[d]
        BY <1>1, <3>1, <3>2
      <3>4. ok => file'[d] = trust'[d]
        BY <1>t, <2>3, <3>1 DEF Add, store, persist
      <3>5. CASE ok
        BY <3>2, <3>3, <3>4, <3>5
      <3>6. CASE ~ok
        <4>1. file'[d] \in {trust'[d], file[d], Cut}
          BY <2>2
        <4> QED
          BY <3>2, <3>3, <3>6, <4>1
      <3> QED
        BY <3>5, <3>6
    <2>4. ASSUME Remove(d, ok) PROVE Followed(d)
      <3>1. trust'[d] = trust[d] \ {"peer"}
        BY <1>t, <2>4 DEF Remove, store
      <3>2. /\ kept'[d] = kept[d] \ {"peer"} /\ unread'[d] = unread[d] /\ removed'[d] = ok
        BY <1>t, <2>4 DEF Remove
      <3>3. ok => file'[d] = trust'[d]
        BY <1>t, <2>4, <3>1 DEF Remove, store, persist
      <3> QED
        BY <1>1, <1>t, <2>2, <3>1, <3>2, <3>3 DEF Cut
    <2>5. ASSUME UpdateLastSync(d, ok) PROVE Followed(d)
      <3>1. UNCHANGED <<trust, kept, unread, removed>>
        BY <1>t, <2>5 DEF UpdateLastSync, history
      <3> QED
        BY <1>1, <1>t, <2>2, <3>1 DEF Cut
    <2>6. Followed(d)
      BY <1>1, <2>3, <2>4, <2>5 DEF StoreStep
    <2> QED
      BY <2>1, <2>6
  <1>2. ASSUME NEW d \in Devices, Restart(d) PROVE StoreInv'
    BY <1>2, <1>t DEF Restart, NewTrustStore, Loaded, NotRead
  <1>3. CASE UNCHANGED <<stores, history>>
    BY <1>3 DEF stores, history
  <1> QED
    BY <1>1, <1>2, <1>3, StoreSteps

---------------------------------------------------------------------------
(* The specification *)

LEMMA InitIInv == Init => IInv
  <1> SUFFICES ASSUME Init PROVE IInv
    OBVIOUS
  <1>1. TypeOK /\ pairings \in 0..MaxPairings
    BY SomeDevice, PairingAssumption DEF Init, TypeOK, Entries
  <1>2. CodeInv /\ EarnedInv /\ ServedInv /\ StoreInv
    BY DEF Init, CodeInv, EarnedInv, ServedInv, StoreInv, Trusts
  <1> QED
    BY <1>1, <1>2 DEF IInv

\* IInv holds in every state the two programs reach.
THEOREM Inductive == Spec => []IInv
  <1>1. IInv /\ [Next]_vars => IInv'
    BY TypesNext, CodeNext, EarnedNext, ServedNext, StoreNext DEF IInv, Types
  <1> QED
    BY <1>1, InitIInv, PTL DEF Spec

\* Every variable keeps its type, and a program whose trust store did not
\* parse finds nobody (truststore.go, NewTrustStore; service.go, NewService).
THEOREM TypeCorrect == Spec => []TypeOK
  <1>1. IInv => TypeOK
    BY DEF IInv
  <1> QED
    BY <1>1, Inductive, PTL

\* Nobody is trusted before a user typed the code of a started pairing, in
\* memory or after a restart (service.go, InitiatePairing, handlePairStream).
THEOREM TrustNeedsTheCode == Spec => []TrustIsEarned
  <1>1. IInv => TrustIsEarned
    BY DEF IInv, EarnedInv, CodeTyped, TrustIsEarned
  <1> QED
    BY <1>1, Inductive, PTL

\* The store forgets neither a removal nor a pairing that was written, across
\* sessions that end late, failed writes and restarts, except for the entries
\* that a start left out because it could not read the file (truststore.go).
THEOREM TrustIsRemembered == Spec => []TrustFollowsTheUser
  <1>1. IInv => TrustFollowsTheUser
    BY DEF IInv, StoreInv, TrustFollowsTheUser
  <1> QED
    BY <1>1, Inductive, PTL

===========================================================================
