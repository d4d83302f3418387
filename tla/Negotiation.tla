------------------------------ MODULE Negotiation ------------------------------
(***************************************************************************)
(* The decision of internal/sync/negotiation.go: what two peers do with    *)
(* each vault once they have exchanged their catalogues, and the check by  *)
(* which the responder accepts the plan of the initiator.                  *)
(*                                                                         *)
(* A catalogue is a function from vault names to entries, NoEntry where    *)
(* the peer does not know the vault.  A plan gives every vault a direction *)
(* ("skip" for a vault that is not in plan.Auto) and the set of vaults in  *)
(* conflict; the order of plan.Auto, that of a Go map, is chosen where a   *)
(* session executes it.                                                    *)
(***************************************************************************)
EXTENDS Integers

CONSTANTS
    Names,    \* vault names
    NoEntry,  \* the catalogue has no entry for the vault
    NoSum,    \* an entry without ChainCS
    NoPrint   \* an entry without KeyFingerprint

\* The fields of usm.VaultEntry that negotiation reads.
EntriesOver(versions, times, sums, prints, counts) ==
    [version : versions, modified : times, chainCS : sums,
     keyFingerprint : prints, itemCount : counts]

fingerprintMismatch(l, r) ==
    /\ l.keyFingerprint # NoPrint /\ r.keyFingerprint # NoPrint
    /\ l.keyFingerprint # r.keyFingerprint

bothStamped(l, r) == l.chainCS # NoSum /\ r.chainCS # NoSum
sameChain(l, r) == bothStamped(l, r) /\ l.chainCS = r.chainCS

compareEntries(l, r) ==
    IF sameChain(l, r) THEN "skip"
    ELSE IF l.version > r.version THEN "push"
    ELSE IF r.version > l.version THEN "pull"
    ELSE "skip"

detectConflict(l, r) ==
    /\ l.version = r.version
    /\ ~sameChain(l, r)
    /\ bothStamped(l, r) \/ l.itemCount # r.itemCount \/ l.modified # r.modified

\* The body of the two loops of Negotiate for one name.
Direction(l, r, strict) ==
    IF l = NoEntry THEN IF r = NoEntry THEN "skip" ELSE "pull"
    ELSE IF r = NoEntry THEN "push"
    ELSE IF strict /\ fingerprintMismatch(l, r) THEN "skip"
    ELSE compareEntries(l, r)

InConflict(l, r, strict) ==
    /\ l # NoEntry /\ r # NoEntry
    /\ (strict /\ fingerprintMismatch(l, r)) \/ detectConflict(l, r)

Negotiate(local, remote, strict) ==
    [auto |-> [n \in Names |-> Direction(local[n], remote[n], strict)],
     conflicts |-> {n \in Names : InConflict(local[n], remote[n], strict)}]

\* Mutant of flipDirection: the responder expects the initiator's direction.
flipDirectionSame(d) == d

flipDirection(d) ==
    IF d = "push" THEN "pull" ELSE IF d = "pull" THEN "push" ELSE d

VerifyPlanConsistency(initiator, responder) ==
    /\ \A n \in Names :
          /\ initiator.auto[n] # "skip" =>
                /\ responder.auto[n] # "skip"
                /\ responder.auto[n] = flipDirection(initiator.auto[n])
          /\ responder.auto[n] # "skip" => initiator.auto[n] # "skip"
    /\ initiator.conflicts = responder.conflicts
================================================================================
