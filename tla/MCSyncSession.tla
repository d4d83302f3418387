----------------------------- MODULE MCSyncSession -----------------------------
(***************************************************************************)
(* Model checking instance of SyncSession.  One start has one vault with   *)
(* every kind of catalogue entry and every pair of modes, with chains and  *)
(* without (of one vault only one peer's matters, that of the receiver),   *)
(* and nothing fails: what the session decides.  The other has two vaults  *)
(* that differ in their version only, deleted ones among them, a stream    *)
(* that breaks and calls that fail: how it transfers.                      *)
(***************************************************************************)
EXTENDS SyncSession

CONSTANTS c1, c2, f1, f2  \* chain checksums and key fingerprints

\* Two versions, two timestamps, with and without ChainCS and KeyFingerprint.
MCEntries == EntriesOver({1, 2}, {1, 2}, {NoSum, c1, c2}, {NoPrint, f1, f2}, {0, 1})

\* Unstamped entries of a vault with one key, at version 1 or 2.
MCVersions == {[version |-> v, modified |-> v, chainCS |-> NoSum,
                keyFingerprint |-> f1, itemCount |-> 1] : v \in {1, 2}}

MCDecisions == [vaults |-> {CHOOSE n \in Names : TRUE}, entries |-> MCEntries,
                modes |-> BOOLEAN \X BOOLEAN, ghosts |-> FALSE, fallible |-> FALSE,
                chains |-> {<<TRUE, TRUE>>, <<FALSE, FALSE>>}]
MCTransfers == [vaults |-> Names, entries |-> MCVersions,
                modes |-> {<<FALSE, FALSE>>}, ghosts |-> TRUE, fallible |-> TRUE,
                chains |-> {<<TRUE, TRUE>>}]
MCStarts == {MCDecisions, MCTransfers}
================================================================================
