--------------------------- MODULE DownloadQueueMC ---------------------------
(* Instances of DownloadQueue for TLC. *)
EXTENDS DownloadQueue, TLC

CONSTANTS c1, c2, pub, h1, h2

MCPubOf == [u \in {c1, c2} |-> pub]
MCRank == [u \in {c1, c2} |-> IF u = c1 THEN 1 ELSE 2]
OnePubOf == [u \in {c1} |-> pub]
OneRank == [u \in {c1} |-> 1]

NoFaults == [k \in FaultKinds |-> 0]
OneOfEach == [k \in FaultKinds |-> 1]
RestartAndDrop == [NoFaults EXCEPT !["restart"] = 1, !["drop"] = 1]

Handlers == Permutations({h1, h2})
=============================================================================
