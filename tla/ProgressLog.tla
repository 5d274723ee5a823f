----------------------------- MODULE ProgressLog -----------------------------
(***************************************************************************)
(* What ADR-0002 promises of reading progress, whatever the devices and    *)
(* the network do: an append-only log of facts.  A fact enters the log of  *)
(* one account, at most once, and stays there unaltered until the          *)
(* publication it is about is removed from the library.                    *)
(***************************************************************************)
CONSTANTS
    Facts,      \* identities of position changes (the UUIDs of the events)
    Accounts

VARIABLE log    \* the facts recorded, each with its account

Entry == [fact : Facts, account : Accounts]

Init == log = {}

(* A batch of facts of one account arrives; those already there are skipped. *)
Record(batch, account) ==
    /\ \A f \in batch : \A e \in log : e.fact # f
    /\ log' = log \cup {[fact |-> f, account |-> account] : f \in batch}

RemovePublication == log' = {}

Next ==
    \/ \E batch \in SUBSET Facts, account \in Accounts : Record(batch, account)
    \/ RemovePublication

Spec == Init /\ [][Next]_log
=============================================================================
