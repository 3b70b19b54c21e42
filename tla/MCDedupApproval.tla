-------------------------- MODULE MCDedupApproval --------------------------
(***************************************************************************)
(* Instances of DedupApproval for TLC.                                     *)
(***************************************************************************)
EXTENDS DedupApproval, TLC

\* Three copies of a text; the first two are also reported as similar.
MCDocs == 1..3
MCCreatedAt == [d \in MCDocs |-> IF d = 3 THEN 0 ELSE 1]
MCRecorded == [d \in MCDocs |-> "text"]
MCSimilar == {<<1, 2>>, <<2, 1>>}

\* Plans go stale and are made again, and authorized and revoked meanwhile.
Stale == [rivals |-> FALSE, reviews |-> 1, plans |-> 2, grants |-> 2, touches |-> 2,
          typed |-> MCDocs]

\* An exact and a near finding about the same documents; the third is a README,
\* without a suffix.
Two == [rivals |-> FALSE, reviews |-> 2, plans |-> 2, grants |-> 1, touches |-> 0,
        typed |-> {1, 2}]

\* Everything overlaps.
Rivals == [rivals |-> TRUE, reviews |-> 1, plans |-> 1, grants |-> 2, touches |-> 1,
           typed |-> MCDocs]

AllScenarios == {Stale, Two, Rivals}

Interchangeable == Permutations(Callers)
=============================================================================
