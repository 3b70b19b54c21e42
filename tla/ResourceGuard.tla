---------------------------- MODULE ResourceGuard ----------------------------
(***************************************************************************)
(* One BatchResourceGuard instance over the life of its processes: the     *)
(* two disk checks, and the embedding check with its in-memory count of    *)
(* consecutive failed probes, which a restart of the process forgets.      *)
(* BatchControlProofs extends this module beside BatchControl, hence the   *)
(* prefix of the usual names.                                              *)
(***************************************************************************)
EXTENDS GuardTiers, Sequences, SequencesExt

CONSTANT MaxProbes    \* bound: probes of one process

ASSUME ProbesAssumption == MaxProbes \in Nat

VARIABLES
    workspaceFree, postgresFree,  \* the disks, which anything may fill or empty
    failures,                     \* _consecutive_ollama_failures
    result,                       \* the last GuardResult, and what asked for it
    probes                        \* history: whether each probe of this process answered

guardVars == <<workspaceFree, postgresFree, failures, result, probes>>

NoCheck == [kind |-> "NONE", tier |-> "NORMAL", reason |-> "none"]

Result(kind, verdict) == [kind |-> kind, tier |-> verdict.tier, reason |-> verdict.reason]

GuardTypeOK ==
    /\ workspaceFree \in WorkspaceSamples
    /\ postgresFree \in PostgresSamples
    /\ failures \in 0 .. MaxProbes
    /\ result.kind \in {"NONE", "CLAIM", "ARCHIVE_EXTRACTION", "EMBEDDING"}
    /\ result.tier \in Tiers
    /\ probes \in BoundedSeq(BOOLEAN, MaxProbes)

GuardInit ==
    /\ workspaceFree \in WorkspaceSamples
    /\ postgresFree \in PostgresSamples
    /\ failures = 0
    /\ result = NoCheck
    /\ probes = << >>

\* Other programs use the disks between two checks; the old result is stale.
DisksChange ==
    /\ workspaceFree' \in WorkspaceSamples
    /\ postgresFree' \in PostgresSamples
    /\ result' = NoCheck
    /\ UNCHANGED <<failures, probes>>

CheckBeforeClaim ==
    /\ result' = Result("CLAIM", CheckDisk(workspaceFree, postgresFree))
    /\ UNCHANGED <<workspaceFree, postgresFree, failures, probes>>

CheckBeforeExtraction ==
    /\ result' = Result("ARCHIVE_EXTRACTION", CheckWorkspaceDisk(workspaceFree))
    /\ UNCHANGED <<workspaceFree, postgresFree, failures, probes>>

\* Mutant: an answer does not start the count again.
FailuresNeverReset(reachable) == IF reachable THEN failures ELSE failures + 1

FailuresAfter(reachable) == IF reachable THEN 0 ELSE failures + 1

\* Ollama's /api/tags answers, or any exception counts as a failure.
CheckBeforeEmbedding ==
    /\ Len(probes) < MaxProbes
    /\ \E reachable \in BOOLEAN :
        /\ failures' = FailuresAfter(reachable)
        /\ probes' = Append(probes, reachable)
        /\ result' = Result("EMBEDDING", CheckOllama(FailuresAfter(reachable)))
    /\ UNCHANGED <<workspaceFree, postgresFree>>

\* A new process builds a new guard.
RestartProcess ==
    /\ failures' = 0
    /\ probes' = << >>
    /\ result' = NoCheck
    /\ UNCHANGED <<workspaceFree, postgresFree>>

GuardNext ==
    \/ DisksChange \/ CheckBeforeClaim \/ CheckBeforeExtraction
    \/ CheckBeforeEmbedding \/ RestartProcess

GuardSpec == GuardInit /\ [][GuardNext]_guardVars
-----------------------------------------------------------------------------
\* Ollama stops a batch exactly when the last three probes of this process
\* all failed: one answer in between starts the count again, and the checks of
\* the disks neither count nor reset it.
OllamaStopIsPersistent ==
    result.kind = "EMBEDDING" =>
        (result.tier = "HARD_STOP" <=>
            /\ Len(probes) >= OllamaHardStop
            /\ \A i \in Len(probes) - OllamaHardStop + 1 .. Len(probes) : ~probes[i])
=============================================================================
