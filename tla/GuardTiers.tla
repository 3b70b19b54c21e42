----------------------------- MODULE GuardTiers -----------------------------
(***************************************************************************)
(* What BatchResourceGuard decides from one measurement: the frozen        *)
(* thresholds, the tier of each disk, and the result of the disk check.    *)
(* Free space is counted in GiB: the thresholds are whole GiB, and only    *)
(* the comparison with them matters.                                       *)
(***************************************************************************)
EXTENDS Integers

Tiers == {"NORMAL", "SOFT_STOP", "HARD_STOP"}

Severity == [NORMAL |-> 0, SOFT_STOP |-> 1, HARD_STOP |-> 2]

Normal == [tier |-> "NORMAL", reason |-> "none"]

Tier(free, hardStop, softStop) ==
    IF free < hardStop THEN "HARD_STOP"
    ELSE IF free < softStop THEN "SOFT_STOP" ELSE "NORMAL"

WorkspaceReason == [HARD_STOP |-> "WORKSPACE_HARD_STOP",
                    SOFT_STOP |-> "WORKSPACE_SOFT_STOP", NORMAL |-> "none"]

PostgresReason == [HARD_STOP |-> "POSTGRES_HARD_STOP",
                   SOFT_STOP |-> "POSTGRES_SOFT_STOP", NORMAL |-> "none"]

CheckWorkspaceDisk(free) ==
    LET tier == Tier(free, 10, 15) IN [tier |-> tier, reason |-> WorkspaceReason[tier]]

CheckPostgresDisk(free) ==
    LET tier == Tier(free, 5, 8) IN [tier |-> tier, reason |-> PostgresReason[tier]]

\* The more severe of the two; the workspace wins a tie.
CheckDisk(workspaceFree, postgresFree) ==
    LET workspace == CheckWorkspaceDisk(workspaceFree)
        postgres  == CheckPostgresDisk(postgresFree)
    IN  IF Severity[postgres.tier] > Severity[workspace.tier] THEN postgres ELSE workspace

\* One measurement on each side of every threshold.
WorkspaceSamples == {9, 10, 14, 15}
PostgresSamples == {4, 5, 7, 8}

DiskVerdicts == {CheckDisk(w, p) : w \in WorkspaceSamples, p \in PostgresSamples}

OllamaHardStop == 3

CheckOllama(consecutiveFailures) ==
    IF consecutiveFailures >= OllamaHardStop
    THEN [tier |-> "HARD_STOP", reason |-> "OLLAMA_PERSISTENTLY_UNREACHABLE"]
    ELSE Normal
=============================================================================
