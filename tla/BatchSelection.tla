---------------------------- MODULE BatchSelection ----------------------------
(***************************************************************************)
(* Which observed files a new ingestion batch takes.                       *)
(*                                                                         *)
(*   policy_evaluator          SourceCategory .. Matches                   *)
(*   deterministic_selector    Deferred, Selection                         *)
(*                                                                         *)
(* A candidate is the rank of its root_t7_path in lexicographic order, so  *)
(* the sort key of the selection is <= on candidates.  Sizes are in MB,    *)
(* the unit in which the risk tiers are separated.                         *)
(***************************************************************************)
EXTENDS Integers, FiniteSets, FiniteSetsExt

CONSTANTS
    Candidates,   \* observed files of a drive
    Suffix,       \* [Candidates -> SuffixClasses]
    SizeMB,       \* [Candidates -> Nat]: declared_size_bytes
    DuplicateOf,  \* [Candidates -> group of equal archives, or None]
    None          \* SQL NULL

\* One of each class of the raw suffixes; "zip_1" is a conflict copy of a .zip.
SuffixClasses == {"zip", "zip_1", "rar", "c9r", "txt", "json", "mp4", "exe", "other"}

ASSUME CandidatesAssumption ==
    /\ IsFiniteSet(Candidates) /\ Candidates \subseteq Nat
    /\ Suffix \in [Candidates -> SuffixClasses]
    /\ SizeMB \in [Candidates -> Nat]
    /\ DOMAIN DuplicateOf = Candidates
-----------------------------------------------------------------------------
SourceCategory(c) == IF Suffix[c] \in {"zip", "zip_1", "rar"} THEN "ARCHIVE" ELSE "LOOSE_FILE"

\* is_extractable_archive_suffix, of the normalized suffix
Extractable(c) == Suffix[c] \in {"zip", "zip_1"}

WorkloadCategory(c) ==
    CASE SourceCategory(c) = "ARCHIVE" -> "CONTAINER"
      [] Suffix[c] = "c9r" -> "ENCRYPTED"
      [] Suffix[c] = "txt" -> "TEXT_DOCUMENT"
      [] Suffix[c] = "json" -> "STRUCTURED_DATA"
      [] Suffix[c] = "mp4" -> "MEDIA"
      [] Suffix[c] = "exe" -> "SOFTWARE"
      [] OTHER -> "UNKNOWN"

RiskTiers == <<"LOW", "MEDIUM", "HIGH", "EXTREME">>

\* The sizes at which the next tier begins.
TierBounds(category) == IF category = "ARCHIVE" THEN {10, 1000, 5000} ELSE {1, 50, 500}

RiskTier(c) ==
    RiskTiers[1 + Cardinality({bound \in TierBounds(SourceCategory(c)) : SizeMB[c] >= bound})]

\* A BatchClassPolicy: what is allowed, and whether an archive must extract.
Matches(policy, c) ==
    /\ SourceCategory(c) = "ARCHIVE" /\ policy.extractable => Extractable(c)
    /\ SourceCategory(c) \in policy.categories
    /\ WorkloadCategory(c) \in policy.workloads
    /\ RiskTier(c) \in policy.tiers

TextDocumentPolicy ==
    [extractable |-> FALSE, categories |-> {"LOOSE_FILE"},
     workloads |-> {"TEXT_DOCUMENT", "STRUCTURED_DATA"}, tiers |-> {"LOW", "MEDIUM"}]
-----------------------------------------------------------------------------
\* Of the archives known to be equal only the first waits its turn.
Deferred(eligible) ==
    {c \in eligible :
        /\ SourceCategory(c) = "ARCHIVE" /\ DuplicateOf[c] # None
        /\ \E d \in eligible :
              d < c /\ SourceCategory(d) = "ARCHIVE" /\ DuplicateOf[d] = DuplicateOf[c]}

TotalMB(S) == SumFunctionOnSet(SizeMB, S)

Fits(S, ask) == Cardinality(S) <= ask.maxInstances /\ TotalMB(S) <= ask.maxMB

\* Mutant: a file that does not fit alone is passed over.
SelectionThatSkips(eligible, ask) ==
    LET fitting == {c \in eligible \ Deferred(eligible) :
                       Matches(ask.policy, c) /\ SizeMB[c] <= ask.maxMB}
    IN  {c \in fitting : Fits({d \in fitting : d <= c}, ask)}

\* The first file in order that exceeds either limit ends the selection.
Selection(eligible, ask) ==
    LET ordered == {c \in eligible \ Deferred(eligible) : Matches(ask.policy, c)}
    IN  {c \in ordered : Fits({d \in ordered : d <= c}, ask)}
=============================================================================
