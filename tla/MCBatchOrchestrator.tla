-------------------------- MODULE MCBatchOrchestrator --------------------------
(***************************************************************************)
(* Instances of BatchOrchestrator for TLC.                                 *)
(***************************************************************************)
EXTENDS BatchOrchestrator, TLC

CONSTANTS b1, b2, b3, b4, w1, w2, letter, notes, photo

(* A drive: an archive that nests too deep, one that extracts, two files of *)
(* text, a copy of the second archive and a film.                           *)
MCCandidates == 1..6
MCSuffix == <<"zip", "zip", "txt", "json", "zip", "mp4">>
MCSizeMB == <<2, 20, 1, 3, 20, 700>>
MCDuplicateOf == <<None, "same", None, None, "same", None>>
MCContentOf == <<notes, notes, letter, notes, notes, photo>>
MCWalk == << <<letter>>, <<photo, letter>>, <<>>, <<>>, <<photo, letter>>, <<>> >>
MCInitialState == [g \in {letter, notes, photo} |->
                      IF g = photo THEN "EXCLUDED" ELSE "EXTRACTED"]
MCChunks == [g \in {letter, notes, photo} |-> IF g = letter THEN 2 ELSE 1]

ArchivesAndText ==
    [extractable |-> TRUE, categories |-> {"ARCHIVE", "LOOSE_FILE"},
     workloads |-> {"CONTAINER", "TEXT_DOCUMENT", "STRUCTURED_DATA"},
     tiers |-> {"LOW", "MEDIUM"}]

\* Of the first call all but the last of the four fit.
First == [drive |-> "t7", seen |-> MCCandidates, policy |-> ArchivesAndText,
          maxInstances |-> 3, maxMB |-> 100, maxExtracted |-> None,
          maxEmbeddings |-> 8, needs |-> {}]
Rest == [First EXCEPT !.maxInstances = 6, !.maxMB = 10]
\* The files of text alone, with room for the smaller one; one archive at a time.
Tight == [First EXCEPT !.maxInstances = 6, !.maxEmbeddings = 1, !.maxExtracted = 10]
\* t7_chain2_retry_failed_batch for the letter.
Retry == [First EXCEPT !.drive = "retry", !.seen = {3}, !.policy = TextDocumentPolicy,
          !.maxInstances = 1, !.maxMB = 1, !.maxEmbeddings = 2, !.needs = {letter}]

MCAsk == (b1 :> First) @@ (b2 :> Rest) @@ (b3 :> Tight) @@ (b4 :> Retry)

Quiet == [calls |-> {b1}, job |-> (w1 :> b1) @@ (w2 :> None), loops |-> {w1}, faults |-> {},
          failures |-> 0, shorts |-> 0, deaths |-> 0, resets |-> 0]

\* Two calls at once, and two processes at two batches.
Race == [Quiet EXCEPT !.calls = {b1, b2}, !.job = (w1 :> b1) @@ (w2 :> b2), !.loops = {w1, w2}]

\* One process, and content that fails for good.
Failing == [Quiet EXCEPT !.faults = {"pipeline"}, !.failures = 2, !.deaths = 1]

\* Two processes at one batch.
Shared == [Quiet EXCEPT !.job = (w1 :> b1) @@ (w2 :> b1), !.deaths = 1]

\* Envelopes that deny, and an operator who pauses.
Denying == [Quiet EXCEPT !.calls = {b2, b3}, !.job = (w1 :> b3) @@ (w2 :> None),
                         !.faults = {"control", "pipeline"}, !.failures = 1,
                         !.shorts = 1]

\* A server that does not answer for all of the texts.
Short == [Quiet EXCEPT !.faults = {"pipeline"}, !.shorts = 2, !.deaths = 1]

\* A failed group is reset and has a batch of its own.
Again == [Quiet EXCEPT !.calls = {b1, b4}, !.job = (w1 :> b1) @@ (w2 :> b4),
                       !.faults = {"pipeline"}, !.resets = 1]

AllScenarios == {Race, Failing, Shared, Short, Denying, Again}
DenyingScenarios == {[Denying EXCEPT !.faults = {}, !.failures = 0, !.shorts = 0]}
=============================================================================
