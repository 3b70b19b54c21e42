-------------------------- MODULE MCSourceIngestion --------------------------
(***************************************************************************)
(* Instances of SourceIngestion for TLC.                                   *)
(***************************************************************************)
EXTENDS SourceIngestion

\* A notes file and an image that hold the same bytes (until the notes change).
MCFiles == {"notes.txt", "notes.jpg"}

\* good.zip has two leaves around a nested archive, deep.zip a nested archive at
\* the depth limit.
MCArchives == {"good.zip", "deep.zip"}

MCCountedAsArchive == MCArchives

MCMembers == {"first", "nested", "second", "tooDeep"}

MCGroups == {"g1", "g2"}

MCWorkers == {"w1", "w2"}

MCWalk == [a \in MCArchives |-> IF a = "good.zip" THEN <<"first", "nested", "second">>
                                ELSE <<"tooDeep">>]

MCKind == [m \in MCMembers |-> CASE m = "nested" -> "archive"
                                 [] m = "tooDeep" -> "tooDeep"
                                 [] OTHER -> "leaf"]

MCContentOf == [i \in MCFiles \cup MCMembers |->
                   CASE i = "notes.txt" -> {"g1", "g2"}
                     [] i = "second" -> {"g2"}
                     [] OTHER -> {"g1"}]

MCEligibility == [i \in MCFiles \cup MCMembers |->
                     IF i \in {"notes.jpg", "second"} THEN "UNSUPPORTED" ELSE "ELIGIBLE"]

MCSuffix == [i \in MCFiles \cup MCMembers |->
                IF MCEligibility[i] = "ELIGIBLE" THEN ".txt" ELSE ".jpg"]

\* good.zip understates what it holds, deep.zip does not.
MCDeclared == [a \in MCArchives |-> 2]
MCActual == [a \in MCArchives |-> IF a = "good.zip" THEN 3 ELSE 2]

Anywhere == Steps \ {"idle", "claimed"}

\* Two workers, same bytes, leases that run out, a death, an operator.
FilesRace == [roots |-> {"notes.txt", "notes.jpg"}, envelope |-> None, stalls |-> {},
              faults |-> {"control"}, claims |-> 1, deaths |-> 1]

FileOvertaken == [roots |-> {"notes.txt"}, envelope |-> None, stalls |-> Anywhere,
                  faults |-> {"read"}, claims |-> 2, deaths |-> 0]

ArchiveOvertaken == [roots |-> {"good.zip"}, envelope |-> 5, stalls |-> Anywhere,
                     faults |-> {"extract"}, claims |-> 2, deaths |-> 1]

ArchiveRetried == [roots |-> {"good.zip"}, envelope |-> 5, stalls |-> {},
                   faults |-> {"extract", "write"}, claims |-> 3, deaths |-> 1]

\* The notes and a member of the archive go to the same file of the workspace.
SameFile == [roots |-> {"notes.txt", "good.zip"}, envelope |-> None, stalls |-> {},
             faults |-> {}, claims |-> 1, deaths |-> 1]

Depth == [roots |-> {"deep.zip", "good.zip"}, envelope |-> 4, stalls |-> {},
          faults |-> {}, claims |-> 2, deaths |-> 0]

NestedTooDeep == [roots |-> {"deep.zip"}, envelope |-> 2, stalls |-> {},
                  faults |-> {"extract"}, claims |-> 2, deaths |-> 0]

CalmFile == [roots |-> {"notes.txt"}, envelope |-> None, stalls |-> {},
             faults |-> {}, claims |-> 2, deaths |-> 1]

CalmArchive == [roots |-> {"good.zip"}, envelope |-> None, stalls |-> {},
                faults |-> {}, claims |-> 2, deaths |-> 1]

CalmBatch == [roots |-> {"notes.txt", "deep.zip"}, envelope |-> None, stalls |-> {},
              faults |-> {}, claims |-> 1, deaths |-> 0]

SafetyScenarios == {FilesRace, FileOvertaken, ArchiveOvertaken, ArchiveRetried, SameFile,
                    Depth, NestedTooDeep, CalmFile, CalmArchive, CalmBatch}
=============================================================================
