---------------------------- MODULE MCImportJob ----------------------------
(***************************************************************************)
(* Instances of ImportJob for TLC.                                         *)
(***************************************************************************)
EXTENDS ImportJob, TLC

CONSTANTS c1, c2, c3, x, y, z

MCCalls == {c1, c2, c3}
MCContents == {x, y, z}
MCPaths == {"notes", "a.zip", "b.7z", "imports/d", "imports/m", "imports/n", "imports/n.zip"}

Member(path, content) ==
    [path |-> path, content |-> content, kind |-> "file", size |-> 1000, packed |-> 1, inside |-> TRUE]
Directory(path) ==
    [path |-> path, content |-> Null, kind |-> "dir", size |-> 0, packed |-> 0, inside |-> TRUE]

ZipOf(members) == [path |-> "a.zip", format |-> "zip", valid |-> TRUE, size |-> 1, members |-> members]
SevenZipOf(members) == [path |-> "b.7z", format |-> "7z", valid |-> TRUE, size |-> 3, members |-> members]

Good == <<ZipOf(<<Directory("imports/d"), Member("imports/m", x), Member("imports/n.zip", y)>>),
          SevenZipOf(<<Member("imports/n", z), Member("imports/m", y)>>)>>

Holding(paths) == [p \in Paths |-> IF p \in paths THEN x ELSE Null]

\* A loose file, a zip with a nested archive, and a 7z with a member of the same
\* name as one of the zip's.
Case(archives) ==
    [source |-> Holding({"notes"} \cup {a.path : a \in ToSet(archives)}),
     listing |-> <<"a.zip", "b.7z", "notes">>, archives |-> archives,
     nested |-> {"imports/n.zip"}, free |-> 9000, alone |-> TRUE, callers |-> {c1, c2},
     kinds |-> {"execute"}, faults |-> {}, deaths |-> 0]

\* A source with a broken, unsafe, or oversized second archive.
BadSeconds == {
    [SevenZipOf(<<Member("imports/n", z)>>) EXCEPT !.valid = FALSE],
    SevenZipOf(<<[Member("imports/n", z) EXCEPT !.kind = "symlink"]>>),
    SevenZipOf(<<[Member("imports/n", z) EXCEPT !.size = 3001]>>),
    SevenZipOf(<<[Member("imports/n", z) EXCEPT !.inside = FALSE]>>)}
\* And a first one that holds an empty file, stored as such.
BadFirst == ZipOf(<<Member("imports/m", x), [Member("imports/n", x) EXCEPT !.size = 0, !.packed = 0]>>)

Bad == {[Case(<<Good[1], b>>) EXCEPT !.faults = {"hash"}] : b \in BadSeconds}
        \cup {Case(<<BadFirst, Good[2]>>), [Case(Good) EXCEPT !.free = 4009]}

Faulty == [Case(Good) EXCEPT !.faults = {"missing", "inflate", "hash", "insert", "unreadable", "empty", "embed"}]
ByHand == [Case(Good) EXCEPT !.callers = Calls, !.deaths = 1,
    !.kinds = {"start", "complete", "execute"}, !.faults = {"insert"}]

\* One file and one archive for calls that overlap.
Small == [Case(<<ZipOf(<<Member("imports/m", y)>>)>>)
            EXCEPT !.listing = <<"a.zip", "notes">>, !.alone = FALSE]
Racing == [Small EXCEPT !.faults = {"inflate", "insert", "embed"}]
RacingByHand == [Small EXCEPT !.callers = Calls, !.kinds = {"complete", "execute"}]

SafetySettings == Bad \cup {Faulty, ByHand, Racing, RacingByHand}
=============================================================================
