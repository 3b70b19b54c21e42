------------------------ MODULE MCArchiveRetirement ------------------------
(***************************************************************************)
(* Instances of ArchiveRetirement for TLC.                                 *)
(***************************************************************************)
EXTENDS ArchiveRetirement, TLC

CONSTANTS x, y, z, zipA, zipB, zipN

MCPaths == {"x", "dup/x", "a.zip", "b.zip"}
MCContents == {x, y, z, zipA, zipB, zipN}
MCSize == x :> 1 @@ y :> 1 @@ z :> 2 @@ zipN :> 3 @@ zipB :> 4 @@ zipA :> 5

Plain(key, name, content) == [key |-> key, upto |-> None, name |-> name, content |-> content, nest |-> None]
Nested(key, name, content, in) == [key |-> key, upto |-> in, name |-> name, content |-> content, nest |-> in]

\* zipA holds x and a nested archive of y; zipB holds a name twice.
MCInside ==
    [c \in MCContents |->
        CASE c = zipN -> <<Plain("y", "y", y)>>
          [] c = zipA -> <<Plain("x", "x", x), Plain("n.zip", "n.zip", zipN), Nested("n.zip!y", "y", y, "n.zip")>>
          [] c = zipB -> <<Plain("x", "x", x), Plain("z", "z", z), Plain("z", "z", z)>>
          [] OTHER -> << >>]

MCName == "x" :> "x" @@ "dup/x" :> "x" @@ "a.zip" :> "a.zip" @@ "b.zip" :> "b.zip"
MCOrder == <<"x", "a.zip", "b.zip", "dup/x">>
MCRelPath == "x" :> "x" @@ "z" :> "z" @@ "y" :> "y" @@ "n.zip" :> "n.zip" @@ "n.zip!y" :> "n.zip!/y"

Case(drive) ==
    [drive |-> drive, archives |-> {"a.zip", "b.zip"}, runs |-> 2, touches |-> 0, hands |-> {},
     writes |-> {}, faults |-> {}, healthy |-> FALSE]

Full == "x" :> x @@ "dup/x" :> x @@ "a.zip" :> zipA @@ "b.zip" :> zipB
Lean == "x" :> y @@ "a.zip" :> zipA @@ "b.zip" :> zipB
Twins == "x" :> y @@ "a.zip" :> zipA @@ "b.zip" :> zipA

\* Scripts that are stopped anywhere and run again.
Stopped == {[Case(d) EXCEPT !.runs = 3, !.faults = {"die"}, !.healthy = TRUE] : d \in {Full, Lean, Twins}}

\* Files and members that cannot be read, a full disk.
Broken == {[Case(d) EXCEPT !.faults = {"unreadable", "space"}] : d \in {Full, Lean}}

\* Hands at the drive while the scripts are at work.
Shared == {[Case(Full) EXCEPT !.runs = 2, !.touches = 2, !.hands = {"write", "delete"}, !.writes = {y}],
           [Case(Lean) EXCEPT !.touches = 2, !.hands = {"write", "delete", "tidy"}, !.writes = {x, zipA}]}

AllScenarios == Stopped \cup Broken \cup Shared
=============================================================================
