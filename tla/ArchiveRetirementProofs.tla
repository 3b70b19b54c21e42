----------------------- MODULE ArchiveRetirementProofs -----------------------
(***************************************************************************)
(* Theorems about ArchiveRetirement, for every drive, everything archives  *)
(* may hold, and any number of runs and of changes by other hands.         *)
(***************************************************************************)
EXTENDS ArchiveRetirement, SumTheorems

\* What a function is that was changed or extended at one place.
LEMMA WithIs ==
    ASSUME NEW f, NEW k, NEW v
    PROVE  /\ DOMAIN With(f, k, v) = DOMAIN f \cup {k}
           /\ With(f, k, v)[k] = v
           /\ \A x \in DOMAIN f : x # k => With(f, k, v)[x] = f[x]
BY DEF With
-----------------------------------------------------------------------------
(* The manifest.  A file whose modification time is not past the report's  *)
(* (or the scan's) by more than the slack was not written since, for a     *)
(* write takes a later one.  What was read of it since is what it holds.   *)

\* Time stamps are not in the future.
TimeOK ==
    /\ clock \in Nat
    /\ report = [at |-> report.at, size |-> report.size, hash |-> report.hash]
    /\ report.at \in 0..clock
    /\ \A p \in Paths : scan[p] # None => scan[p].mtime \in 0..clock
    /\ DOMAIN files = Paths
    /\ \A p \in There : files[p].mtime \in 0..clock /\ files[p].content \in Contents

\* A script writes nothing before its turn.
StagesInOrder ==
    /\ stage \in {"analyze", "hash", "list"} => DOMAIN own = {}
    /\ stage \in {"analyze", "hash", "list", "loose"} => DOMAIN rows = {}
    /\ run.phase # "none" => stage = "ready"

SinceReport(p) == p \in There /\ files[p].mtime <= report.at + MtimeSlack
SinceScan(p) == p \in There /\ scan[p] # None /\ files[p].mtime <= scan[p].mtime + MtimeSlack

\* A hash is the content of a file that was not written since the report began,
\* or since the scan.
HashesTrue ==
    \A p \in Paths :
        /\ p \in DOMAIN report.hash /\ SinceReport(p) => Content(p) = report.hash[p]
        /\ p \in DOMAIN own /\ own[p] # None /\ SinceScan(p) => Content(p) = own[p]

ManifestInv == TimeOK /\ StagesInOrder /\ HashesTrue

\* Before the first script nothing is claimed of any file.
LEMMA ManifestInit == Init => ManifestInv
<1>. SUFFICES ASSUME Init PROVE ManifestInv
  OBVIOUS
<1>1. TimeOK
  BY ScenariosAssumption, NoneAssumption DEF Init, TimeOK, There
<1>2. StagesInOrder /\ HashesTrue
  BY DEF Init, StagesInOrder, HashesTrue, NoRun
<1>. QED
  BY <1>1, <1>2 DEF ManifestInv

\* What a step does to the drive and to what the scripts know of it.
LEMMA KnownSteps ==
    ASSUME [Next]_vars
    PROVE  \/ UNCHANGED <<files, clock, stage, known>>
           \/ AnalyzeSizes \/ Scan \/ ListArchives \/ EndLoose \/ EndHashing \/ Unlink
           \/ \E p \in Paths : \/ AnalyzeFile(p) \/ HashLoose(p) \/ HashMembers(p)
                               \/ HashMembersFails(p) \/ Write(p) \/ Delete(p)
<1>1. CASE NextArchive \/ NoSpace \/ Begin \/ Check
  BY <1>1 DEF NextArchive, NoSpace, Begin, Check, DriveStays
<1>2. CASE KeepMember \/ ExtractMember \/ Log \/ EndRun \/ Die
  BY <1>2 DEF KeepMember, ExtractMember, Log, EndRun, Die, DriveStays
<1>3. CASE DeleteExtracted
  BY <1>3 DEF DeleteExtracted, Touched
<1>4. CASE UNCHANGED vars
  BY <1>4 DEF vars
<1>. QED
  BY <1>1, <1>2, <1>3, <1>4, SMTT(30) DEF Next, ScriptStep, Hands

\* A file that is changed takes a time stamp of its own.
LEMMA WriteIs ==
    ASSUME TimeOK, NEW p \in Paths, Write(p), scenario \in Scenarios
    PROVE  /\ UNCHANGED <<stage, known>>
           /\ clock' = clock + 10
           /\ p \in There' => files'[p].mtime = clock' /\ files'[p].content \in Contents
           /\ DOMAIN files' = Paths
           /\ \A q \in Paths \ {p} : files'[q] = files[q]
BY ScenariosAssumption DEF Write, Touched, TimeOK, There

\* Time stamps stay in the past.
LEMMA TimeStep ==
    ASSUME TimeOK, [Next]_vars, scenario \in Scenarios
    PROVE  TimeOK'
<1>. USE DEF TimeOK
<1>1. CASE UNCHANGED <<files, clock, stage, known>>
  BY <1>1 DEF known, There
<1>2. CASE AnalyzeSizes
  BY <1>2 DEF AnalyzeSizes, Report, There
<1>3. CASE Scan
  BY <1>3 DEF Scan, There
<1>4. CASE ListArchives \/ EndLoose \/ EndHashing
  BY <1>4 DEF ListArchives, EndLoose, EndHashing, known, There
<1>5. CASE Unlink
  BY <1>5 DEF Unlink, known, There
<1>6. ASSUME NEW p \in Paths, AnalyzeFile(p) PROVE TimeOK'
  BY <1>6 DEF AnalyzeFile, Hashed, There
<1>7. ASSUME NEW p \in Paths, HashLoose(p) \/ HashMembers(p) \/ HashMembersFails(p) PROVE TimeOK'
  BY <1>7 DEF HashLoose, HashMembers, HashMembersFails, There
<1>8. ASSUME NEW p \in Paths, Write(p) PROVE TimeOK'
  BY <1>8, WriteIs DEF known, There
<1>9. ASSUME NEW p \in Paths, Delete(p) PROVE TimeOK'
  BY <1>9 DEF Delete, Touched, known, There
<1>. QED
  BY <1>1, <1>2, <1>3, <1>4, <1>5, <1>6, <1>7, <1>8, <1>9, KnownSteps

\* Nothing that was read of a file becomes false while its time stamp stays.
LEMMA HashesStep ==
    ASSUME ManifestInv, [Next]_vars, scenario \in Scenarios
    PROVE  HashesTrue'
<1>. USE DEF ManifestInv, HashesTrue, SinceReport, SinceScan, Content, MtimeSlack
<1>1. CASE UNCHANGED <<files, clock, stage, known>>
  BY <1>1 DEF known, There
<1>2. CASE AnalyzeSizes
  BY <1>2 DEF AnalyzeSizes, Report, There
<1>3. CASE Scan
  BY <1>3 DEF Scan, There, StagesInOrder
<1>4. CASE ListArchives \/ EndLoose \/ EndHashing
  BY <1>4 DEF ListArchives, EndLoose, EndHashing, known, There
<1>5. CASE Unlink
  <2>1. There' \subseteq There /\ \A q \in There' : files'[q] = files[q]
    BY <1>5 DEF Unlink, There, TimeOK
  <2>. QED
    BY <1>5, <2>1 DEF Unlink, known
<1>6. ASSUME NEW p \in Paths, AnalyzeFile(p) PROVE HashesTrue'
  <2>1. /\ report'.at = report.at
        /\ DOMAIN report'.hash = DOMAIN report.hash \cup {p}
        /\ report'.hash[p] = Content(p)
        /\ \A q \in DOMAIN report.hash : q # p => report'.hash[q] = report.hash[q]
    <3>1. report' = [at |-> report.at, size |-> report.size, hash |-> With(report.hash, p, Content(p))]
      BY <1>6 DEF AnalyzeFile, Hashed, TimeOK
    <3>. QED
      BY <3>1 DEF With
  <2>2. UNCHANGED <<files, scan, own>>
    BY <1>6 DEF AnalyzeFile
  <2>. QED
    BY <2>1, <2>2 DEF There
<1>7. ASSUME NEW p \in Paths, HashLoose(p) PROVE HashesTrue'
  <2>1. /\ DOMAIN own' = DOMAIN own \cup {p}
        /\ own'[p] \in {Content(p), None}
        /\ \A q \in DOMAIN own : q # p => own'[q] = own[q]
    BY <1>7 DEF HashLoose, With
  <2>2. UNCHANGED <<files, scan, report>>
    BY <1>7 DEF HashLoose
  <2>. QED
    BY <2>1, <2>2 DEF There
<1>8. ASSUME NEW p \in Paths, HashMembers(p) \/ HashMembersFails(p) PROVE HashesTrue'
  BY <1>8 DEF HashMembers, HashMembersFails, There
<1>9. ASSUME NEW p \in Paths, Write(p) PROVE HashesTrue'
  <2>. SUFFICES ASSUME NEW q \in Paths, q \in There'
                PROVE  /\ q \in DOMAIN report'.hash /\ SinceReport(q)' => Content(q)' = report'.hash[q]
                       /\ q \in DOMAIN own' /\ own'[q] # None /\ SinceScan(q)' =>
                              Content(q)' = own'[q]
    OBVIOUS
  <2>1. UNCHANGED known
    BY <1>9, WriteIs
  <2>2. CASE q = p
    <3>1. files'[q].mtime = clock + 10
      BY <1>9, <2>2, WriteIs
    <3>2. ~SinceReport(q)' /\ ~SinceScan(q)'
      BY <2>1, <3>1 DEF TimeOK, known
    <3>. QED
      BY <3>2
  <2>3. CASE q # p
    <3>1. files'[q] = files[q] /\ q \in There
      BY <1>9, <2>3, WriteIs DEF There
    <3>. QED
      BY <2>1, <3>1 DEF known
  <2>. QED
    BY <2>2, <2>3
<1>10. ASSUME NEW p \in Paths, Delete(p) PROVE HashesTrue'
  <2>1. There' \subseteq There /\ \A q \in There' : files'[q] = files[q]
    BY <1>10 DEF Delete, There, TimeOK
  <2>. QED
    BY <1>10, <2>1 DEF Delete, Touched, known
<1>. QED
  BY <1>1, <1>2, <1>3, <1>4, <1>5, <1>6, <1>7, <1>8, <1>9, <1>10, KnownSteps

\* The scripts keep their order.
LEMMA StagesStep == StagesInOrder /\ [Next]_vars => StagesInOrder'
<1>. SUFFICES ASSUME StagesInOrder, [Next]_vars PROVE StagesInOrder'
  BY SMTT(30)
<1>. USE DEF StagesInOrder
<1>1. CASE NextArchive \/ NoSpace \/ Begin \/ Check
  BY <1>1 DEF NextArchive, NoSpace, Begin, Check, DriveStays, known
<1>2. CASE KeepMember \/ ExtractMember \/ Log
  BY <1>2 DEF KeepMember, ExtractMember, Log, DriveStays, known
<1>3. CASE EndRun \/ Die
  BY <1>3 DEF EndRun, Die, DriveStays, known, Step, NoRun
<1>4. CASE DeleteExtracted
  BY <1>4 DEF DeleteExtracted, Touched, known
<1>5. CASE UNCHANGED vars
  BY <1>5 DEF vars, known
<1>6. CASE Unlink
  BY <1>6 DEF Unlink, known
<1>7. CASE AnalyzeSizes \/ Scan \/ ListArchives
  BY <1>7 DEF AnalyzeSizes, Scan, ListArchives
<1>8. CASE EndLoose \/ EndHashing
  BY <1>8 DEF EndLoose, EndHashing, known
<1>9. ASSUME NEW p \in Paths, \/ AnalyzeFile(p) \/ HashLoose(p)
                              \/ HashMembers(p) \/ HashMembersFails(p)
      PROVE  StagesInOrder'
  BY <1>9 DEF AnalyzeFile, HashLoose, HashMembers, HashMembersFails
<1>10. ASSUME NEW p \in Paths, Write(p) \/ Delete(p) PROVE StagesInOrder'
  BY <1>10 DEF Write, Delete, Touched, known
<1>. QED
  BY <1>1, <1>2, <1>3, <1>4, <1>5, <1>6, <1>7, <1>8, <1>9, <1>10 DEF Next, ScriptStep, Hands

\* The circumstances do not change.
LEMMA ScenarioStep == scenario \in Scenarios /\ [Next]_vars => scenario' \in Scenarios
<1>. SUFFICES ASSUME [Next]_vars PROVE scenario' = scenario
  BY SMTT(30)
<1>1. CASE ScriptStep
  BY <1>1 DEF ScriptStep, NextArchive, NoSpace, Begin, Check, KeepMember, ExtractMember, Log,
     EndRun, Die, DriveStays, Unlink, AnalyzeSizes, Scan, ListArchives, EndLoose, EndHashing,
     AnalyzeFile, HashLoose, HashMembers, HashMembersFails
<1>2. CASE Hands \/ UNCHANGED vars
  BY <1>2 DEF Hands, Write, Delete, DeleteExtracted, Touched, vars
<1>. QED
  BY <1>1, <1>2 DEF Next

\* A file that the manifest has a hash of, and that has the time of the scan,
\* holds what was hashed.
LEMMA ManifestTrue ==
    ASSUME ManifestInv, NEW p \in Paths, scan[p] # None, Unchanged(p), Sha(p) # None
    PROVE  Content(p) = Sha(p)
<1>1. /\ p \in There
      /\ files[p].mtime \in Nat /\ scan[p].mtime \in Nat /\ report.at \in Nat
      /\ files[p].mtime <= scan[p].mtime + MtimeSlack
  BY DEF Unchanged, MtimeSlack, ManifestInv, TimeOK
<1>2. CASE p \in DOMAIN own /\ own[p] # None
  BY <1>1, <1>2 DEF Sha, ManifestInv, HashesTrue, SinceScan
<1>3. CASE ~(p \in DOMAIN own /\ own[p] # None)
  <2>1. Grouped(p) /\ scan[p].mtime <= report.at /\ Sha(p) = report.hash[p]
    BY <1>3 DEF Sha
  <2>2. p \in DOMAIN report.hash
    <3>1. CASE Group(p) = {}
      BY <2>1, <3>1, FS_EmptySet DEF Grouped
    <3>. QED
      BY <3>1 DEF Group
  <2>3. SinceReport(p)
    BY <1>1, <2>1 DEF SinceReport, MtimeSlack
  <2>. QED
    BY <2>1, <2>2, <2>3 DEF ManifestInv, HashesTrue
<1>. QED
  BY <1>2, <1>3

\* The manifest stays true of every loose file that looks unchanged, whatever was
\* written while the report, the scan and the hashes were made.
THEOREM LooseFilesTrue == Spec => []LooseIsTrue
<1> DEFINE Inv == ManifestInv /\ scenario \in Scenarios
<1>1. Init => Inv
  BY ManifestInit DEF Init
<1>2. Inv /\ [Next]_vars => Inv'
  BY TimeStep, StagesStep, HashesStep, ScenarioStep DEF ManifestInv
<1>3. Inv => LooseIsTrue
  BY ManifestTrue DEF LooseIsTrue
<1>. QED
  BY <1>1, <1>2, <1>3, PTL DEF Spec
-----------------------------------------------------------------------------
(* Rows.  Of an archive that was not written since the scan they are the   *)
(* rows of what it holds.                                                  *)

RowsTyped ==
    \A a \in DOMAIN rows : a \in Paths /\ \A r \in rows[a].of :
        r.key \in DOMAIN RelPath /\ r.sha \in Contents \cup {None}

\* An archive that was hashed to its end, and not written since.
RowsTrue ==
    \A a \in Paths : a \in DOMAIN rows /\ rows[a].done /\ SinceScan(a) =>
        \E unread \in SUBSET Keys(Content(a)), closed \in SUBSET Nests(Content(a)) :
            rows[a].of = RowsOf(Content(a), unread, closed)

\* Where a member is extracted to decides its content.
OnePlace ==
    \A a \in DOMAIN rows : \A q, r \in rows[a].of :
        q.sha # None /\ r.sha # None /\ RelPath[q.key] = RelPath[r.key] => q.sha = r.sha

RowsInv == RowsTyped /\ RowsTrue /\ OnePlace

\* Members are typed, and so are the nested archives they lie in.
LEMMA MemberTypes ==
    ASSUME NEW c \in Contents
    PROVE  /\ \A m \in ToSet(Inside[c]) : m.key \in DOMAIN RelPath /\ m.content \in Contents
           /\ Keys(c) \subseteq DOMAIN RelPath /\ Nests(c) \subseteq DOMAIN RelPath
<1>1. \A m \in ToSet(Inside[c]) : m.key \in DOMAIN RelPath /\ m.content \in Contents
  BY InsideAssumption DEF ToSet
<1>2. \A m \in ToSet(Inside[c]) : m.nest # None => m.nest \in DOMAIN RelPath
  BY InsideAssumption DEF ToSet
<1>. QED
  BY <1>1, <1>2 DEF Keys, Nests

\* A row with a hash is that of a member.
LEMMA RowsAre ==
    ASSUME NEW c \in Contents, NEW unread, NEW closed \in SUBSET Nests(c),
           NEW r \in RowsOf(c, unread, closed)
    PROVE  /\ r.key \in DOMAIN RelPath
           /\ r.sha \in Contents \cup {None}
           /\ r.sha # None => \E m \in ToSet(Inside[c]) : r.key = m.key /\ r.sha = m.content
<1>1. CASE \E m \in ToSet(Inside[c]) :
              r = [key |-> m.key, upto |-> m.upto, sha |-> IF m.key \in unread THEN None ELSE m.content]
  BY <1>1, MemberTypes
<1>2. CASE \E k \in closed : r = [key |-> k, upto |-> k, sha |-> None]
  BY <1>2, MemberTypes
<1>. QED
  BY <1>1, <1>2 DEF RowsOf

\* What an archive that was hashed without errors holds: every member has its row.
LEMMA RowsComplete ==
    ASSUME NEW c \in Contents, NEW unread \in SUBSET Keys(c), NEW closed \in SUBSET Nests(c),
           \A r \in RowsOf(c, unread, closed) : r.sha # None
    PROVE  RowsOf(c, unread, closed) =
              {[key |-> m.key, upto |-> m.upto, sha |-> m.content] : m \in ToSet(Inside[c])}
<1>1. closed = {}
  <2>1. \A k \in closed : [key |-> k, upto |-> k, sha |-> None] \in RowsOf(c, unread, closed)
    BY DEF RowsOf
  <2>. QED
    BY <2>1
<1>. DEFINE Hidden == {i \in DOMAIN Inside[c] : Inside[c][i].nest \in unread \/ Inside[c][i].key \in unread}
<1>2. Hidden = {}
  <2>. SUFFICES ASSUME Hidden # {} PROVE FALSE
    OBVIOUS
  <2>1. Hidden \in SUBSET Nat
    BY InsideAssumption
  <2>2. PICK i \in Hidden : \A j \in Hidden : i <= j
    BY <2>1, Least
  <2>3. Inside[c][i].nest \notin unread
    <3>. SUFFICES ASSUME Inside[c][i].nest \in unread PROVE FALSE
      OBVIOUS
    <3>1. Inside[c][i].nest # None
      BY MemberTypes, NoneAssumption
    <3>2. PICK j \in DOMAIN Inside[c] : j < i /\ Inside[c][j].key = Inside[c][i].nest
      BY <3>1, InsideAssumption
    <3>3. j \in Hidden
      BY <3>2
    <3>. QED
      BY <2>1, <2>2, <3>2, <3>3
  <2>. DEFINE m == Inside[c][i]
  <2>4. m \in ToSet(Inside[c]) /\ m.key \in unread /\ m.nest \notin closed \cup unread
    BY <1>1, <2>2, <2>3 DEF ToSet
  <2>5. [key |-> m.key, upto |-> m.upto, sha |-> None] \in RowsOf(c, unread, closed)
    BY <2>4 DEF RowsOf
  <2>. QED
    BY <2>5
<1>3. \A m \in ToSet(Inside[c]) : m.nest \notin closed \cup unread /\ m.key \notin unread
  BY <1>1, <1>2 DEF ToSet
<1>. QED
  BY <1>1, <1>3 DEF RowsOf

\* The rows of the other archives stay.
LEMMA RowsSteps ==
    ASSUME [Next]_vars
    PROVE  \/ rows' = rows
           \/ \E p \in Paths : HashMembers(p) \/ HashMembersFails(p)
<1>1. ASSUME NEW p \in Paths, AnalyzeFile(p) \/ HashLoose(p) PROVE rows' = rows
  BY <1>1 DEF AnalyzeFile, HashLoose
<1>2. CASE AnalyzeSizes \/ Scan \/ ListArchives \/ EndLoose \/ EndHashing \/ Unlink
  BY <1>2 DEF AnalyzeSizes, Scan, ListArchives, EndLoose, EndHashing, Unlink, known
<1>3. ASSUME NEW p \in Paths, Write(p) \/ Delete(p) PROVE rows' = rows
  BY <1>3 DEF Write, Delete, Touched, known
<1>. QED
  BY <1>1, <1>2, <1>3, KnownSteps DEF known

\* A write of an archive takes its rows out of force, and nothing else changes them.
LEMMA RowsTrueStep ==
    ASSUME ManifestInv, RowsInv, [Next]_vars, scenario \in Scenarios
    PROVE  RowsTrue'
<1>. USE DEF ManifestInv, RowsInv, RowsTrue, SinceScan, Content, MtimeSlack
<1>1. CASE UNCHANGED <<files, clock, stage, known>>
  BY <1>1 DEF known, There
<1>2. CASE Scan
  BY <1>2 DEF Scan, StagesInOrder
<1>3. CASE AnalyzeSizes \/ ListArchives \/ EndLoose \/ EndHashing
  BY <1>3 DEF AnalyzeSizes, ListArchives, EndLoose, EndHashing, known, There
<1>4. ASSUME NEW p \in Paths, AnalyzeFile(p) \/ HashLoose(p) PROVE RowsTrue'
  BY <1>4 DEF AnalyzeFile, HashLoose, There
<1>5. CASE Unlink
  <2>1. There' \subseteq There /\ \A q \in There' : files'[q] = files[q]
    BY <1>5 DEF Unlink, There, TimeOK
  <2>2. UNCHANGED <<scan, rows>>
    BY <1>5 DEF Unlink, known
  <2>. QED
    BY <2>1, <2>2
<1>6. ASSUME NEW p \in Paths, Delete(p) PROVE RowsTrue'
  <2>1. There' \subseteq There /\ \A q \in There' : files'[q] = files[q]
    BY <1>6 DEF Delete, There, TimeOK
  <2>. QED
    BY <1>6, <2>1, SMTT(30) DEF Delete, Touched, known
<1>7. ASSUME NEW p \in Paths, Write(p) PROVE RowsTrue'
  <2>1. UNCHANGED known
    BY <1>7, WriteIs
  <2>2. ~SinceScan(p)'
    BY <1>7, <2>1, WriteIs DEF TimeOK, known
  <2>3. \A q \in Paths \ {p} : files'[q] = files[q] /\ (q \in There' <=> q \in There)
    BY <1>7, WriteIs DEF There
  <2>. QED
    BY <2>1, <2>2, <2>3 DEF known
<1>8. ASSUME NEW p \in Paths, HashMembers(p) PROVE RowsTrue'
  <2>1. PICK unread \in SUBSET Keys(Content(p)), closed \in SUBSET Nests(Content(p)) :
           rows' = With(rows, p, [done |-> TRUE, of |-> RowsOf(Content(p), unread, closed)])
    BY <1>8 DEF HashMembers
  <2>2. /\ DOMAIN rows' = DOMAIN rows \cup {p}
        /\ rows'[p].of = RowsOf(Content(p), unread, closed)
        /\ \A q \in DOMAIN rows : q # p => rows'[q] = rows[q]
    BY <2>1 DEF With
  <2>3. UNCHANGED <<files, scan>>
    BY <1>8 DEF HashMembers
  <2>. QED
    BY <2>2, <2>3 DEF There
<1>9. ASSUME NEW p \in Paths, HashMembersFails(p) PROVE RowsTrue'
  <2>1. /\ DOMAIN rows' = DOMAIN rows \cup {p}
        /\ ~rows'[p].done
        /\ \A q \in DOMAIN rows : q # p => rows'[q] = rows[q]
    BY <1>9 DEF HashMembersFails, With
  <2>2. UNCHANGED <<files, scan>>
    BY <1>9 DEF HashMembersFails
  <2>. QED
    BY <2>1, <2>2 DEF There
<1>. QED
  BY <1>1, <1>2, <1>3, <1>4, <1>5, <1>6, <1>7, <1>8, <1>9, KnownSteps

\* The rows stay those of members, and so one content to a place.
LEMMA RowsStep ==
    ASSUME PlacesDiffer, ManifestInv, RowsInv, [Next]_vars, scenario \in Scenarios
    PROVE  RowsInv'
<1>. SUFFICES RowsTyped' /\ OnePlace'
  BY RowsTrueStep DEF RowsInv
<1>. USE DEF RowsInv, RowsTyped, OnePlace
<1>1. CASE rows' = rows
  BY <1>1
<1>2. ASSUME NEW p \in Paths, HashMembers(p) PROVE RowsTyped' /\ OnePlace'
  <2>. DEFINE c == Content(p)
  <2>1. PICK unread \in SUBSET Keys(c), closed \in SUBSET Nests(c) :
           rows' = With(rows, p, [done |-> TRUE, of |-> RowsOf(c, unread, closed)])
    BY <1>2 DEF HashMembers
  <2>2. /\ DOMAIN rows' = DOMAIN rows \cup {p}
        /\ rows'[p].of = RowsOf(c, unread, closed)
        /\ \A q \in DOMAIN rows : q # p => rows'[q] = rows[q]
    BY <2>1 DEF With
  <2>3. c \in Contents
    BY <1>2 DEF HashMembers, ManifestInv, TimeOK, Content
  <2>4. \A r \in rows'[p].of :
           /\ r.key \in DOMAIN RelPath /\ r.sha \in Contents \cup {None}
           /\ r.sha # None => \E m \in ToSet(Inside[c]) : r.key = m.key /\ r.sha = m.content
    BY <2>2, <2>3, RowsAre
  <2>5. \A q, r \in rows'[p].of :
           q.sha # None /\ r.sha # None /\ RelPath[q.key] = RelPath[r.key] => q.sha = r.sha
    <3>. SUFFICES ASSUME NEW q \in rows'[p].of, NEW r \in rows'[p].of, q.sha # None, r.sha # None,
                         RelPath[q.key] = RelPath[r.key]
                  PROVE  q.sha = r.sha
      OBVIOUS
    <3>1. PICK m \in ToSet(Inside[c]) : q.key = m.key /\ q.sha = m.content
      BY <2>4
    <3>2. PICK n \in ToSet(Inside[c]) : r.key = n.key /\ r.sha = n.content
      BY <2>4
    <3>. QED
      BY <2>3, <3>1, <3>2 DEF PlacesDiffer
  <2>. QED
    BY <2>2, <2>4, <2>5
<1>3. ASSUME NEW p \in Paths, HashMembersFails(p) PROVE RowsTyped' /\ OnePlace'
  <2>1. /\ DOMAIN rows' = DOMAIN rows \cup {p}
        /\ rows'[p].of = {}
        /\ \A q \in DOMAIN rows : q # p => rows'[q] = rows[q]
    BY <1>3 DEF HashMembersFails, With
  <2>. QED
    BY <2>1
<1>. QED
  BY <1>1, <1>2, <1>3, RowsSteps
-----------------------------------------------------------------------------
(* Runs.  Whatever was extracted, logged or found in the log is at a place *)
(* that belongs to a row with its hash, and so to no other content.        *)

Entries == [sha : Contents, path : Places]

Vouched(sha, d) ==
    /\ d[1] \in DOMAIN rows
    /\ \E r \in rows[d[1]].of : r.sha = sha /\ r.sha # None /\ RelPath[r.key] = d[2]

CopiesVouched ==
    /\ csv \in Seq(Entries) /\ run.verified \in Seq(Entries)
    /\ \A d \in DOMAIN dest : Vouched(dest[d], d)
    /\ \A i \in DOMAIN csv : Vouched(csv[i].sha, csv[i].path)
    /\ \A i \in DOMAIN run.verified : Vouched(run.verified[i].sha, run.verified[i].path)
    /\ \A sha \in DOMAIN run.have : Vouched(sha, run.have[sha])

\* Nothing is extracted before the manifest is made.
NothingEarly ==
    /\ run = [phase |-> run.phase, queue |-> run.queue, top |-> run.top, opened |-> run.opened,
              needed |-> run.needed, todo |-> run.todo, verified |-> run.verified,
              ok |-> run.ok, have |-> run.have]
    /\ run.phase = "none" => run = NoRun
    /\ stage # "ready" => DOMAIN dest = {} /\ csv = << >>

\* An archive that is worked on was hashed to its end, without errors.
TopInOrder ==
    /\ run.queue \subseteq {p \in DOMAIN rows : rows[p].done}
    /\ run.phase \in {"extract", "check", "unlink"} =>
          run.top \in DOMAIN rows /\ rows[run.top].done /\ ~Errored(run.top)

\* What is wanted of it are contents of its rows, and what is still to do are members
\* that are wanted.
NeededInOrder ==
    run.phase = "extract" =>
        /\ \A k \in DOMAIN run.needed :
              \E r \in rows[run.top].of : r.key = k /\ r.sha = run.needed[k] /\ r.sha # None
        /\ run.todo # {} => run.opened \in Contents
        /\ run.todo \subseteq {i \in DOMAIN Inside[run.opened] :
                                  Inside[run.opened][i].key \in DOMAIN run.needed}

Safe(top, have) == Unchanged(top) /\ \A r \in Leaves(top) : Covered(r.sha, top, have)

\* What the last check found is so until the deletion.
UnlinkSafe == run.phase = "unlink" => Safe(run.top, run.have)

RunInv == NothingEarly /\ CopiesVouched /\ TopInOrder /\ NeededInOrder /\ UnlinkSafe

\* The drive is hashed once.
LEMMA ReadyStays ==
    ASSUME [Next]_vars, stage = "ready"
    PROVE  UNCHANGED <<stage, known>>
<1>1. ASSUME NEW p \in Paths, Write(p) \/ Delete(p) PROVE UNCHANGED <<stage, known>>
  BY <1>1 DEF Write, Delete, Touched
<1>2. CASE Unlink
  BY <1>2 DEF Unlink
<1>. QED
  BY <1>1, <1>2, KnownSteps DEF AnalyzeSizes, Scan, ListArchives, EndLoose, EndHashing, AnalyzeFile,
     HashLoose, HashMembers, HashMembersFails

\* Until then no extract script runs.
LEMMA NotReadyStep ==
    ASSUME RunInv, StagesInOrder, stage # "ready", [Next]_vars
    PROVE  RunInv'
<1>1. run = NoRun /\ DOMAIN dest = {} /\ csv = << >>
  BY DEF RunInv, NothingEarly, StagesInOrder
<1>2. UNCHANGED <<run, dest, csv>>
  <2>1. run.phase = "none"
    BY <1>1 DEF NoRun
  <2>2. CASE ScriptStep
    BY <1>1, <2>1, <2>2 DEF ScriptStep, NextArchive, NoSpace, Begin, Check, KeepMember, ExtractMember,
       Log, EndRun, Die, Unlink, AnalyzeSizes, Scan, ListArchives, EndLoose, EndHashing,
       AnalyzeFile, HashLoose, HashMembers, HashMembersFails
  <2>3. CASE Hands \/ UNCHANGED vars
    BY <1>1, <2>3 DEF Hands, Write, Delete, DeleteExtracted, Touched, vars
  <2>. QED
    BY <2>2, <2>3 DEF Next
<1>3. NothingEarly' /\ TopInOrder' /\ NeededInOrder' /\ UnlinkSafe'
  BY <1>1, <1>2 DEF NothingEarly, TopInOrder, NeededInOrder, UnlinkSafe, NoRun
<1>4. CopiesVouched'
  BY <1>1, <1>2 DEF CopiesVouched, NoRun
<1>. QED
  BY <1>3, <1>4 DEF RunInv

\* What the log says of a hash is what one of its rows says, or what was known.
LEMMA LatestIs ==
    ASSUME NEW have, NEW entries \in Seq(Entries), NEW places \in SUBSET DOMAIN entries,
           NEW sha \in DOMAIN Latest(have, entries, places)
    PROVE  \/ sha \in DOMAIN have /\ Latest(have, entries, places)[sha] = have[sha]
           \/ \E i \in places : entries[i].sha = sha /\ Latest(have, entries, places)[sha] = entries[i].path
<1>. DEFINE of == {i \in places : entries[i].sha = sha}
<1>1. CASE of = {}
  BY <1>1 DEF Latest
<1>2. CASE of # {}
  <2>1. of \in SUBSET Nat /\ IsFiniteSet(of)
    <3>1. DOMAIN entries = 1..Len(entries) /\ Len(entries) \in Nat
      OBVIOUS
    <3>2. IsFiniteSet(1..Len(entries))
      BY <3>1, FS_Interval
    <3>. QED
      BY <3>1, <3>2, FS_Subset
  <2>2. Max(of) \in of
    BY <1>2, <2>1, Greatest DEF Max
  <2>3. Latest(have, entries, places)[sha] = entries[Max(of)].path
    BY <1>2 DEF Latest
  <2>. QED
    BY <2>2, <2>3
<1>. QED
  BY <1>1, <1>2

\* The place of a member at hand.
LEMMA AtHandIs ==
    ASSUME ManifestInv, RowsInv, RunInv, run.phase = "extract", run.todo # {}
    PROVE  /\ Turn \in run.todo
           /\ AtHand.key \in DOMAIN run.needed
           /\ Vouched(run.needed[AtHand.key], Place(AtHand))
           /\ Verified(AtHand, run.needed[AtHand.key]) \in Entries
<1>. DEFINE m == AtHand
<1>1. run.opened \in Contents /\ run.todo \subseteq DOMAIN Inside[run.opened]
  BY DEF RunInv, NeededInOrder
<1>2. Turn \in run.todo
  <2>1. run.todo \in SUBSET Nat
    BY <1>1, InsideAssumption
  <2>. QED
    BY <2>1, Least DEF Turn, Min
<1>3. m.key \in DOMAIN run.needed /\ m.key \in DOMAIN RelPath
  BY <1>1, <1>2, InsideAssumption DEF AtHand, RunInv, NeededInOrder
<1>4. PICK r \in rows[run.top].of : r.key = m.key /\ r.sha = run.needed[m.key] /\ r.sha # None
  BY <1>3 DEF RunInv, NeededInOrder
<1>5. run.top \in DOMAIN rows /\ run.top \in Paths /\ r.sha \in Contents
  BY <1>4 DEF RunInv, TopInOrder, RowsInv, RowsTyped
<1>6. Place(m)[1] = run.top /\ Place(m)[2] = RelPath[m.key] /\ Place(m) \in Places
  BY <1>3, <1>5 DEF Place, Places
<1>. QED
  BY <1>2, <1>3, <1>4, <1>5, <1>6 DEF Vouched, Verified, Entries

\* Steps that leave the drive's rows and what is extracted alone keep the copies.
LEMMA CopiesStay ==
    ASSUME CopiesVouched, rows' = rows, UNCHANGED <<dest, csv>>,
           run'.have = run.have \/ run'.have = << >>,
           run'.verified = run.verified \/ run'.verified = << >>
    PROVE  CopiesVouched'
<1>1. \A sha, d : Vouched(sha, d)' <=> Vouched(sha, d)
  BY DEF Vouched
<1>2. << >> \in Seq(Entries) /\ DOMAIN << >> = {}
  OBVIOUS
<1>. QED
  BY <1>1, <1>2 DEF CopiesVouched

\* A run ends.
LEMMA EndStep ==
    ASSUME RunInv, stage = "ready", UNCHANGED <<stage, rows, dest, csv>>, Step(NoRun)
    PROVE  RunInv'
<1>1. NothingEarly' /\ TopInOrder' /\ NeededInOrder' /\ UnlinkSafe'
  BY DEF NothingEarly, TopInOrder, NeededInOrder, UnlinkSafe, NoRun, Step
<1>2. CopiesVouched'
  BY CopiesStay DEF RunInv, NoRun, Step
<1>. QED
  BY <1>1, <1>2 DEF RunInv

\* A run begins, and believes what of the log is still there.
LEMMA BeginStep ==
    ASSUME RunInv, UNCHANGED <<stage, known>>, Begin
    PROVE  RunInv'
<1>1. run' = [NoRun EXCEPT !.phase = "next", !.have = StillThere,
                           !.queue = {p \in DOMAIN rows : rows[p].done /\ p \in There}]
  BY DEF Begin, Step
<1>2. /\ run'.phase = "next" /\ run'.queue = {p \in DOMAIN rows : rows[p].done /\ p \in There}
      /\ run'.have = StillThere /\ run'.verified = << >>
      /\ run' = [phase |-> run'.phase, queue |-> run'.queue, top |-> run'.top, opened |-> run'.opened,
                 needed |-> run'.needed, todo |-> run'.todo, verified |-> run'.verified,
                 ok |-> run'.ok, have |-> run'.have]
  BY <1>1 DEF NoRun
<1>3. NothingEarly' /\ TopInOrder' /\ NeededInOrder' /\ UnlinkSafe'
  BY <1>2 DEF NothingEarly, TopInOrder, NeededInOrder, UnlinkSafe, Begin, known
<1>4. \A sha \in DOMAIN StillThere : Vouched(sha, StillThere[sha])
  <2>. SUFFICES ASSUME NEW sha \in DOMAIN StillThere PROVE Vouched(sha, StillThere[sha])
    OBVIOUS
  <2>. DEFINE places == {i \in DOMAIN csv : /\ csv[i].path \in DOMAIN dest
                                           /\ Size[dest[csv[i].path]] = Size[csv[i].sha]}
  <2>1. csv \in Seq(Entries) /\ places \in SUBSET DOMAIN csv
    BY DEF RunInv, CopiesVouched
  <2>2. StillThere = Latest(<< >>, csv, places)
    BY DEF StillThere
  <2>. HIDE DEF places
  <2>3. sha \in DOMAIN Latest(<< >>, csv, places) /\ sha \notin DOMAIN << >>
    BY <2>2
  <2>4. \E i \in places : csv[i].sha = sha /\ Latest(<< >>, csv, places)[sha] = csv[i].path
    BY <2>1, <2>3, LatestIs
  <2>5. PICK i \in places : csv[i].sha = sha /\ StillThere[sha] = csv[i].path
    BY <2>2, <2>4
  <2>. QED
    BY <2>5 DEF RunInv, CopiesVouched, places
<1>5. \A sha, d : Vouched(sha, d)' <=> Vouched(sha, d)
  BY DEF Vouched, known
<1>6. CopiesVouched'
  BY <1>2, <1>4, <1>5 DEF CopiesVouched, RunInv, Begin
<1>. QED
  BY <1>3, <1>6 DEF RunInv

\* What an archive lacks is wanted under the keys of its rows.
LEMMA NeededIs ==
    ASSUME NEW top, NEW k \in DOMAIN Needed(top)
    PROVE  \E r \in rows[top].of : r.key = k /\ r.sha = Needed(top)[k] /\ r.sha # None
<1>. DEFINE lacking == {r \in Leaves(top) : ~Covered(r.sha, top, run.have)}
<1>1. k \in {r.key : r \in lacking} /\ Needed(top)[k] = (CHOOSE r \in lacking : r.key = k).sha
  BY DEF Needed
<1>. HIDE DEF lacking
<1>2. PICK r \in lacking : r.key = k /\ Needed(top)[k] = r.sha
  BY <1>1
<1>. QED
  BY <1>2 DEF lacking, Leaves

\* The next archive is passed over, checked or extracted from.
LEMMA NextArchiveStep ==
    ASSUME ManifestInv, RowsInv, RunInv, UNCHANGED <<stage, known>>, NextArchive
    PROVE  RunInv'
<1>1. PICK top \in Smallest :
        LET needed == Needed(top)
            left == [run EXCEPT !.queue = @ \ {top}]
        IN  \/ /\ Errored(top)
               /\ Step(left)
            \/ /\ ~Errored(top) /\ DOMAIN needed = {}
               /\ Step([left EXCEPT !.phase = "check", !.top = top, !.ok = TRUE])
            \/ /\ ~Errored(top) /\ DOMAIN needed # {}
               /\ Step([left EXCEPT !.phase = "extract", !.top = top, !.needed = needed,
                        !.ok = top \in There, !.verified = << >>, !.opened = Content(top),
                        !.todo = IF top \in There THEN Wanted(Content(top), needed) ELSE {}])
  BY DEF NextArchive
<1>2. top \in run.queue /\ top \in DOMAIN rows /\ rows[top].done
  BY DEF Smallest, RunInv, TopInOrder
<1>3. UNCHANGED <<dest, csv, rows>> /\ run.phase = "next"
  BY DEF NextArchive, known
<1>4. \A t : Errored(t)' <=> Errored(t)
  BY <1>3 DEF Errored
<1>5. CASE Errored(top) /\ Step([run EXCEPT !.queue = @ \ {top}])
  <2>1. NothingEarly' /\ TopInOrder' /\ NeededInOrder' /\ UnlinkSafe'
    BY <1>3, <1>5 DEF NothingEarly, TopInOrder, NeededInOrder, UnlinkSafe, Step, RunInv
  <2>2. CopiesVouched'
    BY <1>3, <1>5, CopiesStay DEF RunInv, Step, NothingEarly
  <2>. QED
    BY <2>1, <2>2 DEF RunInv
<1>6. CASE ~Errored(top) /\ Step([run EXCEPT !.queue = @ \ {top}, !.phase = "check", !.top = top, !.ok = TRUE])
  <2>0. /\ run'.phase = "check" /\ run'.top = top /\ run'.queue = run.queue \ {top}
        /\ run'.have = run.have /\ run'.verified = run.verified
        /\ NothingEarly'
    BY <1>3, <1>6 DEF NothingEarly, Step, RunInv
  <2>1. TopInOrder' /\ NeededInOrder' /\ UnlinkSafe'
    BY <1>2, <1>3, <1>4, <1>6, <2>0 DEF TopInOrder, NeededInOrder, UnlinkSafe, RunInv
  <2>2. CopiesVouched'
    BY <1>3, <2>0, CopiesStay DEF RunInv
  <2>. QED
    BY <2>0, <2>1, <2>2 DEF RunInv
<1>7. CASE /\ ~Errored(top)
           /\ Step([run EXCEPT !.queue = @ \ {top}, !.phase = "extract", !.top = top, !.needed = Needed(top),
                        !.ok = top \in There, !.verified = << >>, !.opened = Content(top),
                        !.todo = IF top \in There THEN Wanted(Content(top), Needed(top)) ELSE {}])
  <2>0. /\ run'.phase = "extract" /\ run'.top = top /\ run'.queue = run.queue \ {top}
        /\ run'.have = run.have /\ run'.verified = << >> /\ run'.needed = Needed(top)
        /\ run'.opened = Content(top)
        /\ run'.todo = IF top \in There THEN Wanted(Content(top), Needed(top)) ELSE {}
        /\ NothingEarly'
    BY <1>3, <1>7 DEF NothingEarly, Step, RunInv
  <2>1. TopInOrder' /\ UnlinkSafe'
    BY <1>2, <1>3, <1>4, <1>7, <2>0 DEF TopInOrder, UnlinkSafe, RunInv
  <2>2. CopiesVouched'
    BY <1>3, <2>0, CopiesStay DEF RunInv
  <2>3. NeededInOrder'
    <3>1. \A k \in DOMAIN run'.needed :
              \E r \in rows'[run'.top].of : r.key = k /\ r.sha = run'.needed[k] /\ r.sha # None
      BY <1>3, <2>0, NeededIs
    <3>2. run'.todo # {} => run'.opened \in Contents
      BY <2>0 DEF ManifestInv, TimeOK, Content
    <3>3. run'.todo \subseteq {i \in DOMAIN Inside[run'.opened] :
                                  Inside[run'.opened][i].key \in DOMAIN run'.needed}
      BY <2>0 DEF Wanted
    <3>. QED
      BY <3>1, <3>2, <3>3 DEF NeededInOrder
  <2>. QED
    BY <2>0, <2>1, <2>2, <2>3 DEF RunInv
<1>. QED
  BY <1>1, <1>5, <1>6, <1>7

\* A copy is extracted, or found where it was extracted before, and logged.
LEMMA CopyIs ==
    ASSUME CopiesVouched, rows' = rows, csv' = csv, run'.have = run.have,
           run'.verified = run.verified
              \/ \E e \in Entries : Vouched(e.sha, e.path) /\ run'.verified = Append(run.verified, e),
           dest' = dest \/ \E d, sha : Vouched(sha, d) /\ dest' = With(dest, d, sha)
    PROVE  CopiesVouched'
<1>1. \A sha, d : Vouched(sha, d)' <=> Vouched(sha, d)
  BY DEF Vouched
<1>2. \A d \in DOMAIN dest' : Vouched(dest'[d], d)
  <2>1. CASE dest' = dest
    BY <2>1 DEF CopiesVouched
  <2>2. ASSUME NEW k, NEW sha, Vouched(sha, k), dest' = With(dest, k, sha)
        PROVE  \A d \in DOMAIN dest' : Vouched(dest'[d], d)
    BY <2>2 DEF CopiesVouched, With
  <2>. QED
    BY <2>1, <2>2
<1>3. run'.verified \in Seq(Entries)
      /\ \A i \in DOMAIN run'.verified : Vouched(run'.verified[i].sha, run'.verified[i].path)
  <2>1. CASE run'.verified = run.verified
    BY <2>1 DEF CopiesVouched
  <2>2. ASSUME NEW e \in Entries, Vouched(e.sha, e.path), run'.verified = Append(run.verified, e)
        PROVE  /\ run'.verified \in Seq(Entries)
               /\ \A i \in DOMAIN run'.verified : Vouched(run'.verified[i].sha, run'.verified[i].path)
    <3>. DEFINE v == run.verified
    <3>1. v \in Seq(Entries) /\ \A i \in DOMAIN v : Vouched(v[i].sha, v[i].path)
      BY DEF CopiesVouched
    <3>. HIDE DEF v
    <3>2. /\ Append(v, e) \in Seq(Entries)
          /\ \A i \in DOMAIN Append(v, e) : \/ i \in DOMAIN v /\ Append(v, e)[i] = v[i]
                                            \/ Append(v, e)[i] = e
      BY <3>1
    <3>3. \A i \in DOMAIN Append(v, e) : Vouched(Append(v, e)[i].sha, Append(v, e)[i].path)
      BY <2>2, <3>1, <3>2
    <3>. QED
      BY <2>2, <3>2, <3>3 DEF v
  <2>. QED
    BY <2>1, <2>2
<1>. QED
  BY <1>1, <1>2, <1>3 DEF CopiesVouched

\* A member is kept, extracted or given up.
LEMMA MemberStep ==
    ASSUME ManifestInv, RowsInv, RunInv, stage = "ready", UNCHANGED <<stage, known>>,
           KeepMember \/ ExtractMember
    PROVE  RunInv'
<1>1. /\ run.phase = "extract" /\ run.todo # {}
      /\ UNCHANGED <<csv, rows>>
  BY DEF KeepMember, ExtractMember, known
<1>. DEFINE m == AtHand
            sha == run.needed[m.key]
<1>2. Turn \in run.todo /\ Vouched(sha, Place(m)) /\ Verified(m, sha) \in Entries
  BY <1>1, AtHandIs
<1>3. (dest' = dest \/ dest' = With(dest, Place(m), sha)) /\ (Verify(m, sha) \/ Problem)
  BY DEF KeepMember, ExtractMember
<1>4. /\ \E ok \in {run.ok, FALSE}, verified \in {run.verified, Append(run.verified, Verified(m, sha))} :
            run' = [run EXCEPT !.todo = @ \ {Turn}, !.verified = verified, !.ok = ok]
  <2>1. CASE Problem
    <3>1. run' = [run EXCEPT !.todo = @ \ {Turn}, !.verified = run.verified, !.ok = FALSE]
      BY <2>1 DEF Problem, Step, RunInv, NothingEarly
    <3>. QED
      BY <3>1
  <2>2. CASE Verify(m, sha)
    <3>. DEFINE verified == IF Verified(m, sha) \in ToSet(run.verified) THEN run.verified
                            ELSE Append(run.verified, Verified(m, sha))
    <3>0. run' = [run EXCEPT !.todo = @ \ {Turn}, !.verified = verified]
      BY <2>2 DEF Verify, Step
    <3>1. run' = [run EXCEPT !.todo = @ \ {Turn}, !.verified = verified, !.ok = run.ok]
      BY <3>0 DEF RunInv, NothingEarly
    <3>. QED
      BY <3>1
  <2>. QED
    BY <1>3, <2>1, <2>2
<1>. HIDE DEF m, sha
<1>5. PICK ok \in {run.ok, FALSE}, verified \in {run.verified, Append(run.verified, Verified(m, sha))} :
            run' = [run EXCEPT !.todo = @ \ {Turn}, !.verified = verified, !.ok = ok]
  BY <1>4
<1>6. /\ run'.phase = "extract" /\ run'.todo = run.todo \ {Turn} /\ run'.verified = verified
      /\ run'.have = run.have /\ run'.top = run.top /\ run'.needed = run.needed
      /\ run'.opened = run.opened /\ run'.queue = run.queue
      /\ run' = [phase |-> run'.phase, queue |-> run'.queue, top |-> run'.top, opened |-> run'.opened,
                 needed |-> run'.needed, todo |-> run'.todo, verified |-> run'.verified,
                 ok |-> run'.ok, have |-> run'.have]
  BY <1>1, <1>5 DEF RunInv, NothingEarly
<1>7. \A t : Errored(t)' <=> Errored(t)
  BY <1>1 DEF Errored
<1>8. NothingEarly' /\ TopInOrder' /\ NeededInOrder' /\ UnlinkSafe'
  <2>1. NothingEarly' /\ UnlinkSafe'
    BY <1>6 DEF NothingEarly, UnlinkSafe
  <2>2. TopInOrder'
    BY <1>1, <1>6, <1>7 DEF RunInv, TopInOrder
  <2>3. NeededInOrder'
    BY <1>1, <1>6 DEF RunInv, NeededInOrder
  <2>. QED
    BY <2>1, <2>2, <2>3
<1>9. CopiesVouched'
  <2>1. dest' = dest \/ \E d, s : Vouched(s, d) /\ dest' = With(dest, d, s)
    BY <1>2, <1>3
  <2>2. run'.verified = run.verified
        \/ \E e \in Entries : Vouched(e.sha, e.path) /\ run'.verified = Append(run.verified, e)
    <3>1. Verified(m, sha).sha = sha /\ Verified(m, sha).path = Place(m)
      BY DEF Verified
    <3>. QED
      BY <1>2, <1>6, <3>1
  <2>. QED
    BY <1>1, <1>6, <2>1, <2>2, CopyIs DEF RunInv
<1>. QED
  BY <1>8, <1>9 DEF RunInv

\* What was verified goes to the log.
LEMMA LogStep ==
    ASSUME RunInv, stage = "ready", UNCHANGED <<stage, known>>, Log
    PROVE  RunInv'
<1>1. /\ csv' = csv \o run.verified
      /\ UNCHANGED <<dest, rows>>
      /\ run.phase = "extract"
  BY DEF Log, known
<1>. DEFINE have == Latest(run.have, run.verified, DOMAIN run.verified)
<1>2. \E phase \in {"check", "next"} : run' = [run EXCEPT !.phase = phase, !.have = have]
  BY DEF Log, Step
<1>. HIDE DEF have
<1>3. PICK phase \in {"check", "next"} : run' = [run EXCEPT !.phase = phase, !.have = have]
  BY <1>2
<1>4. /\ run'.phase = phase /\ run'.verified = run.verified /\ run'.have = have
      /\ run'.top = run.top /\ run'.queue = run.queue
      /\ run' = [phase |-> run'.phase, queue |-> run'.queue, top |-> run'.top, opened |-> run'.opened,
                 needed |-> run'.needed, todo |-> run'.todo, verified |-> run'.verified,
                 ok |-> run'.ok, have |-> run'.have]
  BY <1>3 DEF RunInv, NothingEarly
<1>5. \A t : Errored(t)' <=> Errored(t)
  BY <1>1 DEF Errored
<1>6. \A s, d : Vouched(s, d)' <=> Vouched(s, d)
  BY <1>1 DEF Vouched
<1>7. \A s \in DOMAIN have : Vouched(s, have[s])
  <2>. SUFFICES ASSUME NEW s \in DOMAIN have PROVE Vouched(s, have[s])
    OBVIOUS
  <2>. DEFINE v == run.verified
              old == run.have
  <2>1. v \in Seq(Entries) /\ \A i \in DOMAIN v : Vouched(v[i].sha, v[i].path)
    BY DEF RunInv, CopiesVouched
  <2>2. \A t \in DOMAIN old : Vouched(t, old[t])
    BY DEF RunInv, CopiesVouched
  <2>3. have = Latest(old, v, DOMAIN v)
    BY DEF have
  <2>. HIDE DEF v, old
  <2>4. \/ s \in DOMAIN old /\ have[s] = old[s]
        \/ \E i \in DOMAIN v : v[i].sha = s /\ have[s] = v[i].path
    <3>1. s \in DOMAIN Latest(old, v, DOMAIN v) /\ DOMAIN v \in SUBSET DOMAIN v
      BY <2>3
    <3>2. \/ s \in DOMAIN old /\ Latest(old, v, DOMAIN v)[s] = old[s]
          \/ \E i \in DOMAIN v : v[i].sha = s /\ Latest(old, v, DOMAIN v)[s] = v[i].path
      BY <2>1, <3>1, LatestIs, SMTT(30)
    <3>. QED
      BY <2>3, <3>2
  <2>. QED
    BY <2>1, <2>2, <2>4
<1>8. /\ csv' \in Seq(Entries)
      /\ \A i \in DOMAIN csv' : Vouched(csv'[i].sha, csv'[i].path)
  <2>. DEFINE v == run.verified
  <2>1. /\ v \in Seq(Entries) /\ \A i \in DOMAIN v : Vouched(v[i].sha, v[i].path)
        /\ csv \in Seq(Entries) /\ \A i \in DOMAIN csv : Vouched(csv[i].sha, csv[i].path)
    BY DEF RunInv, CopiesVouched
  <2>2. csv' = csv \o v
    BY <1>1
  <2>. HIDE DEF v
  <2>3. \A i \in DOMAIN (csv \o v) :
            \/ i \in DOMAIN csv /\ (csv \o v)[i] = csv[i]
            \/ i - Len(csv) \in DOMAIN v /\ (csv \o v)[i] = v[i - Len(csv)]
    BY <2>1
  <2>. QED
    BY <2>1, <2>2, <2>3
<1>9. CopiesVouched'
  BY <1>1, <1>4, <1>6, <1>7, <1>8 DEF RunInv, CopiesVouched
<1>10. NothingEarly' /\ TopInOrder' /\ NeededInOrder' /\ UnlinkSafe'
  <2>1. NothingEarly' /\ NeededInOrder' /\ UnlinkSafe'
    BY <1>4 DEF NothingEarly, NeededInOrder, UnlinkSafe
  <2>2. TopInOrder'
    BY <1>1, <1>4, <1>5 DEF TopInOrder, RunInv
  <2>. QED
    BY <2>1, <2>2
<1>. QED
  BY <1>9, <1>10 DEF RunInv

\* The last check speaks of the drive, the manifest and what is extracted only.
LEMMA SafeStays ==
    ASSUME UNCHANGED <<files, known, dest>>
    PROVE  \A top, have : Safe(top, have)' <=> Safe(top, have)
<1>1. There' = There /\ \A p : Content(p)' = Content(p)
  BY DEF There, Content
<1>2. \A p : Unchanged(p)' <=> Unchanged(p)
  BY <1>1 DEF Unchanged, known
<1>3. \A p : Group(p)' = Group(p)
  BY DEF Group, known
<1>4. \A p : Grouped(p)' <=> Grouped(p)
  BY <1>3 DEF Grouped
<1>5. \A p : Sha(p)' = Sha(p)
  BY <1>4 DEF Sha, known
<1>6. \A sha, top, have : Covered(sha, top, have)' <=> Covered(sha, top, have)
  BY <1>2, <1>5 DEF Covered, Loosely, known
<1>7. \A top : Leaves(top)' = Leaves(top)
  BY DEF Leaves, Openers, known
<1>. QED
  BY <1>2, <1>6, <1>7 DEF Safe

\* Only what is safe is deleted.
LEMMA CheckStep ==
    ASSUME RunInv, stage = "ready", UNCHANGED <<stage, known>>, Check
    PROVE  RunInv'
<1>1. run.phase = "check" /\ UNCHANGED <<files, dest, csv, rows>>
  BY DEF Check, DriveStays, known
<1>2. PICK phase \in {"unlink", "next"} :
          /\ run' = [run EXCEPT !.phase = phase]
          /\ phase = "unlink" => Safe(run.top, run.have)
  BY DEF Check, Step, Safe
<1>3. /\ run'.phase = phase /\ run'.verified = run.verified /\ run'.have = run.have
      /\ run'.top = run.top /\ run'.queue = run.queue
      /\ run' = [phase |-> run'.phase, queue |-> run'.queue, top |-> run'.top, opened |-> run'.opened,
                 needed |-> run'.needed, todo |-> run'.todo, verified |-> run'.verified,
                 ok |-> run'.ok, have |-> run'.have]
  BY <1>2 DEF RunInv, NothingEarly
<1>4. \A t : Errored(t)' <=> Errored(t)
  BY <1>1 DEF Errored
<1>5. NothingEarly' /\ NeededInOrder'
  BY <1>3 DEF NothingEarly, NeededInOrder
<1>6. TopInOrder'
  BY <1>1, <1>3, <1>4 DEF TopInOrder, RunInv
<1>7. CopiesVouched'
  BY <1>1, <1>3, CopiesStay DEF RunInv
<1>8. UnlinkSafe'
  <2>. SUFFICES ASSUME run'.phase = "unlink" PROVE Safe(run.top, run.have)'
    BY <1>3 DEF UnlinkSafe, Safe, Covered, Loosely
  <2>. QED
    BY <1>1, <1>2, <1>3, SafeStays
<1>. QED
  BY <1>5, <1>6, <1>7, <1>8 DEF RunInv

\* A deletion leaves the log and the extracted files alone.
LEMMA UnlinkStep ==
    ASSUME RunInv, stage = "ready", UNCHANGED <<stage, known>>, Unlink
    PROVE  RunInv'
<1>1. run.phase = "unlink" /\ UNCHANGED <<stage, dest, csv, rows>>
  BY DEF Unlink, known
<1>2. CASE Step(NoRun)
  BY <1>1, <1>2, EndStep
<1>3. CASE Step([run EXCEPT !.phase = "next"])
  <2>1. NothingEarly' /\ NeededInOrder' /\ UnlinkSafe'
    BY <1>1, <1>3 DEF NothingEarly, NeededInOrder, UnlinkSafe, RunInv, Step
  <2>2. run'.phase = "next" /\ run'.verified = run.verified /\ run'.have = run.have
        /\ run'.queue = run.queue
    BY <1>3 DEF Step, RunInv, NothingEarly
  <2>3. CopiesVouched'
    BY <1>1, <2>2, CopiesStay DEF RunInv
  <2>4. TopInOrder'
    BY <1>1, <2>2 DEF TopInOrder, RunInv
  <2>. QED
    BY <2>1, <2>3, <2>4 DEF RunInv
<1>. QED
  BY <1>2, <1>3 DEF Unlink

\* Hands at the drive do not touch the log, and keep off between the last check and
\* the deletion.
LEMMA HandsStep ==
    ASSUME RunInv, stage = "ready", Hands
    PROVE  RunInv'
<1>1. /\ run.phase # "unlink"
      /\ UNCHANGED <<stage, rows, csv, run>>
      /\ dest' = dest \/ \E d \in DOMAIN dest : dest' = [e \in DOMAIN dest \ {d} |-> dest[e]]
  BY DEF Hands, Write, Delete, DeleteExtracted, May, Touched, known
<1>2. \A s, d : Vouched(s, d)' <=> Vouched(s, d)
  BY <1>1 DEF Vouched
<1>3. \A t : Errored(t)' <=> Errored(t)
  BY <1>1 DEF Errored
<1>4. NothingEarly' /\ NeededInOrder' /\ UnlinkSafe'
  BY <1>1 DEF NothingEarly, NeededInOrder, UnlinkSafe, RunInv
<1>5. TopInOrder'
  BY <1>1, <1>3 DEF TopInOrder, RunInv
<1>6. CopiesVouched'
  <2>1. \A d \in DOMAIN dest' : d \in DOMAIN dest /\ dest'[d] = dest[d]
    BY <1>1
  <2>. QED
    BY <1>1, <1>2, <2>1 DEF CopiesVouched, RunInv
<1>. QED
  BY <1>4, <1>5, <1>6 DEF RunInv

\* Every step keeps what a run rests on.
LEMMA RunStep ==
    ASSUME ManifestInv, RowsInv, RunInv, [Next]_vars
    PROVE  RunInv'
<1>1. CASE stage # "ready"
  BY <1>1, NotReadyStep DEF ManifestInv
<1>2. CASE stage = "ready"
  <2>1. UNCHANGED <<stage, known>>
    BY <1>2, ReadyStays
  <2>2. CASE Begin \/ NextArchive
    BY <2>1, <2>2, BeginStep, NextArchiveStep
  <2>3. CASE NoSpace \/ EndRun \/ Die
    BY <1>2, <2>1, <2>3, EndStep DEF NoSpace, EndRun, Die, known
  <2>4. CASE KeepMember \/ ExtractMember
    BY <1>2, <2>1, <2>4, MemberStep
  <2>5. CASE Log \/ Check \/ Unlink
    BY <1>2, <2>1, <2>5, LogStep, CheckStep, UnlinkStep
  <2>6. CASE Hands
    BY <1>2, <2>6, HandsStep
  <2>7. CASE UNCHANGED vars
    <3>1. UNCHANGED <<stage, run, rows, csv, dest, files, known>>
      BY <2>7 DEF vars, known
    <3>2. CopiesVouched'
      BY <3>1, CopiesStay DEF RunInv
    <3>3. \A t : Errored(t)' <=> Errored(t)
      BY <3>1 DEF Errored
    <3>4. NothingEarly' /\ NeededInOrder'
      BY <3>1 DEF NothingEarly, NeededInOrder, RunInv
    <3>5. TopInOrder'
      BY <3>1, <3>3 DEF TopInOrder, RunInv
    <3>6. UnlinkSafe'
      <4>. SUFFICES ASSUME run'.phase = "unlink" PROVE Safe(run.top, run.have)'
        BY <3>1 DEF UnlinkSafe, Safe, Covered, Loosely
      <4>. QED
        BY <3>1, SafeStays DEF UnlinkSafe, RunInv
    <3>. QED
      BY <3>2, <3>4, <3>5, <3>6 DEF RunInv
  <2>8. ~\E p \in Paths : AnalyzeFile(p) \/ HashLoose(p) \/ HashMembers(p) \/ HashMembersFails(p)
    BY <1>2 DEF AnalyzeFile, HashLoose, HashMembers, HashMembersFails
  <2>9. ~(AnalyzeSizes \/ Scan \/ ListArchives \/ EndLoose \/ EndHashing)
    BY <1>2 DEF AnalyzeSizes, Scan, ListArchives, EndLoose, EndHashing
  <2>. QED
    BY <2>2, <2>3, <2>4, <2>5, <2>6, <2>7, <2>8, <2>9 DEF Next, ScriptStep
<1>. QED
  BY <1>1, <1>2
-----------------------------------------------------------------------------
(* The deletion.  What the last check saw of the rows it saw of every file *)
(* in the archive, for the archive was not written since it was hashed,    *)
(* and what it found elsewhere is really there.                            *)

\* What is proven safe exists as another loose file, or as an extracted one.
LEMMA CoveredIsHeld ==
    ASSUME ManifestInv, RowsInv, RunInv, NEW top \in Paths, NEW sha \in Contents,
           Covered(sha, top, run.have), files' = [files EXCEPT ![top] = None], dest' = dest
    PROVE  sha \in Held'
<1>1. CASE Loosely(sha, top)
  <2>1. PICK q \in Paths \ {top} : scan[q] # None /\ Sha(q) = sha /\ Unchanged(q)
    BY <1>1 DEF Loosely
  <2>2. Content(q) = sha /\ q \in There
    BY <2>1, ManifestTrue, NoneAssumption DEF Unchanged
  <2>3. files'[q] = files[q]
    BY DEF ManifestInv, TimeOK
  <2>4. q \in There' /\ Content(q)' = sha
    BY <2>2, <2>3 DEF There, Content
  <2>. QED
    BY <2>4 DEF Held
<1>2. CASE sha \in DOMAIN run.have /\ run.have[sha] \in DOMAIN dest
  <2>. DEFINE d == run.have[sha]
  <2>1. Vouched(sha, d) /\ Vouched(dest[d], d)
    BY <1>2 DEF RunInv, CopiesVouched
  <2>2. dest[d] = sha
    BY <2>1 DEF Vouched, RowsInv, OnePlace
  <2>. QED
    BY <1>2, <2>2 DEF Held
<1>. QED
  BY <1>1, <1>2 DEF Covered

\* Every non-empty file of an archive is a leaf among its rows, and so was proven safe.
LEMMA DeletionKeeps ==
    ASSUME PlainNames, ManifestInv, RowsInv, RunInv, NEW p \in Paths, Unlink, p = run.top, p \in There,
           NEW m \in ToSet(Inside[Content(p)]), Size[m.content] > 0, Inside[m.content] = << >>
    PROVE  m.content \in Held'
<1>. DEFINE c == Content(p)
<1>1. /\ run.phase = "unlink" /\ UNCHANGED dest
      /\ files' = [files EXCEPT ![p] = None]
      /\ Safe(p, run.have)
      /\ p \in DOMAIN rows /\ rows[p].done /\ ~Errored(p)
  BY DEF Unlink, RunInv, UnlinkSafe, TopInOrder
<1>2. c \in Contents
  BY DEF ManifestInv, TimeOK, Content
<1>3. SinceScan(p)
  BY <1>1 DEF Safe, Unchanged, SinceScan, MtimeSlack, ManifestInv, TimeOK
<1>4. rows[p].of = {[key |-> n.key, upto |-> n.upto, sha |-> n.content] : n \in ToSet(Inside[c])}
  <2>1. PICK unread \in SUBSET Keys(c), closed \in SUBSET Nests(c) :
            rows[p].of = RowsOf(c, unread, closed)
    BY <1>1, <1>3 DEF RowsInv, RowsTrue
  <2>. QED
    BY <1>1, <1>2, <2>1, RowsComplete DEF Errored
<1>5. m.content \in Contents /\ m.content # None
  BY <1>2, MemberTypes, NoneAssumption
<1>. DEFINE r == [key |-> m.key, upto |-> m.upto, sha |-> m.content]
<1>6. r \in Leaves(p)
  <2>1. r \in rows[p].of
    BY <1>4
  <2>2. m.key \notin Openers(p)
    <3>. SUFFICES ASSUME NEW s \in rows[p].of, m.key = s.upto PROVE FALSE
      BY DEF Openers
    <3>1. PICK n \in ToSet(Inside[c]) : s.upto = n.upto
      BY <1>4
    <3>. QED
      BY <1>2, <3>1 DEF PlainNames
  <2>. QED
    BY <1>5, <2>1, <2>2 DEF Leaves
<1>7. Covered(m.content, p, run.have)
  BY <1>1, <1>6 DEF Safe
<1>. QED
  BY <1>1, <1>5, <1>7, CoveredIsHeld

\* Before the first script there are no rows and no run.
LEMMA RunInit == Init => RowsInv /\ RunInv
<1>. SUFFICES ASSUME Init PROVE RowsInv /\ RunInv
  OBVIOUS
<1>1. RowsInv
  BY DEF Init, RowsInv, RowsTyped, RowsTrue, OnePlace
<1>2. csv = << >> /\ << >> \in Seq(Entries) /\ DOMAIN << >> = {}
  BY DEF Init
<1>3. NothingEarly /\ TopInOrder /\ NeededInOrder /\ UnlinkSafe
  BY DEF Init, NothingEarly, TopInOrder, NeededInOrder, UnlinkSafe, NoRun
<1>4. CopiesVouched
  BY <1>2 DEF Init, CopiesVouched, NoRun
<1>. QED
  BY <1>1, <1>3, <1>4 DEF RunInv

\* When an archive is deleted, every non-empty file it holds, those of nested
\* archives too, still exists as another loose file or as an extracted one, for
\* every drive and whatever was written, deleted or could not be read at any time.
\* It needs archives whose names do not mislead the extract script: a key that
\* precedes the "!" of another is taken for an archive that was opened, and of two
\* members that are extracted to one place only one is there.
THEOREM RetiredContentKept ==
    ASSUME PlainNames, PlacesDiffer
    PROVE  Spec => RetiredIsKept
<1> DEFINE Inv == ManifestInv /\ RowsInv /\ RunInv /\ scenario \in Scenarios
<1>1. Init => Inv
  BY ManifestInit, RunInit DEF Init
<1>2. Inv /\ [Next]_vars => Inv'
  BY TimeStep, StagesStep, HashesStep, ScenarioStep, RowsStep, RunStep DEF ManifestInv
<1>. DEFINE Kept == \A p \in Paths : Unlink /\ p = run.top /\ p \in There =>
        \A m \in ToSet(Inside[Content(p)]) :
            Size[m.content] > 0 /\ Inside[m.content] = << >> => m.content \in Held'
<1>3. Inv /\ [Next]_vars => [Kept]_vars
  BY DeletionKeeps
<1>. QED
  BY <1>1, <1>2, <1>3, PTL DEF Spec, RetiredIsKept
=============================================================================
