-------------------------- MODULE ArchiveRetirement --------------------------
(***************************************************************************)
(* The operator scripts that clear a drive of archives: a duplicate report *)
(* (discovery/duplicate_analysis.py), a scan of names, sizes and times,    *)
(* hashes of loose files and of archive members, a manifest made of these, *)
(* and extract_unique_and_retire_archives.py, which extracts what exists   *)
(* nowhere else and then deletes the archive. Each script knows the drive  *)
(* only as it was when it looked; people and a syncing program change it   *)
(* between any two steps.                                                  *)
(***************************************************************************)
EXTENDS Integers, Sequences, SequencesExt, FiniteSets

CONSTANTS
    Paths,      \* files of the drive
    Contents,   \* contents of files, of archives and of what they hold
    Size,       \* bytes of a content
    Inside,     \* content -> its members in order, those of a nested archive after it
    Name,       \* base name of a path, in lower case
    Order,      \* paths by length and name
    RelPath,    \* where the member of a key is extracted to
    None,
    Scenarios

\* A member is [key, upto, name, content, nest]. upto is what precedes the last
\* "!" of its key, which for a member of a nested archive is that archive's key;
\* nest is the key of the nested archive it really lies in. Both may be None.

ASSUME NoneAssumption ==
    None \notin Contents /\ None \notin Paths /\ None \notin DOMAIN RelPath
ASSUME InsideAssumption ==
    \A c \in Contents :
        /\ DOMAIN Inside[c] \in SUBSET Nat
        /\ \A i \in DOMAIN Inside[c] :
              /\ Inside[c][i].content \in Contents
              /\ Inside[c][i].key \in DOMAIN RelPath
              /\ Inside[c][i].nest # None =>
                    \E j \in DOMAIN Inside[c] : j < i /\ Inside[c][j].key = Inside[c][i].nest
\* A scenario is a drive, which of its files are archives by name, how often the
\* scripts are run, and what people and faults may do.
ASSUME ScenariosAssumption ==
    \A s \in Scenarios :
        /\ DOMAIN s.drive \subseteq Paths
        /\ \A p \in DOMAIN s.drive : s.drive[p] \in Contents
        /\ s.archives \subseteq Paths
        /\ s.writes \subseteq Contents

MtimeSlack == 2

VARIABLES
    scenario,
    files,      \* the drive: path -> [content, mtime], or None
    clock,
    stage,      \* which script is next or at work
    report,     \* the duplicate report: when it began, sizes, hashes
    scan,       \* path -> [size, mtime] at the scan, or None
    listed,     \* archive -> the content whose members were listed
    own,        \* path -> hash by hash_loose_candidates
    rows,       \* archive -> [done, of], its rows of member_hashes
    dest,       \* <<archive, relative path>> -> extracted content
    csv,        \* _verified_files.csv
    run,        \* the running extract script
    runsLeft, touches   \* bounds

known == <<report, scan, listed, own, rows>>
vars == <<scenario, files, clock, stage, known, dest, csv, run, runsLeft, touches>>

Stages == {"analyze", "hash", "list", "loose", "members", "ready"}
Phases == {"none", "next", "extract", "check", "unlink"}

NoRun == [phase |-> "none", queue |-> {}, top |-> None, opened |-> None, needed |-> << >>,
          todo |-> {}, verified |-> << >>, ok |-> TRUE, have |-> << >>]

With(f, k, v) == [x \in DOMAIN f \cup {k} |-> IF x = k THEN v ELSE f[x]]
-----------------------------------------------------------------------------
Init ==
    /\ scenario \in Scenarios
    /\ files = [p \in Paths |-> IF p \in DOMAIN scenario.drive
                                THEN [content |-> scenario.drive[p], mtime |-> 0] ELSE None]
    /\ clock = 10
    /\ stage = "analyze"
    /\ report = [at |-> 0, size |-> << >>, hash |-> << >>]
    /\ scan = [p \in Paths |-> None]
    /\ listed = << >> /\ own = << >> /\ rows = << >>
    /\ dest = << >>
    /\ csv = << >>
    /\ run = NoRun
    /\ runsLeft = scenario.runs
    /\ touches = scenario.touches

There == {p \in Paths : files[p] # None}
Content(p) == IF p \in There THEN files[p].content ELSE None
-----------------------------------------------------------------------------
\* The duplicate report. It is stamped before it looks at the first file.

Report(now) == [at |-> now, size |-> [p \in There |-> Size[Content(p)]], hash |-> << >>]

AnalyzeSizes ==
    /\ stage = "analyze"
    /\ report' = Report(clock)
    /\ stage' = "hash"
    /\ UNCHANGED <<scenario, files, clock, scan, listed, own, rows, dest, csv, run, runsLeft, touches>>

Colliding ==
    {p \in DOMAIN report.size :
        report.size[p] > 0 /\ \E q \in DOMAIN report.size \ {p} : report.size[q] = report.size[p]}

\* Mutant: the report is stamped when it is complete.
HashedLate(p) == [report EXCEPT !.hash = With(@, p, Content(p)), !.at = clock]

Hashed(p) == [report EXCEPT !.hash = With(@, p, Content(p))]

\* A file that cannot be read is left out of its group.
AnalyzeFile(p) ==
    /\ stage = "hash"
    /\ p \in Colliding \ DOMAIN report.hash
    /\ report' = Hashed(p)
    /\ UNCHANGED <<scenario, files, clock, stage, scan, listed, own, rows, dest, csv, run, runsLeft, touches>>

\* The group of a file in the report: of equal size and hash.
Group(p) ==
    {q \in DOMAIN report.hash :
        /\ p \in DOMAIN report.hash /\ report.hash[p] # None
        /\ report.size[q] = report.size[p] /\ report.hash[q] = report.hash[p]}
Grouped(p) == Cardinality(Group(p)) > 1

First(paths) == SelectSeq(Order, LAMBDA p : p \in paths)[1]
-----------------------------------------------------------------------------
\* What the drive holds, and hashes of what may be a copy of something.

Scan ==
    /\ stage = "hash" /\ Colliding \subseteq DOMAIN report.hash
    /\ scan' = [p \in Paths |-> IF p \in There
                                THEN [size |-> Size[Content(p)], mtime |-> files[p].mtime] ELSE None]
    /\ stage' = "list"
    /\ UNCHANGED <<scenario, files, clock, report, listed, own, rows, dest, csv, run, runsLeft, touches>>

Archives == {p \in scenario.archives : scan[p] # None}

\* Of a group the first is read.
Distinct(paths) == {IF Grouped(p) THEN First(paths \cap Group(p)) ELSE p : p \in paths}

ListArchives ==
    /\ stage = "list"
    /\ \E closed \in SUBSET Distinct(Archives) :
        /\ closed # {} => "unreadable" \in scenario.faults
        /\ listed' = [p \in (Distinct(Archives) \cap There) \ closed |-> Content(p)]
    /\ stage' = "loose"
    /\ UNCHANGED <<scenario, files, clock, report, scan, own, rows, dest, csv, run, runsLeft, touches>>

\* Loose files that by name and size may be a copy of a member, and those that
\* are younger than the report. Of a group one is read.
Candidates ==
    {p \in Paths :
        /\ scan[p] # None /\ scan[p].size > 0
        /\ \/ scan[p].mtime > report.at
           \/ \E a \in DOMAIN listed : \E m \in ToSet(Inside[listed[a]]) :
                m.nest = None /\ Size[m.content] = scan[p].size /\ m.name = Name[p]}

\* A file that is gone or cannot be read has a row without a hash.
HashLoose(p) ==
    /\ stage = "loose"
    /\ p \in Distinct(Candidates) \ DOMAIN own
    /\ \/ own' = With(own, p, Content(p))
       \/ "unreadable" \in scenario.faults /\ own' = With(own, p, None)
    /\ UNCHANGED <<scenario, files, clock, stage, report, scan, listed, rows, dest, csv, run, runsLeft, touches>>

EndLoose ==
    /\ stage = "loose" /\ Distinct(Candidates) \subseteq DOMAIN own
    /\ stage' = "members"
    /\ UNCHANGED <<scenario, files, clock, known, dest, csv, run, runsLeft, touches>>

\* Mutant: a nested archive that cannot be opened leaves no row.
RowsOpened(content, unread, closed) ==
    {[key |-> m.key, upto |-> m.upto, sha |-> IF m.key \in unread THEN None ELSE m.content] :
        m \in {n \in ToSet(Inside[content]) : n.nest \notin closed \cup unread}}

\* A row per member. One that cannot be read has no hash; a nested archive that
\* cannot be opened has a row without a hash beside its own.
RowsOf(content, unread, closed) ==
    {[key |-> m.key, upto |-> m.upto, sha |-> IF m.key \in unread THEN None ELSE m.content] :
        m \in {n \in ToSet(Inside[content]) : n.nest \notin closed \cup unread}}
    \cup {[key |-> k, upto |-> k, sha |-> None] : k \in closed}

Nests(content) == {m.nest : m \in ToSet(Inside[content])} \ {None}
Keys(content) == {m.key : m \in ToSet(Inside[content])}

HashMembers(p) ==
    /\ stage = "members"
    /\ p \in DOMAIN listed \ DOMAIN rows
    /\ p \in There
    /\ \E unread \in SUBSET Keys(Content(p)), closed \in SUBSET Nests(Content(p)) :
        /\ unread \cup closed # {} => "unreadable" \in scenario.faults
        /\ rows' = With(rows, p, [done |-> TRUE, of |-> RowsOf(Content(p), unread, closed)])
    /\ UNCHANGED <<scenario, files, clock, stage, report, scan, listed, own, dest, csv, run, runsLeft, touches>>

\* An archive that cannot be opened or read to its end keeps no row.
HashMembersFails(p) ==
    /\ stage = "members"
    /\ p \in DOMAIN listed \ DOMAIN rows
    /\ p \in There => "unreadable" \in scenario.faults
    /\ rows' = With(rows, p, [done |-> FALSE, of |-> {}])
    /\ UNCHANGED <<scenario, files, clock, stage, report, scan, listed, own, dest, csv, run, runsLeft, touches>>

EndHashing ==
    /\ stage = "members" /\ DOMAIN listed \subseteq DOMAIN rows
    /\ stage' = "ready"
    /\ UNCHANGED <<scenario, files, clock, known, dest, csv, run, runsLeft, touches>>
-----------------------------------------------------------------------------
\* What the manifest says of a loose file. None: it is like no other.
Sha(p) ==
    CASE p \in DOMAIN own /\ own[p] # None -> own[p]
      [] /\ p \notin DOMAIN own \/ own[p] = None
         /\ Grouped(p) /\ report.size[p] = scan[p].size /\ scan[p].mtime <= report.at -> report.hash[p]
      [] OTHER -> None

Unchanged(p) ==
    /\ p \in There /\ scan[p] # None
    /\ Size[Content(p)] = scan[p].size
    /\ files[p].mtime - scan[p].mtime \in -MtimeSlack..MtimeSlack

Errored(top) == \E r \in rows[top].of : r.sha = None

\* A member is an opened container when rows have its key before their last "!".
Openers(top) == {r.upto : r \in {s \in rows[top].of : s.sha # None}}

\* Files of the archive that must exist elsewhere.
Leaves(top) ==
    {r \in rows[top].of : r.sha # None /\ Size[r.sha] > 0 /\ r.key \notin Openers(top)}

Loosely(sha, top) == \E p \in Paths \ {top} : scan[p] # None /\ Sha(p) = sha /\ Unchanged(p)
Covered(sha, top, have) ==
    Loosely(sha, top) \/ (sha \in DOMAIN have /\ have[sha] \in DOMAIN dest)

-----------------------------------------------------------------------------
\* The extract script, with --extract and --delete-verified.

Step(r) == run' = r
DriveStays == UNCHANGED <<scenario, files, clock, stage, known, touches>>

\* What have becomes by the entries at these places: the last of a hash counts.
Latest(have, entries, places) ==
    [sha \in DOMAIN have \cup {entries[i].sha : i \in places} |->
        LET of == {i \in places : entries[i].sha = sha}
        IN  IF of = {} THEN have[sha] ELSE entries[Max(of)].path]

\* Rows of the csv whose file is still there with the size it had.
StillThere ==
    Latest(<< >>, csv, {i \in DOMAIN csv : /\ csv[i].path \in DOMAIN dest
                                          /\ Size[dest[csv[i].path]] = Size[csv[i].sha]})

Begin ==
    /\ stage = "ready" /\ run.phase = "none" /\ runsLeft > 0
    /\ Step([NoRun EXCEPT !.phase = "next", !.have = StillThere,
                          !.queue = {p \in DOMAIN rows : rows[p].done /\ p \in There}])
    /\ runsLeft' = runsLeft - 1
    /\ UNCHANGED <<dest, csv>> /\ DriveStays

Smallest == {p \in run.queue : \A q \in run.queue : scan[p].size <= scan[q].size}

\* Hash wanted of each key; of several rows of one key the last counts.
Needed(top) ==
    LET lacking == {r \in Leaves(top) : ~Covered(r.sha, top, run.have)}
    IN [k \in {r.key : r \in lacking} |-> (CHOOSE r \in lacking : r.key = k).sha]

\* Where the needed members are in the archive.
Wanted(content, needed) == {i \in DOMAIN Inside[content] : Inside[content][i].key \in DOMAIN needed}

NextArchive ==
    /\ run.phase = "next"
    /\ \E top \in Smallest :
        LET needed == Needed(top)
            left == [run EXCEPT !.queue = @ \ {top}]
        IN  \/ /\ Errored(top)
               /\ Step(left)
            \/ /\ ~Errored(top) /\ DOMAIN needed = {}
               /\ Step([left EXCEPT !.phase = "check", !.top = top, !.ok = TRUE])
            \/ /\ ~Errored(top) /\ DOMAIN needed # {}
               /\ Step([left EXCEPT !.phase = "extract", !.top = top, !.needed = needed,
                        !.ok = top \in There, !.verified = << >>, !.opened = Content(top),
                        !.todo = IF top \in There THEN Wanted(Content(top), needed) ELSE {}])
    /\ UNCHANGED <<dest, csv, runsLeft>> /\ DriveStays

\* Not enough space for the next archive ends the run.
NoSpace ==
    /\ run.phase = "next" /\ "space" \in scenario.faults
    /\ \E top \in Smallest : ~Errored(top) /\ DOMAIN Needed(top) # {}
    /\ Step(NoRun)
    /\ UNCHANGED <<dest, csv, runsLeft>> /\ DriveStays

Place(m) == <<run.top, RelPath[m.key]>>
\* The members come in the order of the archive.
Turn == Min(run.todo)
AtHand == Inside[run.opened][Turn]
Verified(m, as) == [sha |-> as, path |-> Place(m)]
Verify(m, as) ==
    Step([run EXCEPT !.todo = @ \ {Turn},
                     !.verified = IF Verified(m, as) \in ToSet(@) THEN @ ELSE Append(@, Verified(m, as))])
Problem == Step([run EXCEPT !.todo = @ \ {Turn}, !.ok = FALSE])

\* Mutant: a file that is there is an error.
KeepNoMember ==
    /\ run.phase = "extract" /\ run.todo # {}
    /\ Place(AtHand) \in DOMAIN dest
    /\ Problem
    /\ UNCHANGED <<dest, csv, runsLeft>> /\ DriveStays

\* A member that was extracted before is hashed again and never overwritten.
KeepMember ==
    /\ run.phase = "extract" /\ run.todo # {}
    /\ Place(AtHand) \in DOMAIN dest
    /\ IF dest[Place(AtHand)] = run.needed[AtHand.key]
       THEN Verify(AtHand, run.needed[AtHand.key]) ELSE Problem
    /\ UNCHANGED <<dest, csv, runsLeft>> /\ DriveStays

\* What is read of an archive that changes meanwhile is anything; what does not
\* have the wanted hash is discarded.
ExtractMember ==
    /\ run.phase = "extract" /\ run.todo # {}
    /\ Place(AtHand) \notin DOMAIN dest
    /\ \E got \in {AtHand.content}
                 \cup IF Content(run.top) # run.opened \/ "unreadable" \in scenario.faults
                      THEN {None} ELSE {} :
            IF got = run.needed[AtHand.key]
            THEN dest' = With(dest, Place(AtHand), got) /\ Verify(AtHand, got)
            ELSE dest' = dest /\ Problem
    /\ UNCHANGED <<csv, runsLeft>> /\ DriveStays

\* Verified files are logged and count from now on.
Log ==
    /\ run.phase = "extract" /\ run.todo = {}
    /\ LET missing == {k \in DOMAIN run.needed :
                         \A v \in ToSet(run.verified) : v.path # <<run.top, RelPath[k]>>}
       IN  /\ csv' = csv \o run.verified
           /\ Step([run EXCEPT !.phase = IF run.ok /\ missing = {} THEN "check" ELSE "next",
                               !.have = Latest(@, run.verified, DOMAIN run.verified)])
    /\ UNCHANGED <<dest, runsLeft>> /\ DriveStays

Check ==
    /\ run.phase = "check"
    /\ LET everything == \A r \in Leaves(run.top) : Covered(r.sha, run.top, run.have)
       IN Step([run EXCEPT !.phase = IF everything /\ Unchanged(run.top) THEN "unlink" ELSE "next"])
    /\ UNCHANGED <<dest, csv, runsLeft>> /\ DriveStays

\* The deletion of a file that has gone meanwhile ends the script.
Unlink ==
    /\ run.phase = "unlink"
    /\ files' = [files EXCEPT ![run.top] = None]
    /\ Step(IF run.top \in There THEN [run EXCEPT !.phase = "next"] ELSE NoRun)
    /\ UNCHANGED <<scenario, clock, stage, known, dest, csv, runsLeft, touches>>

EndRun ==
    /\ run.phase = "next" /\ run.queue = {}
    /\ Step(NoRun)
    /\ UNCHANGED <<dest, csv, runsLeft>> /\ DriveStays

\* The script is stopped, by a person or with the machine.
Die ==
    /\ run.phase # "none" /\ "die" \in scenario.faults
    /\ runsLeft > 0
    /\ Step(NoRun)
    /\ UNCHANGED <<dest, csv, runsLeft>> /\ DriveStays

ScriptStep ==
    \/ AnalyzeSizes \/ \E p \in Paths : AnalyzeFile(p)
    \/ Scan \/ ListArchives
    \/ \E p \in Paths : HashLoose(p) \/ HashMembers(p) \/ HashMembersFails(p)
    \/ EndLoose \/ EndHashing
    \/ Begin \/ NextArchive \/ NoSpace \/ KeepMember \/ ExtractMember \/ Log \/ Check \/ Unlink \/ EndRun \/ Die
-----------------------------------------------------------------------------
\* People and programs that share the drive. A change takes a time stamp that
\* is later than every earlier one by more than the slack. None of it happens
\* between the last check of an archive and its deletion.

May(what) == touches > 0 /\ what \in scenario.hands /\ run.phase # "unlink"
Touched == touches' = touches - 1 /\ UNCHANGED <<scenario, stage, known, csv, run, runsLeft>>

Write(p) ==
    /\ May("write")
    /\ clock' = clock + 10
    /\ \E c \in scenario.writes : files' = [files EXCEPT ![p] = [content |-> c, mtime |-> clock']]
    /\ UNCHANGED dest /\ Touched

Delete(p) ==
    /\ May("delete") /\ p \in There
    /\ files' = [files EXCEPT ![p] = None]
    /\ UNCHANGED <<clock, dest>> /\ Touched

DeleteExtracted ==
    /\ May("tidy")
    /\ \E d \in DOMAIN dest : dest' = [e \in DOMAIN dest \ {d} |-> dest[e]]
    /\ UNCHANGED <<files, clock>> /\ Touched

Hands == (\E p \in Paths : Write(p) \/ Delete(p)) \/ DeleteExtracted

Next == ScriptStep \/ Hands
Spec == Init /\ [][Next]_vars

\* A script that was started goes on until it ends or dies, and a person runs
\* the scripts again while archives are left.
FairSpec == Spec /\ WF_vars(ScriptStep /\ ~Die)
-----------------------------------------------------------------------------
Partial(f, keys, values) == DOMAIN f \subseteq keys /\ \A k \in DOMAIN f : f[k] \in values

Places == Paths \X {RelPath[k] : k \in DOMAIN RelPath}

TypeOK ==
    /\ \A p \in Paths : files[p] # None => files[p].content \in Contents /\ files[p].mtime \in 0..clock
    /\ stage \in Stages
    /\ Partial(report.size, Paths, Nat) /\ Partial(report.hash, DOMAIN report.size, Contents \cup {None})
    /\ Partial(listed, scenario.archives, Contents)
    /\ Partial(own, Paths, Contents \cup {None})
    /\ DOMAIN rows \subseteq DOMAIN listed
    /\ Partial(dest, Places, Contents)
    /\ \A i \in DOMAIN csv : csv[i].path \in Places /\ csv[i].sha \in Contents
    /\ run.phase \in Phases
    /\ Partial(run.have, Contents, Places)

\* A loose file that has the size and time of the scan holds what the manifest
\* says it holds, whatever was written while the report, the scan and the hashes
\* were made: this is what the deletion of an archive rests on
\* (build_unique_manifest.py, unchanged() of the extract script).
LooseIsTrue ==
    stage = "ready" =>
        \A p \in Paths : scan[p] # None /\ Unchanged(p) /\ Sha(p) # None => Content(p) = Sha(p)

Held == {Content(p) : p \in There} \cup {dest[d] : d \in DOMAIN dest}

\* The hypotheses under which RetiredIsKept is so for every drive: no file's key
\* is what precedes the last "!" of another member's,
PlainNames ==
    \A c \in Contents : \A m, n \in ToSet(Inside[c]) : Inside[m.content] = << >> => m.key # n.upto

\* and members that are extracted to one place are equal.
PlacesDiffer ==
    \A c \in Contents : \A m, n \in ToSet(Inside[c]) :
        RelPath[m.key] = RelPath[n.key] => m.content = n.content

\* When an archive is deleted, every non-empty file in it, in nested archives
\* too, exists as a loose or as an extracted file ("only when every file inside
\* is proven safe").
RetiredIsKept ==
    [][\A p \in Paths : Unlink /\ p = run.top /\ p \in There =>
        \A m \in ToSet(Inside[Content(p)]) :
            Size[m.content] > 0 /\ Inside[m.content] = << >> => m.content \in Held']_vars

\* Whatever step a run dies in, a later run takes up its extracted files and
\* deletes every archive that was listed and hashed without errors.
RerunsFinish ==
    (scenario.healthy /\ stage = "ready") ~> (\A p \in DOMAIN rows : p \notin There)
=============================================================================
