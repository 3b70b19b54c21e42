------------------------------ MODULE ImportJob ------------------------------
(***************************************************************************)
(* One import job and the calls of its endpoints: start, complete and      *)
(* execute, which scans the source, expands its archives into the job's    *)
(* directory, stores one document per file and embeds the documents. Every *)
(* call has a session of its own; an action is one transaction or one      *)
(* access to files. No lock is taken anywhere.  SourceIngestionProofs      *)
(* extends this module beside SourceIngestion, hence the prefix of the     *)
(* usual names.                                                            *)
(***************************************************************************)
EXTENDS Naturals, Sequences, SequencesExt, FiniteSets

CONSTANTS
    Calls,      \* the calls made, each once
    Paths,      \* paths of files, below the source and in the job's directory
    Contents,   \* contents of files
    Torn,       \* content of a file that is being written
    Null,
    Settings    \* what the source holds and what may happen

ASSUME NullAssumption == Null \notin Contents \cup Nat \cup {Torn}
ASSUME TornAssumption == Torn \notin Contents

EntryKinds == {"file", "dir", "symlink"}
Entries ==
    [path : Paths, content : Contents \cup {Null}, kind : EntryKinds, size : Nat, packed : Nat,
     inside : BOOLEAN]
ArchiveRecords ==
    [path : Paths, format : {"zip", "7z"}, valid : BOOLEAN, size : Nat, members : Seq(Entries)]

\* A source is a directory as it is on the disk; what is no directory has a content.
ASSUME SettingsAssumption ==
    \A s \in Settings :
        /\ s.source \in [Paths -> Contents \cup {Null}]
        /\ s.listing \in Seq(Paths)
        /\ s.archives \in Seq(ArchiveRecords)
        /\ \A a \in ToSet(s.archives) : \A m \in ToSet(a.members) :
              m.content = Null => m.kind = "dir"
        /\ s.deaths \in Nat

VARIABLES
    setting,
    row,        \* the job: status, files_discovered
    documents,  \* the rows of the job: path, hash, and which call made it
    embedded,   \* ids of documents with chunks
    disk,       \* content of each path, Null where there is no file
    step,       \* where each call is
    found,      \* paths a call has discovered
    todo,       \* what is left of the loop a call is in
    made,       \* ids of the documents a call has created
    pending,    \* files_discovered assigned and not flushed, or Null
    deaths      \* bound: calls whose process may still die

jobVars == <<row, documents, embedded, disk>>
callVars == <<step, found, todo, made, pending>>
importVars == <<setting, row, documents, embedded, disk, step, found, todo, made, pending, deaths>>

Working == {"claim", "scan", "extract", "inflate", "store", "embed", "commit", "complete", "fail"}
Ended == {"done", "dead"}
CallSteps == {"idle", "start", "byHand"} \cup Working \cup Ended

\* What a job is for ImportLife while one call at a time works on it; where calls
\* overlap the document's edges do not bind the code (see README.md).
Life == INSTANCE ImportLife WITH status <- IF setting.alone THEN row.status ELSE "PENDING"
-----------------------------------------------------------------------------
\* Archives. An archive is [path, format, valid, size, members], a member
\* [path, content, kind, size, packed, inside].

HardExpansionRatio == 1000
HardFreeSpace == 10     \* GB

\* The elements of a sequence that are in a set, in their order.
Kept(s, set) ==
    LET kept[i \in 0..Len(s)] ==
            IF i = 0 THEN << >>
            ELSE IF s[i] \in set THEN Append(kept[i - 1], s[i]) ELSE kept[i - 1]
    IN  kept[Len(s)]

FilesOf(archive) == Kept(archive.members, {m \in ToSet(archive.members) : m.kind # "dir"})
PathsOf(archive) == [i \in DOMAIN FilesOf(archive) |-> FilesOf(archive)[i].path]

Total(members) == FoldSeq(LAMBDA m, sum : m.size + sum, 0, members)

\* A ratio over nothing counts as infinite.
Expands(packed, size) == packed = 0 \/ size > HardExpansionRatio * packed

\* A zip is judged member by member, a 7z, whose members share their
\* compression, as a whole.
ZipBomb(archive) == \E m \in ToSet(FilesOf(archive)) : Expands(m.packed, m.size)
SevenZipBomb(archive) == Expands(archive.size, Total(FilesOf(archive)))

ZipUnsafe(archive) == \E m \in ToSet(archive.members) : ~m.inside
SevenZipUnsafe(archive) ==
    \E m \in ToSet(archive.members) : ~m.inside \/ m.kind \notin {"file", "dir"}

NoSpace(archive) == setting.free < HardFreeSpace + Total(FilesOf(archive))

\* Every reason to raise before anything is written.
Refused(archive) ==
    \/ ~archive.valid
    \/ archive.format = "zip" /\ (ZipUnsafe(archive) \/ ZipBomb(archive))
    \/ archive.format = "7z" /\ (SevenZipUnsafe(archive) \/ SevenZipBomb(archive))
    \/ NoSpace(archive)

Named(archive, path) == {i \in DOMAIN FilesOf(archive) : FilesOf(archive)[i].path = path}

\* What extractall leaves at each path: the last member of that name.
Extracted(archive) ==
    [p \in Paths |-> IF Named(archive, p) = {} THEN disk[p]
                     ELSE FilesOf(archive)[Max(Named(archive, p))].content]

Opened(archive) == [p \in Paths |-> IF Named(archive, p) = {} THEN disk[p] ELSE Torn]

Containers == {a.path : a \in ToSet(setting.archives)} \cup setting.nested

\* Only what the scan saw is expanded: an archive within an archive is a
\* container that no document stands for.
Documentable(paths) == Kept(paths, Paths \ Containers)

Jobs == [status : Life!ImportStatus, discovered : Nat]
Documents == [path : Paths, hash : Contents \cup {Null, Torn}, by : Calls]
-----------------------------------------------------------------------------
ImportInit ==
    /\ setting \in Settings
    /\ row = [status |-> "PENDING", discovered |-> 0]
    /\ documents = << >>
    /\ embedded = {}
    /\ disk = setting.source
    /\ step = [c \in Calls |-> "idle"]
    /\ found = [c \in Calls |-> << >>]
    /\ todo = [c \in Calls |-> << >>]
    /\ made = [c \in Calls |-> << >>]
    /\ pending = [c \in Calls |-> Null]
    /\ deaths = setting.deaths

MoveTo(c, s) == step' = [step EXCEPT ![c] = s]

SetStatus(status) == row' = [row EXCEPT !.status = status]

MayCall(c, kind) ==
    /\ step[c] = "idle" /\ c \in setting.callers
    /\ kind \in setting.kinds
    /\ setting.alone => \A d \in Calls : step[d] \in {"idle"} \cup Ended

\* start_import_job: read and checked, then committed.
AskStart(c) ==
    /\ MayCall(c, "start")
    /\ MoveTo(c, IF row.status \in Life!Startable THEN "start" ELSE "done")
    /\ UNCHANGED <<setting, jobVars, found, todo, made, pending, deaths>>

Start(c) ==
    /\ step[c] = "start"
    /\ SetStatus("RUNNING")
    /\ MoveTo(c, "done")
    /\ UNCHANGED <<setting, documents, embedded, disk, found, todo, made, pending, deaths>>

\* complete_import_job.
AskComplete(c) ==
    /\ MayCall(c, "complete")
    /\ MoveTo(c, IF row.status = "RUNNING" THEN "byHand" ELSE "done")
    /\ UNCHANGED <<setting, jobVars, found, todo, made, pending, deaths>>

CompleteByHand(c) ==
    /\ step[c] = "byHand"
    /\ SetStatus("COMPLETED")
    /\ MoveTo(c, "done")
    /\ UNCHANGED <<setting, documents, embedded, disk, found, todo, made, pending, deaths>>

\* Mutant: a completed job may be executed again.
ExecutableEvenCompleted(status) == status \notin {"RUNNING", "PAUSED", "CANCELLED"}

Executable(status) == status \notin {"RUNNING", "PAUSED", "COMPLETED", "CANCELLED"}

\* execute_job reads the job; mark_running checks the same cached object.
AskExecute(c) ==
    /\ MayCall(c, "execute")
    /\ MoveTo(c, IF Executable(row.status) THEN "claim" ELSE "done")
    /\ UNCHANGED <<setting, jobVars, found, todo, made, pending, deaths>>

ClaimJob(c) ==
    /\ step[c] = "claim"
    /\ SetStatus("RUNNING")
    /\ MoveTo(c, "scan")
    /\ UNCHANGED <<setting, documents, embedded, disk, found, todo, made, pending, deaths>>

\* A missing source raises; else the files in the order of their names.
Scan(c) ==
    /\ step[c] = "scan"
    /\ \/ /\ "missing" \in setting.faults
          /\ MoveTo(c, "fail")
          /\ UNCHANGED <<found, todo>>
       \/ /\ MoveTo(c, "extract")
          /\ found' = [found EXCEPT ![c] = setting.listing]
          /\ todo' = [todo EXCEPT ![c] = setting.archives]
    /\ UNCHANGED <<setting, jobVars, made, pending, deaths>>

\* Mutant: an archive that cannot be extracted is left out.
SkipRefused(c) == todo' = [todo EXCEPT ![c] = Tail(@)] /\ UNCHANGED <<disk, step>>

\* The exception ends the whole job.
Refuse(c) == MoveTo(c, "fail") /\ UNCHANGED <<disk, todo>>

\* The checks of one archive, and the start of extractall.
ExtractArchive(c) ==
    /\ step[c] = "extract" /\ todo[c] # << >>
    /\ IF Refused(Head(todo[c]))
       THEN Refuse(c)
       ELSE /\ disk' = Opened(Head(todo[c]))
            /\ MoveTo(c, "inflate")
            /\ UNCHANGED todo
    /\ UNCHANGED <<setting, row, documents, embedded, found, made, pending, deaths>>

\* The end of extractall; members of equal name lie at one path. It may break off,
\* and the audit after it may raise: what is on the disk by then stays there.
Inflate(c) ==
    /\ step[c] = "inflate"
    /\ \/ /\ disk' = Extracted(Head(todo[c]))
          /\ found' = [found EXCEPT ![c] = @ \o PathsOf(Head(todo[c]))]
          /\ todo' = [todo EXCEPT ![c] = Tail(@)]
          /\ MoveTo(c, "extract")
       \/ /\ "inflate" \in setting.faults
          /\ disk' \in {disk, Extracted(Head(todo[c]))}
          /\ MoveTo(c, "fail")
          /\ UNCHANGED <<found, todo>>
    /\ UNCHANGED <<setting, row, documents, embedded, made, pending, deaths>>

BeginStore(c) ==
    /\ step[c] = "extract" /\ todo[c] = << >>
    /\ todo' = [todo EXCEPT ![c] = Documentable(found[c])]
    /\ MoveTo(c, "store")
    /\ UNCHANGED <<setting, jobVars, found, made, pending, deaths>>

\* The hash of what is there now; a file that cannot be read has none.
Hashes(path) == {disk[path]} \cup (IF "hash" \in setting.faults THEN {Null} ELSE {})

\* create_document for the next file; an insert that fails ends the job.
Store(c) ==
    /\ step[c] = "store" /\ todo[c] # << >>
    /\ \/ \E hash \in Hashes(Head(todo[c])) :
            /\ documents' = Append(documents, [path |-> Head(todo[c]), hash |-> hash, by |-> c])
            /\ made' = [made EXCEPT ![c] = Append(@, Len(documents'))]
            /\ todo' = [todo EXCEPT ![c] = Tail(@)]
            /\ UNCHANGED step
       \/ /\ "insert" \in setting.faults
          /\ MoveTo(c, "fail")
          /\ UNCHANGED <<documents, made, todo>>
    /\ UNCHANGED <<setting, row, embedded, disk, found, pending, deaths>>

\* files_discovered is assigned; the next commit of this session writes it.
BeginEmbed(c) ==
    /\ step[c] = "store" /\ todo[c] = << >>
    /\ pending' = [pending EXCEPT ![c] = Len(found[c])]
    /\ todo' = [todo EXCEPT ![c] = made[c]]
    /\ MoveTo(c, "embed")
    /\ UNCHANGED <<setting, jobVars, found, made, deaths>>

Flush(c) ==
    /\ row' = [row EXCEPT !.discovered = IF pending[c] = Null THEN @ ELSE pending[c]]
    /\ pending' = [pending EXCEPT ![c] = Null]

\* extract_text raises before the session is touched.
SkipUnreadable == "unreadable" \in setting.faults /\ UNCHANGED <<row, embedded, pending>>

\* The rollback of a failed embedding expires the job, assignment and all.
EmbedFails(c) ==
    /\ "embed" \in setting.faults
    /\ pending' = [pending EXCEPT ![c] = Null]
    /\ UNCHANGED <<row, embedded>>

\* Chunks are replaced in one transaction; an empty text has none.
EmbedDocument(c) ==
    /\ \/ embedded' = embedded \cup {Head(todo[c])}
       \/ "empty" \in setting.faults /\ embedded' = embedded \ {Head(todo[c])}
    /\ Flush(c)

Embed(c) ==
    /\ step[c] = "embed" /\ todo[c] # << >>
    /\ SkipUnreadable \/ EmbedFails(c) \/ EmbedDocument(c)
    /\ todo' = [todo EXCEPT ![c] = Tail(@)]
    /\ UNCHANGED <<setting, documents, disk, step, found, made, deaths>>

\* commit and refresh; mark_completed then checks what the refresh has read.
Commit(c) ==
    /\ step[c] = "embed" /\ todo[c] = << >>
    /\ Flush(c)
    /\ MoveTo(c, IF row.status = "RUNNING" THEN "complete" ELSE "fail")
    /\ UNCHANGED <<setting, documents, embedded, disk, found, todo, made, deaths>>

Complete(c) ==
    /\ step[c] = "complete"
    /\ SetStatus("COMPLETED")
    /\ MoveTo(c, "done")
    /\ UNCHANGED <<setting, documents, embedded, disk, found, todo, made, pending, deaths>>

\* Mutant: the exception passes without a trace on the row.
FailUnrecorded(c) ==
    /\ step[c] = "fail"
    /\ MoveTo(c, "done")
    /\ UNCHANGED <<setting, jobVars, found, todo, made, pending, deaths>>

\* The handler of any exception, whatever the row says by now.
Fail(c) ==
    /\ step[c] = "fail"
    /\ SetStatus("FAILED")
    /\ pending' = [pending EXCEPT ![c] = Null]
    /\ MoveTo(c, "done")
    /\ UNCHANGED <<setting, documents, embedded, disk, found, todo, made, deaths>>

\* The process dies; an open transaction is rolled back.
Die(c) ==
    /\ deaths > 0
    /\ step[c] \notin {"idle"} \cup Ended
    /\ deaths' = deaths - 1
    /\ MoveTo(c, "dead")
    /\ UNCHANGED <<setting, jobVars, found, todo, made, pending>>

Ask(c) == AskStart(c) \/ AskComplete(c) \/ AskExecute(c)
Work(c) ==
    \/ Start(c) \/ CompleteByHand(c) \/ ClaimJob(c) \/ Scan(c) \/ ExtractArchive(c) \/ Inflate(c)
    \/ BeginStore(c) \/ Store(c) \/ BeginEmbed(c) \/ Embed(c) \/ Commit(c)
    \/ Complete(c) \/ Fail(c)

ImportNext == \E c \in Calls : Ask(c) \/ Work(c) \/ Die(c)

ImportSpec == ImportInit /\ [][ImportNext]_importVars

\* A call that has not died goes on.
FairImportSpec == ImportSpec /\ \A c \in Calls : WF_importVars(Work(c))
-----------------------------------------------------------------------------
ImportTypeOK ==
    /\ setting \in Settings
    /\ row \in Jobs
    /\ ToSet(documents) \subseteq Documents
    /\ embedded \subseteq DOMAIN documents
    /\ disk \in [Paths -> Contents \cup {Null, Torn}]
    /\ step \in [Calls -> CallSteps]
    /\ \A c \in Calls :
        /\ ToSet(found[c]) \subseteq Paths
        /\ ToSet(made[c]) \subseteq DOMAIN documents
        /\ pending[c] \in Nat \cup {Null}

\* Everything there is to discover, in discovery's order.
Everything ==
    setting.listing \o FlattenSeq([i \in DOMAIN setting.archives |-> PathsOf(setting.archives[i])])

\* Call c has stored a document for every file of the source and of its
\* archives, by itself and in order.
StoredAll(c) == [i \in DOMAIN made[c] |-> documents[made[c][i]].path] = Documentable(Everything)

\* A job that nobody completed by hand is COMPLETED only if one execution stored
\* every file, also when executions race or an earlier one failed half-way. When
\* they do not race, each hash is of the file as it now lies there, never of one
\* that was still being extracted, and the job tells how many files it found
\* unless an embedding failed.
CompletedIsWhole ==
    row.status = "COMPLETED" /\ "complete" \notin setting.kinds =>
        \E c \in Calls :
            /\ StoredAll(c)
            /\ setting.alone =>
                /\ \A i \in ToSet(made[c]) : documents[i].hash \in {Null, disk[documents[i].path]} \ {Torn}
                /\ "embed" \notin setting.faults => row.discovered = Len(Everything)

\* The status of a job that one call at a time works on follows the state
\* machine of the architecture document.
FollowsLife == Life!Spec

\* A job whose calls do not die, and that nobody starts by hand, is not RUNNING
\* for ever: every exception, and every race, ends in COMPLETED or FAILED.
ExecutionsEnd ==
    setting.deaths = 0 /\ "start" \notin setting.kinds => <>[](row.status # "RUNNING")
=============================================================================
