# AI_Brain: specifications and proofs

TLA+ modules of the parts of AI_Brain where several processes, a database and a
file system meet: the batch ingestion pipeline ("Chain 2") from the creation of
a batch to its completion, import jobs ("Chain 1"), deduplication from a finding
to the move of a file, the scripts that retire archives, and chat. TLC checks
each module on small instances; TLAPS proves their safety properties for all
instances.

Contents: [inventory](#inventory), [modules](#modules), [runs](#runs),
[findings](#findings), [proofs](#proofs), [not modelled](#not-modelled),
[plan](#plan). Paths are under `src/backend/app/` unless they start with `src/`.

## Inventory

AI_Brain is one FastAPI process and a set of operator scripts over PostgreSQL, a
workspace directory, a drive of source files that the batch pipeline only reads,
and a local model server (Ollama). Every service object holds one SQLAlchemy
session; all coordination goes through the database.

| Part | State | Operations | Talks to |
|---|---|---|---|
| Batch control (`classification/batch_control_service.py`) | status, stop reason, timestamps and runtime of `ingestion_batches`; the start of the running session, in memory | start, pause, resume, abort, complete | resource guard; called by operators and the completion reconciler |
| Resource guard (`classification/resource_guard.py`) | count of failed Ollama probes, in memory | checks before a claim, an extraction, an embedding | disks, Ollama |
| Worker claims (`classification/worker_claim_service.py`) | `claimed_by`, `lease_expires_at`, `claim_generation` on rows and groups; `embeddings_reserved` on batches | claim, release, reserve, consume, give back | everything below |
| Identity resolution, archive processing (`classification/identity_resolution_service.py`, `archive_processing_service.py`, `content_identity_service.py`) | `source_instances`, `content_identity_groups`, `ingestion_attempts`, workspace files, `extracted_bytes_consumed` | resolve a loose file; extract an archive and resolve its members | claims, workspace |
| Normalize, chunk, embed (`classification/normalization_service.py`, `chunking_service.py`, `pipeline_embedding_service.py`) | `pipeline_state` of a group, `documents`, `document_chunks`, attempts | one stage each for one group | claims, Ollama |
| Batch report and completion (`classification/batch_report_service.py`, `batch_completion_reconciliation_service.py`) | none of their own | count, assert, complete | control |
| Batch creation and selection (`classification/batch_creation_service.py`, `deterministic_selector.py`, `policy_evaluator.py`) | `ingestion_batches`, `source_instances.batch_id` | create a batch from a ranked selection, under an advisory lock | PostgreSQL |
| Orchestrator and run loop (`classification/batch_orchestrator_service.py`, `src/scripts/t7_chain2_*.py`) | what a pass has had already, in memory | `run_once`: every stage until it finds nothing, then completion; the loop around it; reset and retry of a failed group | all of the above |
| Deduplication (`dedup/`) | reviews, plans, authorizations, executions, audits, reconciliations; files under `allowed_root` and `quarantine_root` | detect, review, plan, authorize, execute, recover, reconcile | file system |
| Archive retirement (`discovery/duplicate_analysis.py`, `src/scripts/`) | report, scan, listings, hashes and manifest as files; extracted files and `_verified_files.csv` | report, scan, hash loose files, hash members, build the manifest, extract and delete | a drive that people and a syncing program change |
| Import jobs (`services/import_job_service.py`, `ingestion/`) | `import_jobs`, `documents`, chunks, the job's directory | create, start, complete, execute | file system, Ollama |
| Chat, tools, memory (`services/chat_service.py`, `tools/`, `memory/`) | conversations, messages, tool calls, memories | one turn; rename, delete; propose, approve, reject | retrieval, Ollama |
| Retrieval (`rag/`, `embeddings/cache.py`) | BM25 index, query cache | search | PostgreSQL, Redis |
| Discovery and provenance (`discovery/`, `provenance/`) | reports | read-only scans | file system |

What is hard here:

- **Leases that run out under a live worker.** A claim is fenced by a generation
  number, but each service fences with whatever the session's object says. The
  session does not expire objects at a commit and does expire them at a
  rollback, so a worker's idea of its own generation may be older or newer than
  its claim.
- **Reservations.** Embeddings and extracted bytes are charged to a batch in one
  transaction and settled in another one, possibly by somebody else, possibly
  never.
- **Steps that are several transactions.** Artifact, attempt record and release
  are separate commits; a worker may die between any two of them.
- **Check and write without a lock**: import jobs, reviews, authorizations,
  conversations and memories are read, judged in Python and written.
- **Counts taken one after the other** under READ COMMITTED, from which a batch
  is then completed.
- **A queue whose order is fixed.** Every claim takes the oldest row; who gets
  one back after a denial or a failure, and whether a pass reaches the others,
  is the orchestrator's bookkeeping.
- **Files that other programs change** between hash and rename, or between the
  first and the last of six scripts.
- **Claims without a lease** on dedup executions: whether an executor is still
  alive is a person's judgment.

What makes the parts correct: charges balance and respect the envelope; a row's
state never claims work that is not there; terminal states are final; no file is
selected twice or passed over; a batch completes exactly when its work is done,
and follows its state machine; the runtime account is not inflated; a completed
import is whole; a decision of a person stands; an authorization is granted for
what holds; audits of file moves are true; a content never loses its last copy,
neither to the executor nor to the retirement of archives; tool records name
their answer; calls and rows do not get stuck. `PROJECT.json` lists each hazard
at its line with the properties that cover it.

## Modules

| Module | Models | State | Actions |
|---|---|---|---|
| `BatchStates` | the enumerations of `models/ingestion_batch.py` and the reason sets of the control service | - | - |
| `BatchLife` | what control promises: the six edges of the batch state machine with their reasons | status, stop reason | `Run`, `Pause`, `Abort`, `Complete` |
| `BatchControl` | `BatchControlService` on one row, several instances, and the completion reconciler's call of it | the row; per instance the cached object, the session start and the call in progress; a monotonic clock | request, guard check, conditional `UPDATE`, return; `Tick`, `Forget`, `Restart` |
| `GuardTiers`, `ResourceGuard` | thresholds and `BatchResourceGuard` | free space, failed probes | the three checks, `RestartProcess` |
| `ContentPipeline` | the three group stages, claims, reservations and attempts | group rows, batch charges, artifacts, and each worker's locals | one per transaction |
| `SourceIngestion` | source rows: identity resolution, archives, extracted bytes, report and completion | source rows, groups, workspace, attempts, the batch, each worker's locals | one per transaction or file access |
| `BatchSelection` | policies, suffix classes, risk tiers, deferral of equal archives, the ordered selection | - (operators) | - |
| `BatchOrchestrator` | `create_batch`, start, pause and resume, `run_once` with its five stages and its completion, the run loop, the reset and retry scripts | batches and what they hold, rows, attempts, groups, charges; per process the stage, the row and what it has had | one per call of a service |
| `DedupApproval` | detection, `DedupReviewService`, `DedupExecutionPlanService`, `DedupPlanAuthorizationService` | files, reviews, plans, authorizations, each request's locals | read and check, one file hashed, write |
| `DedupExecution` | authorizations, executions, `execute`, `recover_stale_execution`, `reconcile_action` | files, quarantine, the five tables, each call's locals | one per transaction or file access |
| `ImportLife` | what the architecture document promises of an import job: its state machine | status | `Start`, `Complete`, `Fail` |
| `ImportJob` | `ImportJobService` and the document ingestion on one job, archive checks and extraction | the job row, documents, embeddings, files, each call's locals | one per transaction or file access |
| `ArchiveRetirement` | the six steps from the duplicate report to the deletion of archives | the drive, what each script wrote, extracted files, the running script | one per file or archive |
| `ChatTurn` | turns of `ChatService`, deletion of a conversation, renaming, review of memories | conversation, messages, tool records, memories, each turn's and the deletion's locals | one per transaction, statement of the deletion, or answer of the model |
| `ContentPipelineProofs`, `BatchOrchestratorProofs`, `DedupExecutionProofs`, `ArchiveRetirementProofs` | theorems about the module of that name | | |
| `BatchControlProofs`, `SourceIngestionProofs`, `ReviewProofs` | theorems about `BatchControl` and `ResourceGuard`, about `SourceIngestion` and `ImportJob`, and about `DedupApproval` and `ChatTurn` | | |
| `SumTheorems` | least and greatest elements, induction over the parts of a finite set, and the laws of `SumFunctionOnSet`, for the ledgers and for what comes first or last | | |
| `MC*` | instances for TLC: model values and scenarios | | |

How they fit together. `ResourceGuard` and `BatchControl` extend `GuardTiers`;
everything with batches extends `BatchStates`, and `BatchOrchestrator` also
`BatchSelection`. Two detailed modules implement an abstract one:
`BatchControl` has `Life == INSTANCE BatchLife` with its own status and stop
reason, and `ImportJob` has `Life == INSTANCE ImportLife` with the row's status
where one call at a time works on the job (where calls overlap the code does not
follow the document, see [below](#seen-and-not-listed), and the abstract status
is kept at `PENDING`). In both, `FollowsLife` is the refinement.
`BatchOrchestrator` is the composition of the batch services at the grain of
their calls: a call of a stage is its claim, its admission against an envelope,
and its work. The transactions inside the work, and workers that outlast their
lease, are `SourceIngestion` and `ContentPipeline`, which meet at the group: what
the one does to it is an environment action of the other. `DedupApproval` ends
with the authorization that `DedupExecution` begins with.

Conventions:

- **One action is one transaction**, or one access to a file or a server. A
  statement sequence that commits once is one action. The session's objects are
  the workers' locals: in `ContentPipeline`, `gen[w]` is the generation a worker
  would fence with now, and it is reread where a rollback expires the object.
- **A scenario** is a record chosen by `Init` and never changed. It says which
  faults may occur, in which steps a live worker may outlast its lease, and how
  many claims, deaths, files touched or requests there may be. One run so covers
  several circumstances, and a property that needs a hypothesis about the
  circumstances (no late worker fails, one operator only, no two requests
  overlap) states it over the scenario. The proofs hold for every set of
  scenarios.
- **Time** is not counted, except by the clocks of `BatchControl` (runtime) and
  `ArchiveRetirement` (modification times): a lease is running or expired, and a
  worker that may not outlast its lease in a step cannot be overtaken in it.
- **`TypeOK`** is stated in every module with state. It documents the variables, and
  is proved of all but `BatchOrchestrator` and `ArchiveRetirement`.
- **Names.** A module of theorems that is about two models extends both, so
  `ResourceGuard`, `ImportJob` and `ChatTurn` bear a prefix on the usual names
  (`GuardSpec`, `ImportInit`, `chatVars`), and `ImportJob` and `ChatTurn` say
  `Null` and `Settings` for what the others call `None` and `Scenarios`.
- **Mutants** stand directly before the definition they change; each is a
  plausible bug that makes TLC refute one property.

Where the modules are coarser than the code:

- `ContentPipeline`: the commit of a successful attempt and the count that
  `_succeed` reads from it are one action, as are the reload of an expired
  object and the fenced `UPDATE` right after it. `chunk_text` is a number of
  chunks; texts and vectors are present or absent.
- `SourceIngestion`: a group's life after `EXTRACTED` is `AttemptGroup` and
  `SettleGroup`. A workspace file is written in place, as `write_workspace_content`
  does, in two steps: `BeginWrite` empties it, `WriteContent` ends it or fails, and
  what lies between is a file that is `cut`. What a walk visits is a
  constant sequence. A row's `source_category` is `CountedAsArchive`, the
  suffix test of the claims is membership in `Archives`: the code has both.
- `BatchControl`: after an `UPDATE` the cached object may or may not have the
  new status (`ViewsAfterUpdate`); the code depends on SQLAlchemy's evaluation
  of the `WHERE` clause in Python. An instance's cached object may go at any
  time the instance is idle.
- `BatchOrchestrator`: work of a stage is one step with its claim's release, and
  no process is overtaken while it lives. Sizes are whole MB, a candidate is its
  rank in the order of paths, a suffix one of nine classes. `Start` and `Resume`
  are the conditional `UPDATE`s without their guard checks; failures of normalization,
  chunking and embedding are one choice each, durable or not, as the services
  record them.
- `DedupExecution`: `check_plan_validity` is read in one step, as are the
  several looks of the verification after the move. Symlinks, hard links,
  devices, type suffixes and the roots are not modelled. The refusal because
  the destination exists cannot be reached, since an execution is claimed once
  and its destinations carry its id. Other programs reach files by path, not
  through descriptors they opened before. Results posted by hand are left out.
- `DedupApproval`: cosine similarity is a constant relation, and the limit of a
  detection an arbitrary choice of groups. Rows of documents are never changed
  or deleted by the code, so the checks of a vanished row and of a changed path
  are left out. The check of the type is whether the document is one of
  `scenario.typed`: the stored type and the path never change.
- `ImportJob`: chunks of a document are there or not; an extracted file is torn
  until its extraction ends. Names that leave the directory are a flag of a
  member, links a kind.
- `ArchiveRetirement`: a hash is the content; a modification time is a number
  and two of them are the same within the script's slack. Whatever is written
  takes the time of the writing, later than every earlier one: a program that puts
  a file in place with an old modification time (a move, a sync that keeps times)
  is excluded, and both properties of the manifest rest on that. The last check of an
  archive and its deletion are one step. The folder statistics of the report and
  of the manifest decide nothing and are left out.
- `ChatTurn`: prompts, attachments and search results are data that only the
  model sees. Foreign keys are checked when a row is written.

## Runs

Each run's `CHECK_DEADLOCK` is off where the scenario bounds claims, starts or
requests: the modelled system comes to rest when they are used up.

| Run | Question | Instance |
|---|---|---|
| `pipeline` | Do charges balance, do states tell the truth, are claims and terminal states kept? | two workers; one group with two chunks through all faults with leases that run out in most steps (`Stalls`), through deaths only (`Prompt`), with a slow server and two batches (`SlowServer`), with embedders overtaken anywhere (`LateEmbedders`); two groups competing for one envelope (`Competition`); up to six claims and a death |
| `pipeline_liveness` | Does every group settle? | two groups, two deaths, eight claims |
| `control` | Do racing operators and reconcilers follow the state machine, and account for runtime? Is the Ollama stop the third failure in a row of one process? | two operators and a reconciler; one operator with a reconciler, two deaths and four ticks; one operator alone for six ticks. Or a guard, five probes of a process, free space on both sides of each threshold: the two share no state, so a behaviour is of one or of the other |
| `source` | Do extracted bytes balance, are successes complete, identities and claims stable, and is the batch completed when and because its rows are done? | ten scenarios of at most two source rows, two workers, three claims and a death; in one of them (`SameFile`) a row and a member of an archive write the same file of the workspace |
| `orchestrator` | Is every file selected once and in its turn, is one pass enough, and does the loop finish a batch? | six files of three contents (an archive that nests too deep, one that extracts, a copy of it, two texts with one archived, a film); calls that create batches at once (`Race`), content that fails and a death (`Failing`), two processes at one batch (`Shared`), a server that answers for part of the texts and a death (`Short`), envelopes that deny and an operator who pauses (`Denying`), a failed group that is reset and gets a batch of its own (`Again`) |
| `starved_rows` | (violation) Does a stage reach every row it could claim? | `Denying` without faults |
| `approval` | Does a decision stand, is a fresh plan usable, is a grant sound? | three copies, two requests at a time: plans that go stale and are made again (`Stale`), an exact and a near finding, with a copy that has no suffix (`Two`), everything at once (`Rivals`) |
| `dedup` | Are audits true, does a failure stop an execution, does a copy survive, does everything end? | three copies, two opposed plans, three executions; seven scenarios: files removed, rewritten and replaced (two touches), deaths, revocation, rival calls, overlapping recovery, opposed plans |
| `imports` | Is a completed import whole, does a job follow its documented life, and does no exception or race leave it RUNNING? | a loose file, a zip with a nested archive and a 7z with an equal name; broken, unsafe and oversized archives; every fault; three calls by hand with a death; two and three calls that race |
| `retirement` | Is the manifest true, does a deleted archive's content exist elsewhere, do later runs finish? | two loose and two archive paths, archives with equal, nested and twofold members: scripts that die twice (`Stopped`), files, members and a disk that fail (`Broken`), two changes by other hands (`Shared`) |
| `chat` | Do tool records and memories survive overlap and deletion, is the title current, do requests end? | two turns: after up to nine exchanges (`Long`), failing anywhere (`Failing`), both with tools (`Together`), beside a deletion and a review (`Deleted`) |
| `stale_title` | (violation) Is the title never six exchanges behind? | two turns after up to eleven exchanges |

Why the bounds are enough to be of use. The protocols are between a holder and
whoever comes next, so two workers and five or six claims give a late worker, its
successor, and a third claim that meets what both left behind. One chunked
document is two chunks because a short reply must be able to embed one of two;
the envelope is half of, or exactly, what a document needs, so that a charge
too many shows. Archives have a leaf before and after a nested one, so that a
walk can be cut off on both sides of the recursion. The drive of `orchestrator`
has a content that is a loose file and an archive's member, an archive that is
deferred as a copy, and a first batch that ends before the last file that would
have matched. A plan has two actions
because stopping and revocation are about the second. Two touches allow a file
to be replaced and then rewritten. An import has two archives so that one fails
after another is expanded. Three runs of the retirement let a second one die
where it takes up what the first one left. Two turns after up to nine exchanges go to the
cut of the history, 20 messages, which is as far as `TitleCurrent` speaks; two more
exchanges go past message 24, where the first refresh is missed. A batch's envelope
of 8 has room for the four chunks of all texts and for the two of the longest again
after each of two short replies, and no more. That what the properties guard against does occur is checked:
every property has a mutant that TLC refutes in the same run.

Fairness. Safety runs need none. The liveness properties assume:

- `pipeline_liveness`, `source`, `dedup`: a live worker takes its next step (it
  is a running process); a lease that is not renewed runs out (it is a
  timestamp); a stage polls its queue again and again and gets to a row that is
  claimable time after time (`SF`; the operator runs `run_once` repeatedly, and
  each run takes the oldest row first). A worker may still die, and then takes
  no more steps: `EveryGroupSettles` shows that its lease, and not its return,
  is what saves the row. It assumes that no reservation is refused, since a
  refused reservation ends the stage for younger rows (`starved_rows`).
  `BatchCompletes` is conditional on calm scenarios for the same reason. In
  `dedup` nothing is assumed of operators: the property is about calls that were
  made.
- `orchestrator`: a call of `create_batch` and every process run on, a person
  starts and resumes what was created and runs a script that died again, a dead
  process's lease runs out. `LoopFinishes` is for batches that nobody pauses, with
  room for all work and, after each short reply, for one more document (`Ample`):
  the charge of a call that was answered in part is consumed, and what is missing
  is charged again. Without that room the loop does not end, see below. Deaths,
  short replies and failures worth a retry are bounded by the scenario; failures for
  good are not.
- `imports`: a call that has not died goes on; nobody has to call again.
- `retirement`: a script goes on until it ends or dies, and a person runs it
  again while archives are left (the number of deaths is bounded by the number
  of runs).
- `chat`: the server works on its turns, and who wants a conversation gone tries
  again. That a turn ends is then the bound of its tool loop, and that a
  deletion succeeds, that turns run out of rows to add.

## Findings

Two runs show disagreements between the code and its documentation:

- **A denied row starves the others** (`starved_rows`).
  `batch_orchestrator_service.py:112-114` says that the exclusion of rows
  guarantees "that it actually reaches every other distinct, eligible row before
  stopping", and line 276 that the claim of groups "has no equivalent gap". A
  denied admission releases the oldest row and returns `None`
  (`archive_processing_service.py:219`, `pipeline_embedding_service.py:107`),
  which the loop takes for the end of the stage. Younger rows that would fit are
  not reached; the oldest group is still `CHUNKED` and the first claim of every
  later pass, of every batch, for the queue of groups is not per batch.
- **A title that is not made again** (`stale_title`). It is "regenerated every
  `TITLE_REFRESH_INTERVAL` exchanges" (`services/chat_service.py:597-598`), which is 3.
  The messages are counted after the cut of the history to 20 (lines 601 and 643), and
  20 is no multiple of 6: after message 18 the condition of line 605 is never met.

### Seen and not listed

Met while modelling; the scenarios or hypotheses keep them out of the passing
runs, and most are hazards in `PROJECT.json`. No property that a run checks would
catch the first two, the one of renamed archives, those of plans without a suffix,
of decisions and of authorizations, and the one of names with a `!`.

Batch pipeline:

- A generation that is not the claim's own. Every claim "returns its own
  `claim_generation` value to the caller", and a delayed worker's is "by
  definition" older than the row's
  (`src/docs/architecture/AI_Brain_Architecture.md:7852-7861`). It is read back after the
  claim's commit (`worker_claim_service.py:247`): a worker overtaken in between holds
  its successor's. `FencingProtects` and `NothingTaken` are stated for workers that
  are not overtaken there.
- A release that is not the holder's. `identity_resolution_service.py:102-104` calls the
  release "Fenced to the generation this call itself was granted" and "a safe no-op
  if a stale-claim recovery has since reclaimed this row". The loser of a race for a
  new group rolls back (`content_identity_service.py:105`), its source row is loaded
  again with the successor's generation, and the release clears the successor's
  claim. `NothingTaken` leaves out losers whose lease runs out.
- A batch that completes too early. `COMPLETED` is set only after a "reconciliation
  query confirms zero claimable/in-progress work remains"
  (`src/docs/architecture/AI_Brain_Architecture.md:8132-8135`). Of a file such as
  `backup.zip_1768918262`, which a sync conflict leaves behind, the category comes from
  the normalized suffix (`policy_evaluator.py:40`) and the claim from the raw one
  (`worker_claim_service.py:373`): it is resolved as a loose file, counted as a
  processed archive (`batch_report_service.py:281`), and the batch completes before its
  content is through the pipeline. `CompletionSound` is run on archives of which the
  two agree, and proved under that hypothesis.
- A late chunker unmakes `INGESTED`. Overtaken before its insert, it fails on
  `UNIQUE(document_id, chunk_index)`; the rollback expires the group, `_fail`
  (`chunking_service.py:131`) reads the *current* generation and writes `FAILED`
  over the terminal state, which `batch_completion_reconciliation_service.py:42`
  says cannot happen. A late embedder does the same
  (`pipeline_embedding_service.py:321`).
- A late normalizer leaks a charge. Overtaken while it normalizes, it rolls back,
  reloads the group and releases it with its *successor's* generation
  (`normalization_service.py:63`). The claim it clears may be that of a worker
  that has not read its generation yet: the next claim raises the number, and
  two workers hold the same one. Both pass the fence of `reserve_embeddings`, the
  second reservation overwrites the first, and the batch keeps a charge that no
  group owns. `src/docs/architecture/AI_Brain_Architecture.md:7853-7862` says of
  the fence that a late statement matches no row "**structurally**, not by luck
  of timing", and lines 8333-8334 ask that no capacity is leaked or counted
  twice. `LedgerBalanced` is stated for scenarios in which nobody is overtaken
  before it has read its generation or inserted its document.
- Between the release of a failed reservation and the write of `FAILED`, the
  row is free and may be claimed again (`pipeline_embedding_service.py:320`).
- The reconciler completes through a control service of its own
  (`batch_completion_reconciliation_service.py:73`), which knows no session
  start, so the running session adds nothing to the runtime.
- Two operators' books may count the same time twice
  (`batch_control_service.py:281`); `RuntimeIsLowerBound` is stated for one
  operator. A refused call may reply with an old status (line 330), of two
  racing stops both may be applied, and a resume that checked the disks before a
  newer pause undoes it (line 182).
- The report may refute itself beside a running worker
  (`batch_report_service.py:125`): its counts have different snapshots, and an
  unsupported file is terminal before it is attempted. A worker that dies between
  `assign` and that attempt leaves such a report for good.
- A group can be claimed before its bytes are in the workspace, and is then
  `FAILED` for good; claimed while they are being written (`workspace.py:53` writes in
  place), it is normalized with the part that is there, and `INGESTED` with it.
- A second row of the same bytes, or a late worker, writes a workspace file again that
  is whole. If it dies or the disk is full in the middle, the file stays cut, under a
  row that was resolved long before. `AssignedHasContent`, a part of
  `SuccessIsComplete`, says whole only where nobody else writes the file.
- With a server that stays short the embedding stage does not end by itself: the group is
  `EMBEDDED` (`pipeline_embedding_service.py:270-274`), which is a state to claim from (line
  23), and no group is excluded. Each round is charged anew until the envelope
  denies it; a group without a running batch is charged nothing and goes round for
  ever, against "the loop terminates (1)" (`batch_orchestrator_service.py:112-114`).
- The run loop (`src/scripts/t7_chain2_priority2_run_loop.py`) goes on for ever
  with a batch that is `PLANNED` or `PAUSED`, or with one whose file can never
  be read, and extracts an archive that failed for good again in each pass.
- A batch may be `COMPLETED` while contents of its archives were denied; they
  are embedded later, when another batch runs, without a charge of their own.
- The reset of a group from `FAILED` to `CHUNKED` does not ask at which stage it
  failed: one that failed at chunking has no chunks and becomes `INGESTED`
  without any.

Deduplication:

- A plan that can never be authorized. "A regenerated plan only ever proposes work
  that is still actually possible" (`dedup/execution_plan_service.py:164-165`). A file
  without a suffix has the type "unknown" (`ingestion/document_ingestor.py:68`), the
  check compares it with the empty suffix of the path
  (`dedup/execution_plan_service.py:69`), and every plan with such a file is refused,
  untouched as it is. `FreshPlanUsable` is about documents with a suffix; in `Two` one
  has none.
- A decision that is replaced. "A one-way PENDING -> decided transition"
  (`dedup/review_service.py:278`), on which
  `src/docs/architecture/AI_Brain_Architecture.md:576` rests ("that field can never
  change on an already-approved review"), is checked in Python before an `UPDATE` by
  primary key (`dedup/review_service.py:283`): of two requests at a time both are
  applied. `DecisionStands` is stated where requests do not overlap.
- Two authorizations. "Authorizing twice is a conflict, not a silent no-op"
  (`dedup/authorization_service.py:63-64`); two requests at a time both find none in
  force (line 101) and both insert one. `GrantIsSound` leaves that out.
- A recovery that overlaps the executor it gave up on records `NOT_ATTEMPTED`
  (`execution_service.py:653`), though the executor then moves the file; its own
  `SUCCESS` is dropped as a duplicate. `AuditTruthful` leaves such a recovery
  out.
- Two opposed plans executed *at the same time* can quarantine every copy
  (`executor.py:531`): each sees the other's canonical file before either moves.
- The executor tells canonical from duplicate by document id alone
  (`executor.py:502`). A failed import job that runs again makes second
  documents of the same paths (`import_job_service.py:158`), and the only file
  can be quarantined as a duplicate of itself.
- A file put back after a move looks untouched to recovery
  (`execution_service.py:656`). The recovery claim is never given back
  (line 538).
- A document that was edited since its import is planned with its present
  content: nothing compares a duplicate with its canonical document or with the
  recorded hash (`execution_plan_service.py:259`).

Import jobs:

- Calls that race over one job execute it twice, and the job goes back from
  `COMPLETED` (`import_job_service.py:193`); `CompletedIsWhole` holds
  nevertheless. A job whose process dies stays `RUNNING`: nothing resets it.
- The rollback of a failed embedding takes the number of discovered files with
  it (`embedding_service.py:61`).
- All archives of a job share a directory, and equal names overwrite each other
  (`ingestion/archive.py:68`).
- A stored empty file makes a zip, and so the job, fail: compressed size 0
  counts as an infinite ratio (`ingestion/archive.py:328`).

Retirement of archives:

- An only copy deleted with its archive. Whatever precedes the last `!` of a member's
  path counts as an opened nested archive
  (`src/scripts/extract_unique_and_retire_archives.py:387`). A file `x` beside a file
  `x!.txt` is then left out of what must exist elsewhere, and the archive is deleted
  with it, against line 3: "delete the archive once every file inside is proven
  safe". No archive of the run has such a name.
- An extracted copy only has to exist to count
  (`src/scripts/extract_unique_and_retire_archives.py:403`); one edited or
  truncated since still allows the deletion. A file that changes between the
  last check and the deletion (line 458) goes with it; and a change that leaves
  size and modification time alone is not seen. The run has none of the three.
- A copy of one member can count for another that is extracted to the same place
  (a name that an archive has twice, or two names that differ in what
  `safe_relpath` drops). That takes a run in which the first is extracted, one
  in which only the second can be read, and equal sizes; the log then has both
  hashes at one path.

Chat:

- A first turn that fails leaves an odd number of messages: the conversation
  then gets no title (against the docstring at line 595). A title made late may overwrite a
  renaming.
- The tool records of a failed turn keep no message for good, not "transiently"
  (`models/tool_call.py:42`). A tool's error in SQL loses the record of that
  call (`chat_service.py:397`).
- A memory written by hand that names a message but not its conversation keeps
  the conversation from being deleted (`chat_service.py:481`).

## Proofs

For every number of groups, rows, workers, batches, instances, documents and
executions, and every set of scenarios, from the named assumptions on the
constants in the modules. These are types (bounds and limits are numbers); that `NULL` is no value; that groups,
documents, source rows and workers are finite in number; and what the code makes
of its data: a plan has actions, each for a document of its own; a member's row
is named by its archive's path and its own, so that no two archives share one; a
member of a nested archive is read after that archive; a member of an import's
archive has a content unless it is a directory. A calm scenario of `ChatTurn` is
one in which nothing fails and nobody interferes (`SettingsAssumption`): that
is what the word means there.

A property that a run checks under a hypothesis is proved under the same one.
All properties of the passing runs that are not liveness are proved.

`ContentPipelineProofs`

- `TypeCorrect` (`TypeOK`). Inductive with `LocalsOK`, which says what a
  worker's locals hold in each step.
- `EnvelopeHolds` (`EnvelopeRespected`): charges never exceed
  `max_embeddings`. Only `Reserve` adds, and it is conditional.
- `ArtifactsTrustworthy` (`ArtifactsBehindState`), `AttemptsTrustworthy`
  (`AttemptsBehindState`): a state never claims a document, chunks, vectors or
  an attempt that are not there, with late workers too. The states alone are
  not inductive, for a worker writes a state it decided on several steps
  earlier. `EvidenceInv` adds `WorkersBacked`: what each worker is about to
  write is backed by artifacts already there; and `ChunksSound`. Artifacts only
  accumulate (`ArtifactsAccumulate`), so evidence once seen stays
  (`EvidenceStable`), and a state is only written by a release
  (`StateWritten`), which finds its worker's evidence.
- `LedgerHolds` (`LedgerBalanced`): every charge of a batch is consumed or the
  reservation of one of its groups. `LedgerInv` adds what a worker may rely on
  while its generation is the row's (`AllRely`), that nobody is charged before it
  reserves (`AllUncharged`), and that no two workers could both settle one
  charge (`AllUnrivalled`). What a step adds to a batch it adds to one summand.
- `FencingHolds` (`FencingProtects`): claims belong to their holders, reservations
  to the claims that made them, and a terminal state stays. In `FenceInv` a worker
  whose next fenced statement finds its generation has *custody* of the row: it
  is the claimant or has just given the claim back, the state is where its stage
  found it, and the reservation is the one it made. No two workers have custody
  of one row, so a statement that matches takes nothing from anybody.

`SourceIngestionProofs`

- `TypeCorrect` (`TypeOK`), with what an attempt knows in each step (`LocalsOK`).
- `ClaimsHold` (`NothingTaken`), from `ClaimInv`: a worker's generation is never
  later than its row's, and if it is the row's, nobody else has the claim;
  where no lease runs out under a live worker, each holds the row it is at.
- `SuccessHolds` (`SuccessIsComplete`), from `CompleteInv`: what a walk has passed
  is entered, whoever entered it, and stays; an identity is written after the
  bytes, and a success recorded after the identity. That the bytes are whole is
  `WholeInv`: of a file that is cut it is known who began to write it, and that this
  worker is still at it or was broken off (`CutsKnown`). A worker whose leaf shares
  its file with no other finds the leaf unresolved (`Unresolved`) and has itself begun
  and ended the write before it assigns the identity (`WritesWhole`), so the file of
  a resolved one stays whole (`StaysWhole`).
- `CompletionHolds` (`CompletionSound`), from `ReportInv`: the rows that are over
  only become more, so counts with different snapshots lag behind them, and one
  that reaches the number of rows is true when it is used. The theorem has the
  hypothesis that everything counted as an archive is one; the code does not give it,
  see [above](#seen-and-not-listed).
- `BytesHold` (`BytesAccounted`), from `LedgerInv`. For the equality each archive
  has a *share*: its actual bytes once settled, its declared ones while a worker
  has them reserved. Settled and reserved bytes together are the sum of the
  shares, which needs that no two workers are at one archive and that one that
  was processed is not claimed again. The `CHECK` on the envelope then never
  refuses a settlement that fits, and no delta is lost.

and of `ImportJob`, from `ImportInv`:

- `ImportTypeCorrect` (`ImportTypeOK`), with what is to be embedded: of documents
  that are there (`Embedding`).
- `ImportsAreWhole` (`CompletedIsWhole`), for every source, every sequence of
  archives and any number of calls that race, fail and die. `Progress` says what a
  call has done by the time it is at a step: it has expanded the first so many
  archives, in order; what it has stored and what is left to store are together
  what is there to store. Documents are only added, so a call that is done keeps
  what it has stored (`StoredStays`), and the row says `COMPLETED` only since a
  call that is done (`Completed`). Where one call at a time works
  (`SoleCall`), a torn file is one of the archive being extracted, or was left by
  a call that died, and then the row is `RUNNING` and nobody can execute the job
  again (`TornKnown`); so a call that stores meets none (`Fresh`), and nothing is
  written after it is done. What the archives hold is concatenated by a recursive
  function: `Recursion`, from `UpTo`, stands in for the library's theorems about
  such functions, which the provers cannot instantiate.
- `ImportFollowsLife` (`FollowsLife`): `ImportJob` implements `ImportLife`. A call
  that has the job to itself still finds the status it read (`SoleCall`), and all
  changes of the status are of four kinds (`RowMoves`).

`BatchControlProofs`

- `TypeCorrect` (`TypeOK`).
- `ControlFollowsLife` (`FollowsLife`): `BatchControl` implements `BatchLife`.
  The invariant `CallInv` says that each call in progress carries an operation
  and a reason that fit; then every `UPDATE` that matches is an edge of
  `BatchLife` and every other step stutters.
- `RowStaysConsistent` (`RowConsistent`): the stop reason and the
  timestamps belong to the status.
- `StopsAreExclusive` (`StopWins`), with `StopsHold`: after a stop that no
  resume has undone the batch is stopped, so a later conditional `UPDATE` of a
  pause or completion cannot match.
- `RuntimeNeverInflated` (`RuntimeIsLowerBound`). The bound alone is not
  inductive, for what a book or a call in progress will add is not on the row
  yet. `RuntimeInv` adds what they may add at most (`BookOwed`, `CallOwed`) and
  that reconcilers keep no book.
- `RuntimeIsKept` (`RuntimeAccounted`), the other bound, from `BookHas`: what ran
  and the row lacks is in the one living operator's book while the batch runs,
  and in its call while that is about to stop it.

and of `ResourceGuard`:

- `GuardTypeCorrect` (`GuardTypeOK`).
- `GuardStops` (`OllamaStopIsPersistent`), for any sequence of probes, disk checks
  and restarts: the count of the guard is the length of the longest tail of
  failed probes (`CountIsTail`).

`BatchOrchestratorProofs`

- `NoFileTwice` (`NoPathTwice`), `OrderKept` (`NothingPassedOver`), `BudgetsHold`
  (`WithinBudgets`), from `CreationInv`: the lock of a drive is held from the
  read of what is taken to the commit (`OneSelecting`), so what a call knows is
  still true when it writes (`SelectingKnows`), and what it wrote is the
  selection from it (`RowsSelected`), which is a prefix of what matches
  (`SelectionIsPrefix`) and fits its budgets (`SelectionFits`).
- `OnePassIsEnough` (`OnePassSuffices`), from `PassInv`: in a pass that met no
  obstacle and had the database to itself, each stage that is over has left
  nothing for itself among the rows of its batch (`SmoothPasses`), and nothing
  comes back to an earlier stage.

`ReviewProofs`, of `DedupApproval` from one invariant, `IInv`: what a request has hashed and
nobody has touched since is what is there (`ObservedHolds`, `CheckedHolds`), a plan
made and authorized in quiet still fits the files (`FreshHolds`) and is valid if its
documents have the suffixes of their types, and where
requests do not overlap, what a request read before it writes is still so
(`UndecidedHolds`, `InactiveHolds`).

- `TypeCorrect` (`TypeOK`), `FreshPlansUsable` (`FreshPlanUsable`),
  `DecisionsStand` (`DecisionStands`), `GrantsAreSound` (`GrantIsSound`).

and of `ChatTurn`, for any number of turns, calls, memories and reviews, beside a
deletion of the conversation:

- `ChatTypeCorrect` (`ChatTypeOK`): beside the types, that no turn makes more tool
  calls than its replies allow, from `ChatBounded`: the calls made and those to
  come are of the replies asked for (`Bounded`, `CallsHaveIds`).
- `AuditHolds` (`AuditLinked`), from `ChatInv`: what a turn keeps bears its number
  (`OwnIds`) and is not yet used by another row (`IdsUsed`), so a record that names
  an answer names that of its own turn (`RecordsTrue`), and a turn about to
  link still has its answer stored unless the conversation went (`AnswerThere`).
  What the deletion has taken does not come back (`NothingLeft`, `Detaching`).
- `ReviewsStand` (`ReviewStands`), an action property: every other step writes rows
  of its own, or other fields of a memory.
- `TitleKeepsUp` (`TitleCurrent`), for conversations of any length, from `CalmInv`:
  where nothing fails and nobody interferes the turns come one after the other
  (`InTurn`), the messages are whole exchanges but for the last one or two
  (`Behind`), and the title is that of the whole ones, as far as the cut of the
  history, until the turn makes its own.

`DedupExecutionProofs`, from the invariant `IInv`, of eleven parts:

- `TypeCorrect` (`TypeOK`), with what a call knows in each step (`JobsOK`,
  `ExecutorsOK`, `RecoverersOK`).
- `ExecutorsExclusive` (`OneExecutor`): who has an execution has claimed it, and
  a claim is never given back, not by a refusal and not by a death.
- `StopsInTime` (`StopsAtFirstFailure`) and `SuccessIsExact` (`SuccessExact`). The
  key is `InOrder`: an executor stands at the first action without a SUCCESS.
  A recovery may have recorded another result of that action, but never a
  SUCCESS (`SuccessSteps`), so neither a slot in quarantine nor an audit is
  written twice by executors. `SuccessVerified` says that a SUCCESS about to be
  recorded is true already; `Placed`, that a file is in one place, keeps other
  programs away from what is in quarantine.
- `FinalStatusStays` (`FinalStatusStable`): by the time a status is final every
  action has its audit (`FinalDerived`), audits are written once (`AuditOnce`),
  and so a late `complete_execution` writes the same status again.

and from `CaseInv`, which adds what holds in some scenarios only:

- `RevocationHolds` (`RevocationStops`): after a move that came too late the
  authorization is revoked and its executor at none of the steps that lead to
  another one (`LateOnce`).
- `AuditsTruthful` (`AuditTruthful`): where recovery waits for the executor to be
  dead and no file is replaced, the two take turns, and nothing lies in
  quarantine for an action whose audit denies a move, or is about to
  (`DenialInv`); where no other program was, what is gone from its path lies
  in quarantine (`QuietInv`), so reconciliations are true as well.
- `CopySurvives` (`LastCopySurvives`): a canonical file is there from its check to
  the move (`CanonicalThere`). It has the hypotheses `TrueCopies`, that the
  documents of a plan have equal content and files of their own, and
  `NoRivalPlans`, that plans which keep different documents are not executed at
  the same time; without either the code loses copies, see above.

`ArchiveRetirementProofs`

- `LooseFilesTrue` (`LooseIsTrue`): from `ManifestInv`. Time stamps are not in the
  future (`TimeOK`), a script writes nothing before its turn (`StagesInOrder`),
  and what was read of a file is its content as long as its modification time is
  not past that of the report, or of the scan, by more than the slack
  (`HashesTrue`): a write takes a later one.
- `RetiredContentKept` (`RetiredIsKept`): adds `RowsInv` and `RunInv`. Of an archive
  that was hashed to its end and not written since, the rows are those of what it
  holds (`RowsTrue`); if none of them is an error, every member has its row
  (`RowsComplete`, by the first member in order that would not). What is
  extracted, logged or found in the log lies at a place that belongs to a row with
  its hash (`CopiesVouched`), and so holds that content (`OnePlace`). What the last
  check found is so until the deletion (`UnlinkSafe`). The deletion then follows:
  the archive looks unchanged, so its rows are its members', each was found
  elsewhere, and what was found is really there. It has two hypotheses:
  `PlainNames`, that no file's key is taken for an opened archive's, and
  `PlacesDiffer`, that members with one place are equal; without either the
  scripts lose content, see [above](#seen-and-not-listed).

`SumTheorems` has what the ledgers need. The library's induction theorems take an
operator as a parameter, which the provers cannot instantiate. Its replacement is
stated over sets: a set of subsets of a finite set that has every part all of
whose smaller parts it has, has them all (`SubsetInduction`), for the library's least
cardinality is one number (`Least`). From it follow the recursion behind
`SumFunctionOnSet` and the laws of sums: what a change of one summand changes,
equal and smaller summands, and zero.

Some theorems say what no run states: type correctness, `RowStaysConsistent`,
`FinalStatusStays` and `BudgetsHold` are proved only. The others are checked by a
run as well.

Only model-checked: liveness, which is beyond the prover with `ENABLED`
(among it `ExecutionsEnd` and `RequestsEnd`, of imports and of chat), and the violated
properties. Outside of the listed runs and the proofs is the `TypeOK`
of `BatchOrchestrator` and of `ArchiveRetirement`: they speak of what `FoldLeft` and
`SelectSeq` return (the queue of groups; the first file of a duplicate group),
which are recursive definitions with an operator as a parameter, out of reach of an
induction. TLC finds both true of the instances of `orchestrator` and `retirement`;
the proofs carry the types they need (`CreationTypeOK`, `PassTypeOK`, `TimeOK`,
`RowsTyped`).

## Not modelled

`PROJECT.json` has every component and the reason. In short:

- Text extraction and chunking: parsers are input and output; `chunk_text` is a
  pure function of one text.
- Retrieval and the embedding cache: one read per search, on numbers that TLC
  cannot compute; the index is built at once from one read.
- Discovery and provenance analysis: one-shot, read-only reports, except for
  `duplicate_analysis`, on which the deletion of archives rests.
- Canonical decisions, run records and exports: single inserts, or files made
  from one read.
- The HTTP layer, clients of external programs, the user interface, migrations,
  experiments and one-off scripts. A handler calls one service in a session of
  its own, and that call is an action of the service's module.

Partly modelled are ingestion attempts (stage and outcome, not the failure
codes), the batch report (the counts and their assertions, not the
distributions), and executions (not the results that a person posts by hand).
`t7_chain2_cleanup_stray_batch.py`, which checks that a batch is `PLANNED` and then deletes it, is
left out of `BatchOrchestrator`.

## Plan

The modules are all written. What is left, in this order:

1. `chunk_text` and rank fusion as functions against reference definitions.
2. Results posted by hand in `DedupExecution`, and what the proofs then need of
   who posts them.
3. That `BatchOrchestrator`'s calls of a stage are what `SourceIngestion` and
   `ContentPipeline` do in the transactions of one worker: a refinement of one
   into the others, so far an argument in this file.
