# A TLA+ model of the Nuron ingest pipeline

This directory specifies `services/nuron-ai` (Python) and `schema/schema.sql`: the
service that lands documents, extracts and parses them, holds them for a human review,
compiles them to a knowledge graph and persists that graph. The modules are written
from the source, one operator or action per operation, model-checked with TLC and
proved with TLAPS.

## The system

| Part | State | Operations | Interacts with | Module |
|---|---|---|---|---|
| Watcher (`watcher.py`) | a walk under way | `iter_landable`, `scan` | files, object storage, inserts into `documents` | `Landing` |
| Object storage (`storage.py`) | objects `{hash[0:2]}/{hash}` | `put` (create, read back, overwrite once), `get` | watcher, extraction, review | `Landing` |
| Lease queue (`db.py`) | `claimed_by`, `lease_until`, `lease_token`, `attempt_count`, `next_attempt_at` of a row | `claim` (FOR UPDATE SKIP LOCKED), `release` (fenced) | every worker and reviewer | `Pipeline` |
| Extraction worker (`extraction.py`) | one claimed row in memory | `extract_pending`, `parse_pending` | queue, storage, LlamaParse | `Pipeline` |
| Review gate 1 (`review.py`) | `reviewed_sources`, one open transaction per `approve` | `fetch_one`, `save_edit`, `approve`, `promote_parsed`, `list_pending`, `reingest_diff` | queue, other sessions through row and advisory locks | `Pipeline` |
| Compiler worker (`compiler.py`) | one claimed row in memory | `compile_pending`, `enrich_and_serialize` | queue, `reviewed_sources`, the LLM | `Pipeline`, `Compiler` |
| Persist worker (`persist.py`) | one claimed row, a snapshot of nodes | `merge_gate_pending`, `persist_pending`, `persist_compiled_graph` | queue, `node_provenance`, Neo4j | `Pipeline`, `Persist`, `Compiler` |
| Core rules (`core.py`) | none | `parse_header`, `natural_key`, `resolve_key`, `plan_delta`, `release_ref`, ... | pure functions of the others | `Compiler`, `Persist` |

There is no broker and no call between the workers: they meet only in the rows of
`nuron_ai.documents`, whose `state` column is the queue. What is hard about it:

- **interleaving** of two workers of a stage, and of two review sessions, with claims
  that outlive their lease and processes that act after losing one; of a scan with the
  programs that write the files it reads;
- **several transactions per unit of work**: claim, look up the Reviewed Source, release;
  and the five statements of `approve()`, which read a number before they may use it;
- **crashes** anywhere, with the row as the only checkpoint;
- **retries** with a budget that some UPDATEs reset and others leave alone;
- **version numbers per filename** in a table keyed by content hash;
- **three identities of an entity** (name, extractor id, natural key) and a fourth after
  alias resolution, with relations that are translated from one to the next;
- two stores (object storage, Neo4j) that share no transaction with PostgreSQL.

What makes each part correct: only finished files land, whole, and a row implies its
object; a queue row has one effective holder and moves forward one state at a time; a
document never stays in an automated stage for ever; versions of a filename are 1, 2, 3,
...; what is frozen is what the reviewer saw; what is compiled is what was frozen; the
compiled graph is what was extracted; a graph node lives as long as it has a ref.

The modules meet at the states of a row. `Landing` ends where `Pipeline` begins (`Insert`
and `Land` are one statement), and `Ingest` joins them there; the graph that `Compiler` builds is the one that `Pipeline` reduces to what it
was compiled from and `Persist` takes as the content of a compiled row; `Compiler` goes on
through alias resolution and relations, which are the part of `persist_compiled_graph()`
that does not depend on what other documents do to the store.

## Modules

- **`Lifecycle`** — the abstract specification: what the pipeline promises about each
  document. Three functions of the document (`stage`, frozen `evidence`, compiled
  `knowledge`) and five actions. It knows no workers, leases, retries or crashes.
- **`Pipeline`** — the queue as the code implements it.
  `row` is the table `documents`, `reviewed` the table `reviewed_sources`, `job[p]` what
  a worker or a session keeps in memory of the row it claimed (with its token), `txn[r]`
  the open transaction of a session's `approve()`. Each action is one committed database
  step:

  | Action | Code |
  |---|---|
  | `Land` | the conflict-safe INSERT of `scan()` |
  | `Claim` | `db.claim()`: oldest claimable row no open `approve()` has locked |
  | `Extracted`, `Parsed`, `Compiled`, `Gated`, `Persisted`, `SoftFail`, `HardFail` | the stage's outcome, each through the fenced `db.release()` |
  | `Promoted` | `promote_parsed()`, with its own UPDATE |
  | `ReadSource` | the second transaction of `compile_pending()` and `persist_pending()` |
  | `LostLease`, `TurnedAway` | the fenced UPDATE matched no row |
  | `Refused` | the UPDATE of `release()` raised: PostgreSQL does not take the extracted body or the compiled graph |
  | `SaveEdit` | `save_edit()` |
  | `ApproveBegin`, `ApproveLock`, `ApproveNumber`, `ApproveCommit`, `ApproveRollback` | the statements of `approve()`: FOR UPDATE, advisory lock, MAX(version)+1 with INSERT, guarded UPDATE with COMMIT, ROLLBACK |
  | `Crash`, `Expire`, `BackoffElapses` | a process dies; `lease_until` or `next_attempt_at` passes |

  The clock is abstracted to three values of a lease (none, live, expired) and of
  `next_attempt_at` (null, future, past). A lease may expire at any moment, which covers
  every lease duration and every speed of a worker. A body is a value of `Texts`; `Blank`
  stands for every body without text, `Unstorable` holds bodies with a NUL character,
  which are valid UTF-8 and no `text` of PostgreSQL; where there are such bodies, the LLM
  may also put a NUL into a graph, which is no `jsonb`. Which of them a file can yield depends
  on its extension: a PDF none that is blank, a `.docx` none with a NUL, a text file
  any. A Content Header is complete or not. A compiled graph is what it was compiled from.
- **`PipelineProofs`** — the theorems about `Pipeline`.
- **`MCPipeline`** — model values, roles and symmetry for TLC.
- **`Landing`** — one scanner of the watched directory against the programs that use it.
  `at` is the directory (the inode of each path), `disk` the inodes (blocks, mtime, what
  their writer has still to write), `object` the object storage by content hash, `landed`
  the filename of each row, `scan` what the walk knows: the `now` it began with, the path,
  the inode of `lstat()`, size and mtime of the first `fstat()`, the bytes read. A block is
  named for the version it belongs to, so a content is torn when it mixes versions or stops
  short. `saved` is a history variable.

  | Action | Code |
  |---|---|
  | `StartScan`, `EndScan` | `scan()` begins, with one `time.time()`, and ends |
  | `Lstat`, `Open`, `Read`, `Close`, `Restat` | the system calls of `iter_landable()` for one file: `lstat`, `open` with `fstat`, every `read`, the second `fstat`, the last `lstat`, each with the `continue` its checks decide |
  | `Create`, `Ack`, `Overwrite` | `put()`: `pipe_file(mode="create")`, the read-back through `get()`, the one overwrite |
  | `Insert` | `INSERT ... ON CONFLICT DO NOTHING` with its commit; a name PostgreSQL refuses raises |
  | `CallFails`, `Crash` | one call raises and the walk goes on; the watcher dies |
  | `WriteFirst`, `WriteNext`, `Replace`, `Unlink`, `Tick` | external: writes block by block over the old bytes or truncated, renames that bring their mtime along, removals, the clock |

- **`Archive`** — the abstract specification of the watcher: a scan takes a file in one
  instant, in which no program was in the middle of writing it; what it takes is dropped or
  kept whole before its row is inserted; a row never changes its filename and keeps its
  object. It knows no system calls, mtimes or failing stores. `Landing` implements it
  (`ImplementsArchive`): the instant is that of `Open`; from then until `Close` the file taken is
  the one that is open, as long as its mtime is the one of the first `fstat()`, and afterwards
  the bytes read; `kept` are the contents whose object hashes to its key.
- **`LandingProofs`**, **`MCLanding`** — its theorems; model values for TLC.
- **`Ingest`** — `Landing` and `Pipeline` as `INSTANCE`s over one table. The content hashes of
  the one are the documents of the other, the watcher's view of the table (`landed`) is
  the column `original_filename` of `row`, and a path has one extension for both.
  Three actions. `InsertRow` is the INSERT, written out from the SQL: it looks for the primary
  key and inserts a row or does nothing, whatever the scan holds and whatever the state of
  the row it meets; that this is the `Insert` of the one module, and an arrival (`Land`) or
  nothing in the other, is what `ImplementsLanding` and `ImplementsPipeline` say. `Watch` is any
  step of the watcher and of the programs around it but `Insert`; `Process`, any step of the
  queue but `Land` (`Internal`).
- **`IngestProofs`**, **`MCIngest`** — its theorems; a `.txt` and a `.docx` for TLC.
- **`Compiler`** — `enrich_and_serialize()` and the two ends of its output, the triplets of
  the extractor and the relations in Neo4j. `idToKey`, `nodes`, `decisions` and `relations`
  are the local variables of that name; a node is what named it first. One action is one
  round of a loop:

  | Action | Code |
  |---|---|
  | `TakeSubject`, `TakeObject` | the loop over `entity_nodes`, of which the extractor returns two for each triplet |
  | `Refuse` | its `ValueError` |
  | `NodesTaken`, `Relate` | the loop over `relations` |
  | `Resolve` | `resolve_key()` for each compiled node in `persist_compiled_graph()` |
  | `ApplyRelations` | `_apply_relations()` |

  `IdOf` and `NormOf` say which names share an `EntityNode.id` (quotes flattened) and which
  a normalised name (case and blanks folded). They are any two functions, since neither
  identity refines the other.
- **`CompilerProofs`**, **`MCCompiler`** — its theorems; four names that meet every case.
- **`Persist`** — the persist worker between the queue and Neo4j. `row` keeps what it needs
  of `documents` and `reviewed_sources` (version, graph, lease, budget), `provenance` is
  `node_provenance`, `nodes` the Neo4j store (content, `refs`, embedding model of each
  node), `job[w]` the claimed row with the predecessor, the predecessor's keys, the
  snapshot and the keys still to do, `model[w]` the configured embedding model. Each action
  is one query or transaction, because nothing holds two of them together:

  | Action | Code |
  |---|---|
  | `Approve`, `Compile`, `CompileFails` | what happens to a document before `persist_pending()`, reduced to its version and its graph, one of `GraphsOf` |
  | `Claim` | `db.claim()`, oldest first |
  | `ReadLineage` | the transaction that finds the predecessor (`_PREVIOUS_CONTENT_HASH_QUERY`) |
  | `ReadProvenance` | the transaction that reads the predecessor's keys |
  | `Snapshot` | `store.get()` of every node concerned, the check of the embedding model, and `plan_delta()` |
  | `Upsert`, `RemoveStale`, `AddRef`, `DropRef`, `SkipNode` | the queries of `_apply_node_delta()` for the next node of the plan |
  | `Book` | the transaction that deletes the predecessor's rows of `node_provenance` and inserts the document's |
  | `Persisted`, `SoftFail`, `HardFail`, `LostLease` | the fenced `db.release()` |
  | `Crash`, `Expire`, `BackoffElapses` | a process dies and returns, perhaps configured anew; a lease or a backoff ends |

  `early` is a history variable: the documents whose worker found a predecessor that was
  not persisted yet. It only serves to say in which histories `SliceExact` is promised.
- **`PersistProofs`**, **`SoleProofs`**, **`MCPersist`** — the theorems for any number of workers
  and those for one worker; filenames, graphs and symmetry for
  TLC: documents 1 and 2 are versions of one file, document 3 is another file whose graph
  may share their nodes.

## Runs

| Run | Instance | States | Question |
|---|---|---|---|
| `queue` | 1 document, two processes for each loop but promotion, 2 attempts, 2 faults, a `.docx` or a `.pdf` name, fair | 180k | Does a document keep its lifecycle and its retry budget, is each try charged, and does it leave the automated stages, under zombies, crashes and soft failures? |
| `gate` | 2 documents, 2 filenames, two sessions of one person (one `worker_id`), a body that cannot be stored, 1 fault, no persist worker, fair | 278k | Do concurrent edits and approvals number and freeze correctly? Does `approve()` always return? Is `IInv` an invariant? |
| `content` (violation) | 1 document | | Are header and body present before compilation? They need not be. |
| `poison` (violation) | 1 document, a body that cannot be stored | | Is every failed attempt charged? Not this one. |
| `landing` | 2 files of 2 blocks, 2 versions, 2 inodes, 2 changes, 2 faults, clock up to 5, fair | 476k | Does only what a program finished land, with its object, and does it land? Does it implement `Archive`? Is `IInv` an invariant? |
| `compile` | 4 names, 3 ids, 3 normalised names, up to 2 triplets of any rules, with and without a merge | 255k | Is the graph the extracted one, whichever spelling comes first, and does every relation keep the schema up to Neo4j? Is `IInv` an invariant? |
| `ingest` | 2 files, 2 contents of which one is not text, 2 extracted bodies, 2 changes, clock up to 1, 1 fault of the scan; an extraction, a promotion and a compiler worker, 1 reviewer | 184k | Do watcher and queue each behave next to the other as their modules say? Does a compiled graph go back to finished bytes of its file? Do version numbers outrun the file? Can a worker read what it claims? Is `IInv` an invariant? |
| `slices` | 2 versions of a file and another file, 2 node keys, 1 worker, 2 models, 2 attempts, 1 fault | 2.5M | Does a retry repair what a crash, an exception or a restart left half-done? Does a shared node keep every contributor's ref, its content and its vector? Is `SoleIInv` an invariant? |
| `race` | 3 documents, 1 node key, 2 workers, 1 fault | 660k | Whose refs and rows of `node_provenance` can a zombie or a second worker not take away? Is `IInv` an invariant? |
| `failed` (violation) | 1 document, 1 node key | | Do Neo4j and `node_provenance` agree once all is quiet? They do not. |
| `overtaken` (violation) | 2 versions of a file, 1 node key, 1 worker | | Does a later version replace the earlier one? Not out of order. |
| `lost_ref` (violation) | 3 documents, 1 node key, 2 workers, no fault | | Does a document keep its ref on a node while another lets go of it? Not always. |

Bounds of `Pipeline`. `MaxFaults` counts crashes and the leases that expire under a process
still at work; an orphaned lease expires for free, and idle workers cost nothing, so the
interesting histories (a zombie overtaken, a crash between the two transactions of a
stage) need at most two. It also bounds `Refused` (by the token of the row, `MaxFaults` claims more than the stage
takes), which the code would repeat for ever. Two processes per loop are enough for every race on one
row: a third would be a second zombie, and `FenceUnique` is proved for any number. Two
documents and two filenames give every pairing of a lineage. The sessions of `gate` are
one person's, the pair that `claimed_by` cannot tell apart; their edits differ in the header,
since the one other body is the one that cannot be stored. `MaxAttempts` is 2 instead of
5; the budget is exhausted in the run. Deadlock checking is off because the system really
stops when every document is persisted, failed or waiting for a person, and no file lands.

Bounds of `Landing`. `MaxChanges` bounds how often programs write, replace or remove a
file, `MaxTime` the clock, `MaxFaults` failing calls, damaged writes and crashes. Two
changes are one to make a file and one to touch it while it is read; two blocks are the
least that can be torn, and the two versions have one length, so that the size tells
nothing. The first path has a name that raises at every insert and must not block the
second. The window is two ticks and a writer's pause one. The guards for oversized and
empty files are modelled; the instance meets the empty file only through truncation and
no oversized one. A writer starts only while enough clock is left to finish and grow
stable, so that the bound on time does not decide what lands. Deadlock is checked.

Assumptions of `Landing`, about everything outside the repository: a program that writes a
file in place pauses for at most `Pause < Window` between two writes, does not set the
mtime back and does not die half-way (a file left torn for longer than
the window is, to a reader, a finished file); a rename may bring any mtime of `Mtimes` (an old
one and a young one in the run); mtimes and `time.time()` are one clock, of which a tick is the resolution; one scanner runs. An
object is damaged only by a write. A window of 0, which `main()` accepts, is outside these assumptions, and
torn files are then to be expected. That what should be text is text (`Landable`) is idle in
`landing`, where the only such path has the name that raises; `ingest` exercises it, through
`Extractable`.

Bounds of `Ingest`. The two changes give one file two contents, two files one content, or a
content that a write tears; the fault is a failing call, a damaged object or a crash of the
scan. Several documents are then in the queue at once, next to a scan that finds their
files again. The clock has the two values the window needs: what was written at 0 is
stable at 1. The bodies are a blank one and another, which only a PDF would tell apart
and the run has none, so they are interchangeable. One process for each stage and no crash of a worker
leave the races inside a part to the runs of that part, whose results
`ImplementsLanding` and `ImplementsPipeline` carry over. Deadlock checking is off as in `Pipeline`.

Bounds of `Persist`. In `race`, `failed`, `overtaken` and `lost_ref` a graph is any function
from the node keys to a content or to nothing, so that two versions cover every pair of an
added, changed, unchanged and dropped node; a content is one property that is absent or
has one value, which is what `_remove_stale_properties()` needs to tell. `slices`, with two
keys and so a crash between two nodes, takes the graphs of `MCFewGraphs`: the second
version adds a node and drops the first or strips its property, and the other file shares
both. `race` and `lost_ref` leave the property out, since refs do not depend on contents. `slices` has
one worker, the regime `docs/tracer-bullet-01.md` (lines 171-176) states for the unfenced
writes; `race` and `lost_ref` leave it. In `slices` and `race` a worker may outlive its lease.

Bounds of `Compiler`. `MaxTriplets` bounds the extraction: two triplets are four entities,
enough for a conflict or a repeat on either side. The names are two
spellings of one normalised name, one that shares only its id with the first, and one into
which the first may have been merged.

Symmetry is used in `ingest` (inodes, bodies) and the runs of `Persist` (workers, models), which check
safety only; the runs with liveness use none.

Fairness (`Fairness` of `Pipeline`). Each worker's `main()` is an endless loop that polls every
stage it serves, so its claims and its work are weakly fair; a process that dies is
restarted by its container, which is the same process polling again. A call of `approve()`,
once begun, runs on by itself, so its later statements are fair. PostgreSQL's clock moves,
so leases expire and backoffs end. Nothing is assumed of people (no fairness for
`SaveEdit`, `ApproveBegin`, review claims) nor of arrivals (`Land`), and crashes are
bounded by `MaxFaults`: with crashes without end nothing would get done. In `Landing` the
scanner is fair for the same reason (`main()` scans again after an error and after the
interval), the clock moves, and a program that began a file writes on.

### What the violations show

- `content`: `approve()` freezes whatever is in the row. A document whose title and author
  nobody filled in, or whose body is blank, reaches the Compiler, although
  `docs/tracer-bullet-01.md` says that compilation must not start before header and body
  are present. Blank bodies come from the extraction, which refuses them only for `.pdf`,
  against decision 20 of the same document.
- `poison`: a `.txt` with a NUL character lands and is extracted, but the UPDATE that
  stores its body raises in `release()`, outside the `try` that charges an attempt. The row
  waits for its lease to run out and is claimed again, before every younger one,
  although the documents say that enough failed attempts move a row to `failed`.
- `failed`: refs are written before their rows in `node_provenance`. An exception on the
  last attempt leaves refs that no row records and no later version will look for, while
  the schema says that the rows are the refcount.
- `overtaken`: versions are numbered in the order of approval, but claimed in the order of
  `created_at`, and a row in backoff is passed over. A version persisted before its
  predecessor finds no keys to replace; the predecessor then adds its refs beside it, and
  its contents over it. Decision 14 says that a re-approval replaces the slice.
- `lost_ref`: which queries a node gets is decided on the snapshot. A document that finds its
  node there, with its content, only adds its ref; if another worker has released the last
  ref since, the node is gone, and the query that adds the ref matches nothing. The
  document is then persisted, with its row in `node_provenance`, and neither node nor ref.
  Both workers hold live leases and nothing fails. A comment in `persist.py` (lines
  155-161) says of two documents that race for a node that nothing is lost, since each
  query is evaluated against the graph's current state, and `docs/tracer-bullet-01.md`
  that the plan is. (The document accepts zombies in Neo4j as a gap, with one worker in
  practice; with one worker, `PersistedAsCompiled` is proved.)

## Proofs

The theorems hold for every value of the constants under the named assumptions of the
modules. Their statements are safety properties of `Spec`; each module has an inductive
invariant `IInv`, which TLC also checks, and a theorem `Invariant == Spec => []IInv` from
which the others follow.

`PipelineProofs`, for any documents, workers, sessions, persons, bodies and bounds (worker ids
differ from each other and from reviewers' names, `Blank` is a body that can be stored,
`MaxAttempts` is positive, `None` is no value):

- `Invariant`. The checked invariants alone are not inductive; `IInv` adds
  - `Fenced`: every process works with a token no newer than its row's, and no two
    processes on one row have the same token. A claim increments the token, so its token
    is new. This gives `FenceUnique`.
  - `Viewed`: while the fence of a process would let it write, the state, body and header
    it was shown at its claim are still in the row. This is where the fence earns its
    keep: the write of another process needs the fence too, which is exclusive.
  - `Bodied`: rows past extraction have a body.
  - `Transacted`: an open `approve()` still holds its row, because claims skip locked rows.
  - `Numbered`: the versions of a filename are exactly `1..LatestVersion`, at most one
    transaction per filename is past the advisory lock, and the number it read is still
    the next one. This gives `LineageVersions`.
  - `Sourced`: no Reviewed Source before the gate, exactly one after it, equal to the
    row; graphs and workers that cite a version cite that one. This gives `EvidenceRoot`.
  - `RetryBudget` completes it.
- `Fresh` and `AsSeen`: the action properties, from `IInv` and the effect of each action.
- `Charged`: `AttemptsCharged`, if `Unstorable` is empty: the body that cannot be stored is
  the only way out of the budget. The account `Charge` allows one uncharged claim, that of
  a process that works under a live lease; a crash or an expiry turns it into a fault, a
  release into an attempt, and nobody may claim before.
- `Refinement`: `Pipeline` implements `Lifecycle` under the mapping of the `INSTANCE`
  statement: a landing maps to `Land`, a release to `Advance`, `Compile` or `Fail`, the
  commit of `approve()` to `Approve`, everything else to a stutter.

The layout of the proof: lemmas on what each helper does to a row; `WorkCases`, which
reduces the actions of a worker to a source lookup, a row given up and one kind of
release; one effect lemma per remaining action; then for each part of `IInv` a lemma that
says which writes disturb it, and a step lemma with one case per action.

`LandingProofs`, for any number of paths, inodes, versions, blocks, changes and faults, and any
window longer than a writer's pauses:

- `Invariant`. `Written` says that a file without a writer is whole and saved under each of its
  names, and that the last write of an unfinished one is no older than `Pause`; hence a
  file whose mtime is older than the window is finished (`Open`). `ReadSoFar` carries
  this through the reads: as long as the mtime is the one of `fstat()`, the file is
  finished and what was read is a prefix of it, since any write would set the mtime to a
  later clock. `ReadWhole` is what `Close` makes of it. `Acknowledged` relates scan, object
  and row.
- `Untorn` (`WholeVersions`: a row stands for a finished version of its file that was readable
  and not too large) and `Backed` (`RowHasObject`).
- `Refinement`: `ImplementsArchive`. `Open` is the step that takes the file, and `IInv` shows it
  finished there: its mtime is older than the window. That the scan later lands the file it
  took, and not another, rests on two checks of the code: a write to the open inode sets a
  younger mtime, which `Close` sees, and an inode that is open is not given to another file.
  `Create`, `Ack` and `Overwrite` keep an object or leave all as it is; a good object
  is never written again, so `Insert` finds what was kept.

`IngestProofs`, for any files, versions, workers, sessions and bounds that meet the assumptions of
both parts:

- `Invariant`. The invariants of `Landing` and `Pipeline` are inductive together, with
  `Named`: a hash has a filename exactly when it has a row. Each side needs the other's:
  the hash and the name that `InsertRow` inserts are of the right sets by the
  watcher's invariant, and the watcher's view of the table survives the steps of the queue
  because none of them, claims and releases of zombies included, touches a filename or
  removes a row (`NamesKept` of `PipelineProofs`).
- `Watched` and `Queued`: every step is one of each part or a stutter of it, so
  `Ingest` implements both specifications, and every safety theorem about either
  holds of the two together. The step to prove is the INSERT: the primary key it
  conflicts with is taken exactly when the watcher has landed the hash (`Named`), so to
  the watcher it is `Insert`, and to the queue an arrival of a hash without a row, or
  nothing, whoever holds the row it met (`InsertIsInsert`, `InsertIsLand`). The lemmas of the parts are used through their `INSTANCE`s.
- `EvidenceRooted`: `Rooted`, the chain from a compiled graph to a Reviewed Source (`Sourced`),
  its row, its object (`Acknowledged`) and the file (`WholeVersions`).
- `ExtractableRows`: `Extractable`, by the same lemma about a row.
- `VersionsRooted`: `VersionsSaved`. The numbers of a filename are `1..LatestVersion`
  (`Numbered`), each is of a document of its own (`Sourced`), and each document's bytes are
  a finished version under that filename: an injection from the numbers below
  `n` to the contents the file has had.

`CompilerProofs`, for any names, ids, normalisation, alias tables that keep labels, and any number
of triplets:

- `Invariant`. `Mapped` says that the two tables hold the entities taken so far, each under its
  own id and key, and nothing else; `Related` that the relations are those of the
  triplets done, `Resolved` that a node resolves to the survivor of its own key, whichever
  spelling named it first; `Listed` and `Applied` are about decisions and edges.
- `Refusals`, `Faithful`, `Schematic`, `Contributes`: the four properties of the run.

`PersistProofs`, for any number of documents, filenames, graphs, node keys, models and attempts:

- `Invariant`, for any number of workers, with `IInv` the types and `Lineage`: the versions of a
  filename are `1..LatestVersion`, a job's predecessor is the document of the same filename
  one version below, for as long as the job lasts, and a node that is gone has no refs.
  The numbering is needed because a new version must not become a second predecessor of
  a document a job already works on.
- `Superseded`: `OnlySuperseded`. A ref is removed by `AddRef` and `DropRef` only, a row of
  `node_provenance` by `Book` only, and what they remove is the predecessor of their job,
  which `Lineage` ties to the document it replaces. It needs no lease, which is why it
  holds for zombies too.
- `Pinned`: `EmbeddingPinned` for one worker. The snapshot compares the model of every node
  with the configured one; `TodoMatches` says that the nodes a worker has yet to do still
  have the model it was started with, and it writes no other.

`SoleProofs`, for one worker (`Sole`, the hypothesis of its theorems) and otherwise as general.
One worker is what `docs/tracer-bullet-01.md` (lines 171-176) accepts the unfenced writes
for; it may still die, outlive its lease, fail, back off and be configured anew between any
two queries. The runs `failed` and `overtaken` show that neither a failed document nor one
persisted out of order leaves an exact slice, so the properties are about the others.

- `SoleInvariant`: `SoleIInv`, inductive together with `IInv`. It says how far a persist has
  come and what an interrupted one may have left:
  - `Distinct`: versions of a filename differ, so there is one predecessor at most.
  - `Contributed`: a document nobody claimed left no trace; refs and rows are on nodes of the
    document's graph; a node that is gone has neither content nor refs.
  - `HandedOver`: what a persisted document has left of refs, its rows mention, so that its
    successor finds them; until the successor is first claimed they are all there. This
    is the part a retry depends on: an attempt that dies half-way has removed refs of the
    predecessor but no rows, and rows go in the transaction that adds the new ones.
  - `Informed`: the predecessor, its keys and its state are still what the worker read. With
    two workers this is what fails first.
  - `Progressed`: the nodes the worker is through with are as its document wants them
    (`Applied`), those ahead are as in the snapshot, and the one it is at is between
    two queries (`Halfway`). An attempt that begins again after a crash reads whatever is
    there, half-done or not, and `Applied` follows from the plan it makes of that.
- `Exact`: `SliceExact`, refs and rows of a version persisted in its turn are on exactly the
  nodes of its graph, and no earlier version has any.
- `AsCompiled`: `PersistedAsCompiled`, at the moment a document becomes `persisted` its nodes
  live, with its content and its ref.

Only model-checked: liveness (`Progress`, `ApproveReturns`, `EventuallyLanded`), which is
out of the prover's reach. Every safety property of a passing run is the statement of a
theorem.

## Not modelled

- The contents of bodies, headers and graphs beyond what the properties tell apart: the
  regular expressions and the frontmatter of `parse_header()` (only whether it leaves a
  complete header), the XML of a `.docx`, and the author, timestamp and evidence span
  stamped on a node.
- The LlamaParse, LLM and embedding calls (a stage's outcome is a free choice) and the check
  of the LLM endpoint at boot.
- Database connection errors other than as a crash of the process that meets one, or as
  `CallFails` of the scan; the configuration read from the environment.
- Directories that are added or removed under the walk: the paths are fixed, and a file
  that is not there yet, or is no regular file, is passed over like one that is gone.
- Relations removed from a document: the code merges relations and never diffs or deletes
  them. `entity_aliases` is read by the code and written by none; `Compiler` takes any table
  of label-keeping aliases, `Persist` an empty one.
- The early return of `persist_pending()` for a row without a Reviewed Source, which
  `EvidenceRoot` shows unreachable; `list_pending()` and `reingest_diff()`, which only read.
- An operator who resets a failed row by hand, which the documents describe and no code
  does; merge gate 2, which `merge_gate_pending()` passes through; the upload API, of which
  only an enum value exists; containers, roles and health checks.

That a compiled document is eventually persisted or failed is `Progress` of `Pipeline`;
`Persist` states safety only. `Ingest` does as well: that a file left alone comes before a person or
fails is `EventuallyLanded`, then `Progress`, each checked in its part.

## What is left

1. `parse_header()` against a reference definition of where each field comes from.
2. `Persist` behind `Pipeline` as `Pipeline` is behind `Landing`: `Persist` still has a row and an
   approval of its own, reduced to what its worker reads of them.
