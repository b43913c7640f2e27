# A verification development of k7e

k7e compiles documents into a wiki: an ingest turns one document into typed,
cross-linked Markdown pages in a git repository (an *OKF bundle*), and a mirror
derives a Postgres index from the bundle for search and for the graph. This
directory models that pipeline from the request that brings a document in to
the request that reads the page made of it, with the processes, retries and
crashes that meet shared state on the way, checks the models with TLC on small
instances, and proves every invariant the runs check with TLAPS, for every value
of the constants (section 5 says under which assumptions).

All paths below are relative to the repository; `api/` stands for
`apps/api/src/k7e_api/` and `worker/` for `apps/worker/src/k7e_worker/`.

## 1. Inventory

| Component | State it keeps | Operations | Talks to |
|---|---|---|---|
| OKF bundle (`api/okf_bundle.py`, `okf.py`) | page files, `index.md`, `log.md`, `.okf.lock`, git history | read, write, list, update_index, append_log_entry, commit, lock | file system, git |
| OKF ingest (`api/okf_ingest.py`, `okf_resolve.py`, `okf_relate.py`, `okf_extract.py`, `okf_compose.py`) | none of its own; prepared pages while it runs | extract, relate, resolve, compose (phase A), merge and write (phase B) | model, bundle |
| okf_ingest / okf_mirror activities (`worker/okf_activities.py`, `retry.py`) | attempts, timeouts (on the Temporal server) | run, retry, time out, record usage | Temporal, Postgres |
| OKF mirror (`api/okf_mirror.py`) | items, versions, tags, chunks, links (Postgres) | mirror_bundle | bundle, Postgres |
| Item lifecycle (`api/lifecycle.py`, `routers/items.py`) | item status | archive | Postgres |
| Embedding backfill (`worker/embed_backfill.py`) | chunk embeddings | one bounded batch | embedding gateway, Postgres |
| Ingest workflow (`worker/workflows.py`, `activities.py`, `extract_activities.py`) | the workflow's position | load, extract text, redact, ingest, mirror, embed | all activities |
| Ingest endpoints and service (`api/routers/ingest.py`, `ingest_service.py`, `connectors/`) | raw documents, workflow ids | upload, push, conversation, status, connector runs | object store, Postgres, Temporal |
| Personal spaces (`api/personal_spaces.py`, `spaces.py`) | spaces, their owner's grants | provision on first use, list | Postgres |
| Teams (`api/teams.py`, `routers/teams.py`) | teams, memberships, admin grants | create, add, remove | Postgres |
| Access control (`api/rbac.py`, `auth.py`, `tenancy.py`) | role grants | may read, write, administer | Postgres |
| Authentication (`api/app_auth.py`, `jwt_auth.py`, `session_auth.py`, `pat_auth.py`) | tokens, users, cached keys | whom a request comes from; issue, revoke | Postgres, identity provider |
| Search, graph, facets (`api/search.py`, `graph.py`, `routers/`) | none | queries | Postgres, embedding gateway |
| Web application (`apps/web`), MCP server | upload queue in the browser | send one by one, poll; proxying | HTTP API |

How they interact: an endpoint commits a raw document and starts a workflow on
the Temporal server; a worker process runs its activities, several at a time, as
coroutines of one asyncio event loop; the ingest activity writes the bundle, and
the mirror activity reads the whole bundle and writes Postgres; the backfill
fills the embeddings the mirror left empty. Nothing but the bundle's file lock
and Postgres constraints orders two workflows.

What is hard here, and what must hold:

* **Bundle.** Two processes, or two attempts of one activity, write one working
  tree; a crash or a full disk leaves half of a page, which may still parse, or half
  of a plan, or the lock file of git. A commit must always be
  a whole, indexed wiki, pages must keep their history, facts must not vanish,
  links must resolve, and a commit must hold what is reported compiled.
* **Activities.** The server retries, gives up on attempts that go on running and
  may write after their job is over, and loses attempts with their process. Every
  job must come to an end, and one transient failure must not fail it.
* **Mirror.** It reads pages while an ingest writes them, runs concurrently with
  itself, and writes a table keyed by slug alone. The index must converge to the
  bundle, an archived page must stay out, a space's pages must stay in it.
* **Endpoints.** Check-then-act on rows (caps, dedup, source names), a commit
  followed by a remote call that may fail, a status derived from rows other steps
  write. An answer must tell the truth, a queue must go on.
* **Workflow.** Any attempt may be lost after its effect. A workflow that
  completes must have published its document.
* **Backfill.** Rows are read, a remote call is awaited, rows are written: the rows
  may be gone; a mirror may chunk a page again without a lock on its item; a batch
  that always fails must not starve the others.
* **Spaces and teams.** Concurrent first requests must leave one space; adding and
  removing a member at a time must leave no right behind.
* **Reading.** A search reads teams, grants, rows and links in statements of their
  own while all of them change; its answer must keep to what the caller may see.

`PROJECT.json` lists every hazard with its line and the properties that cover it.

## 2. Plan

| Step | Modules | State |
|---|---|---|
| 1 | `OkfPages`, `OkfIngest`, abstract `WikiHistory`, proofs | done |
| 2 | `OkfMirror`: bundles to items, versions and links; archiving | done, proved |
| 3 | `IngestRequests`: uploads, conversations, pushes, connector runs, personal spaces | done, proved |
| 4 | `IngestPipeline`: requests, workflows and polling composed; abstract `DocumentLifecycle` and the refinement | done, proved |
| 5 | `EmbedBackfill`: chunks and vectors, mirrors against backfills | done, proved |
| 6 | `AccessRules`, `Callers`, `TeamSpaces`: who a caller is, what it may do, teams | done, `TeamSpaces` proved |
| 7 | `Retrieval`: list, item, search, graph, facets, archiving over 6 | done, proved |

Left: an abstract index that one mirroring process implements, stated and proved
as a refinement; version numbers and provenance in `OkfMirror`; the cache of
signing keys.

How the modules compose:

```
OkfPages <- OkfIngest  -> WikiHistory              (implements)
OkfPages <- OkfMirror
IngestRequests <- IngestPipeline -> DocumentLifecycle   (implements)
EmbedBackfill
AccessRules <- TeamSpaces <- Retrieval;  AccessRules <- Callers <- Retrieval
```

The proof modules extend them:

```
OkfIngest      <- OkfIngestProofs      <- OkfIngestReportsProofs
OkfMirror      <- OkfMirrorProofs
IngestRequests <- IngestRequestsProofs <- IngestPipelineProofs  -> IngestPipeline
EmbedBackfill  <- EmbedBackfillProofs
TeamSpaces     <- TeamSpacesProofs     <- RetrievalProofs       -> Retrieval
```

`IngestPipeline` takes from `OkfIngest` and `OkfMirror` what their runs show: an
attempt commits the pages of its document or nothing a later one cannot repeat,
and a mirror publishes what is in the bundle.

## 3. Modules

### `OkfPages` (pure)

A page is identified by type and slug (`okf.page_path`). Its content is
abstracted to what the properties distinguish: whose *facts* its body holds,
which job *created* it and last *described* it, the jobs that gave it an alias,
its `sources` list, and the links guaranteed by the `## Related` section. A file
is content, `Absent`, or `Torn` (it exists and `okf.parse` raises); `CutShort` is
what may parse of a text that is written in part: `okf.serialize` puts the
frontmatter first, so that the body, with its facts and links, is what is short.
`Plan`, `Effective` and `PlanLinks` are `okf_resolve.resolve`; `Related` is what
`relate_existing` can return; `Catalog` is what
`update_index` writes; `Prepared` and `MergeExisting` are the page that phase A
builds and `_merge_existing`.

### `OkfIngest` (state machine)

The bundle (`files`, `index`, `log`, `head`, `lock`, and `gitLock`, the index.lock of
git), the worker slots (`pc`,
`run`, `todo`, `cur`) and the Temporal server's view (`status`, `attempts`,
`owner`), plus `recorded`, the `ingest_runs` rows. `damaged` is a history value: the
pages whose write was once cut short with a text left that parses.

| Action | Code |
|---|---|
| `StartAttempt` | dispatch; `extract_okf`, `relate_existing`, `resolve` |
| `Compose`, `ComposeTorn`, `LlmFails` | one turn of the phase A loop and its failures |
| `ReachLock`, `Acquire`, `LockTimesOut` | `with bundle.lock()` |
| `BeginWrite`, `FlushPart`, `EndWrite`, `WriteTorn` | re-read, merge, `write_text` (truncate, then write, maybe in parts) |
| `DiskFails` (`PageCut`, `IndexCut`, `LogCut`) | a write of a page, of `index.md` or of `log.md` that stops half way |
| `UpdateIndex`, `IndexTorn` | `update_index`, which reads every page |
| `AppendLog`, `Commit`, `GitFails`, `GitLockedOut` | `append_log_entry`, `commit`, `_git`, whose failure is swallowed: once, or for as long as `index.lock` is there |
| `RecordRun`, `Reply` | accounting and return of the activity |
| `Crash` | process death: between two steps, in the middle of a write (`WriteCut`), or in a git command, before or after the commit (`GitKilled`) |
| `DeadAttemptTimesOut`, `SlowAttemptTimesOut`, `CancelStale` | `start_to_close_timeout`, cancellation by the SDK |

Two granularities matter. Slots of one process share an event loop and phase B
has no `await`, so inside one process it is atomic (`HasLoop`); slots of
different processes interleave at every file operation and only the file lock
separates them. `StartAttempt` merges extract, relate and resolve: the only
shared state they read is the set of file names, and pages are never deleted.

The model's answers are inputs: `Extractions` gives, for each job, the
extractions the model may return, and a different one may be returned on a
retry. `Compose` assumes a faithful model that keeps the facts of the body it is
shown, so a lost fact is the program's doing.

### `WikiHistory` (abstract specification)

What a reader of the git history relies on: each commit parses and is indexed
exactly, pages are never removed, and revisions keep the creation stamp and the
aliases. `OkfIngest` implements it (`HistoryOnlyGrows`), checked by TLC and
proved.

### `OkfMirror` (state machine)

The bundles (`tree`, `holder` of the lock), the database (`items`, `links`), the
workflows (`stage`, `tries`), the worker processes (`pc`, `job`, `todo`, `tx`,
`stale`), the ingest attempts that were given up on and have yet to write (`strays`)
and the archive request being served (`request`). It uses the pages of
`OkfPages`, and abstracts the ingest to what a mirror can see of it: pages
written one after the other under the lock, each torn, or flushed in part, while it
is written. A page's text is who wrote it last, its revision, its links, and the
history value `late`: whether the attempt had been given up on by then.

| Action | Code |
|---|---|
| `StartIngest`, `BeginWrite`, `FlushPart`, `EndWrite`, `EndIngest`, `IngestTorn`, `IngestFails` | `ingest_source`, phase B |
| `IngestTimesOut`, `StartStray` | an attempt that is given up on in phase A or at the lock, is not told (no heartbeat), and goes on whatever its job has become |
| `StartMirror`, `ListPages`, `ReadPage`, `ReadTorn`, `EndCollect` | the collection of the pages, first seen wins |
| `SkipRow`, `ReadRow`, `WriteRow`, `InsertFails` | pass 1: look up, skip, insert or update, new version |
| `BuildLinks`, `Commit`, `CommitFails` | pass 2 and the commit |
| `BeginArchive`, `EndArchive` | `archive_item_endpoint`, `archive_item` |
| `Crash`, `TimesOut`, `DbFails` | process death, timeout of an attempt that goes on, ingest or mirror, database errors |

`mirror_bundle` has no `await`, so a worker process runs one ingest phase B or
one mirror at a time, and a slot is a whole process here. Other processes and
the API interleave at every file and every statement. A mirror is one READ
COMMITTED transaction: reads see what is committed, `tx[w].rows` are the rows it
has written and locked, `del` the edges its `DELETE` took. A statement that
began before another transaction's commit does not see what that one inserted
(`Release`), so the later of two mirrors may meet `uq_wiki_link` (`CommitFails`).
SQLAlchemy writes only the columns that differ from the row it loaded, which is
why `Updated` compares with the row that was read and changes the row there is
when the lock is granted.

### `IngestRequests` (state machine)

The tables (`raw`, the `raw_documents` in the order of their commits; `spaces`;
`sources`), each request's place and what it has read and not committed (`pc`,
`mine`), the workflows it has started (`flow`), the days (`aged`, `days`).

| Action | Code |
|---|---|
| `Begin` | dependencies of the endpoints, up to the first statement |
| `Lookup`, `ChooseSlug`, `InsertSpace`, `Reread` | `provision_personal_space`, with the wait for another one's key |
| `CheckCap` | `_check_personal_cap` |
| `ReadFile`, `Validate`, `FindSource` | `upload_document`: the awaited read, the checks, the source row |
| `Deduplicate`, `CommitRow` | `ingest_document` and the commit of an upload |
| `StartWorkflow`, `StartFails`, `StampFailed`, `RecordWorkflowId` | start on the Temporal server, its failure, the second commit |
| `ApiCrashes`, `DayPasses` | an API process dies; the window of the cap moves |

An upload is a coroutine that keeps its process's event loop, database calls
included, until it awaits (`HasLoop`); the other endpoints are threads. What a
request writes before its first commit is seen by nobody, but an insert with the
same unique key waits for its end (`Holders`). A connector run (`sync`) goes
through `Deduplicate` ... `RecordWorkflowId` once for each document (`NextDoc`).
`Row.seen` is a history value: how many rows there were when the request was sent.

### `IngestPipeline` (state machine, extends `IngestRequests`)

Each workflow's attempts and the place in the current one (`tries`, `at`), the
documents with committed pages (`pages`), the `ingest_runs` rows (`runs`), what is
mirrored (`served`), and the attempts that were given up and still run (`strays`).

| Action | Code |
|---|---|
| `LoadRawDocument`, `ExtractText`, `OkfIngest`, `RecordRun`, `OkfMirror`, `EmbedKick` | the activities, in the order of `IngestWorkflow.run`; redaction changes nothing here |
| `AttemptLost` | an attempt raises, times out, dies or is not heard of, after or before its effect; retry, or failure of the workflow, or the swallowed failure of the embedding |
| `Cancel` | cancellation of the workflow |
| `LateEffect`, `LateRecord`, `LateMirror` | an attempt that `AttemptLost` or `Cancel` ended for the server and that goes on (`StillRuns`): it transcribes, commits pages, records its usage, mirrors |
| `Poll`, `PollGivesUp` | `ingest_status` and the client's polling, `maxAttempts` |

### `DocumentLifecycle` (abstract specification)

What a user of the pipeline relies on: stored before worked on, compiled only if a
workflow was started, searchable only if compiled, searchable for good, successful
only if searchable, and the end of a workflow is final, though its last attempts
may compile after it. `KeepsLifecycle` maps `raw`, `pages`, `served` and the
workflow's place to it; TLC checks it and `PipelineKeepsLifecycle` proves it.

### `EmbedBackfill` (state machine)

The table of chunks with those that have a vector (`chunks`, `embedded`), the
current revision of each item, and what each task does (`pc`, `todo`, `seen`, `tx`,
`batch`). Locks are the rows a transaction has deleted or updated. `made` is a
history value: whether the mirror that last made an item's chunks met another one
at that item other than through the lock on its row.

| Action | Code |
|---|---|
| `Ingest`, `Collect`, `Snapshot` | a new text; `mirror_bundle`: the pages, and `items_with_chunks` |
| `Visit`, `InsertItem`, `LockItem` | an unchanged page, chunked again without a lock or skipped; a new item; a changed one |
| `FindChunks`, `DeleteChunk`, `InsertChunks`, `CommitMirror` | `_store_chunks`: the rows its `DELETE` finds, one by one, and the new ones |
| `LoadBatch`, `Embed`, `EmbedFails`, `WriteVector`, `CommitVectors` | one run of the backfill |
| `DeadlockAborts`, `AttemptLost` | Postgres ends a cycle of waits; a lost attempt |

### `AccessRules`, `Callers` (pure)

`AccessRules` is `rbac.py` and the two authorization services of `auth.py`:
principals, grants, scopes, `CanWrite`, `CanAdmin`, and `AllowedItems`, the
statement that selects what a principal may read, with the rule that a derived
page needs all of its sources. `Callers` is `get_principal` and
`get_effective_principal`: which principal a request's headers make, in
development and outside, and when an app speaks for a user.

### `TeamSpaces` (state machine)

The team, its members (numbered rows), its admins' grants, and each request's
step with what it has found. A request checks, reads and writes in statements of
its own (`CheckAdmin`, `CheckMember`, `InsertMember`; `FindMember`, `DropMember`,
`CommitRemoval`); a deleted row stays locked until the commit, so an insert of
its key waits.

### `Retrieval` (state machine, extends `TeamSpaces` and `Callers`)

The published items, the links, and each request's stage with what it has read
(`sees`).

| Action | Code |
|---|---|
| `Refuse`, `Identify` | a bad token, an app that may not speak for the user; `get_effective_principal_with_teams` |
| `FetchItem`, `ReadGrants`, `ReadRows` | look-up of the item, `allowed_item_ids` |
| `AnswerList`, `ArchiveItem` | list, facets, one item; `archive_item_endpoint` |
| `Match`, `FollowLinks`, `Expand` | `HybridSearchProvider.query` and `_expand`, one statement per hit |
| `ReadNodes`, `AnswerGraph` | `routers/graph.py` and the collapse of links to edges |
| `MirrorCommits` | a mirror replaces the explicit links |

Membership changes between any two of these statements. Scores are whole numbers,
`Vector` of either sign: the code takes the cosine as it is (`search.py:69`).

## 4. Runs

| Run | Instance | Checks |
|---|---|---|
| `ingest_two_processes` | one slot in each of two processes, 2 attempts, 2 faults: crash (in a write and in git too), disk, git, timeout, lock | `TypeOK`, `NoTornPageCommitted`, `CommittedIndexExact`, `CreatedLoggedOnce`, `CommitsHoldReported`, `HistoryOnlyGrows` |
| `ingest_settles` | the same, 1 fault of any kind, fairness | `EveryJobSettles` |
| `ingest_one_process` | two slots of one process, 3 attempts, 2 faults: timeout, model, accounting; fairness | `CommittedLinksResolve`, `EveryJobCompletes` |
| `ingest_serial` | one slot, 3 attempts, 2 faults: all kinds but the lock's | `OneTypePerSlug`, `FactsNeverLost` |
| `mirror_one_process` | one process and the API, a subject two uploads have forked into two types, 3 attempts, 2 faults: timeouts of ingests and mirrors that go on, failed mirrors; 2 archives, fairness | `VersionsDiffer`, `EdgesOfServedText`, `SettledIndexCurrent`, `MirrorLeavesIndexCurrent`, `ComesBackOnlyChanged`, `EveryUploadServed` |
| `mirror_two_processes` | two processes and the API, one bundle, 2 attempts, 1 fault of any kind, a page flushed in parts included, 1 archive | `TypeOK` (with the exclusion of the locks), `DoneIsServed` |
| `pipeline` | a large scan into the personal space, a queue of a small upload for the team and a conversation with the identity and content of the scan for the personal space; one fault of any kind, attempts that go on after they were given up included, 1 day, cap 1, 2 in service, 2 attempts of `okf_ingest`, fairness | `TypeOK`, `OneSpacePerOwner`, `CapOvershoot`, `DuplicatesOverlap`, `UploadAnswerTrue`, `CompletedIsServed`, `BulkIsSequential`, `SourceNameUnique`, `KeepsLifecycle`, `EverythingSettles` |
| `backfill` | two ingests and three pages: an item of two chunks that was never chunked and that one of them changes, a new page of the other, and a page that both change; their backfills and the scheduled one, batch 2, 2 attempts, 1 fault, fairness | `TypeOK`, `ChunksOfCurrent`, `EveryChunkEmbedded`, `EveryWorkflowEnds` |
| `retrieval` | an archive request and one of five others (list by an app, facets, item, search by an app, graph of a space) while a team is made, a member is added twice and removed, and a mirror commits | `TypeOK`, `AdminsAreMembers`, `MembershipDecides`, `HitsExplained`, `GraphOfAnyOrder` |

The passing runs reach between 31,644 (`mirror_one_process`) and 774,149
(`ingest_two_processes`) distinct states; `pipeline` has 359,422, `retrieval`
359,020, `backfill` 161,788.

### Bounds

The ingest instances have two documents and three slugs: a source page each and
one shared subject, so that updates, aliases, type conflicts and references to the
other document's page all occur. `FaultKinds` names the kinds of fault a run
considers and `MaxFaults` bounds their number in one behaviour; `MaxAttempts`
stands for the 5 of the retry policy. Two faults and two attempts per job let an
abandoned attempt, a crash left-over and a retry overlap, and the lock admits
one writer, so a third slot would only wait. The mirror instances have the same
documents and slugs.

In `pipeline`, the two documents of one identity are what deduplication and the
cap of 1 are about, both may be the first into the space, and one waits in a
queue; two requests in service is what it takes to race. A single fault is
enough to reach each handler, and the theorems are for any number of requests,
documents, processes and faults. Pushes of one source and connector runs of
several documents have no instance of their own: they run the same actions, and
the proofs include them.

In `backfill`, one page has as many chunks as a batch, so that a batch is deleted
under its backfill and rows are locked in opposite orders; one ingest changes it
while the other's mirror chunks it for the first time. The pages without chunks are
there for the locks of their items. In `retrieval`, the links give a search two
neighbours by two paths, one explicit and one by similarity between one pair, and a
page derived from one of the team; the limit of three cuts the answer; one page
matches by a word and is far from the query (`Vector` is -2), so that its score is
negative. `Together` says which requests meet in one behaviour: one that reads and
one that archives, since reading requests do not change what others read.

### Where the code and its documents disagree

Three runs show it (`findings` in `PROJECT.json` quotes both):

| Run | Shows |
|---|---|
| `ingest_lost_update` | two overlapping ingests of one subject: the later commit drops the earlier one's facts |
| `pipeline_self_wait` | two large first uploads of a user in one process: the second one waits, on the event loop, for a key that the first one can only commit on that event loop |
| `pipeline_scan` | the transcription of a scan makes its status `done`, so a queue sends the next document before any page of the scan is committed |

More follow from the models and have no run of their own:

* Bundle. A crash between two page writes, then `git add -A`, commits a dangling
  link (`Crash`, `Commit`). A crash or a full disk in the middle of a page write makes
  every later ingest of the bundle fail until the page is repaired (`IndexTorn`);
  that is why `EveryJobCompletes` is checked without them. If what was written
  parses, it is worse: the next ingest takes the shorter body for the page and
  commits it, and facts are lost without an error (`PageCut`; `FactsNeverLost` and
  `CommitsHoldReported` exempt the pages in `damaged`). With two slots two overlapping
  ingests may plan one slug under two types (`mirror_one_process` starts from such
  a fork). An update replaces a page's `sources`. A git failure does not keep an
  ingest from being recorded, and after a git that was killed every later commit
  fails the same way (`GitKilled`, `GitLockedOut`): what holds of such a bundle is only
  that the next commit that is made has everything (`CommitsHoldReported`).
* Mirror. The next mirror draws the edges to an archived item again, and a
  changed page publishes it again (`BuildLinks`, `Updated`). Two spaces that share a
  page name delete each other's edges. With two processes, a mirror that read early
  and commits late leaves a stale index: the index properties of
  `mirror_one_process` hold because one process never runs two mirrors at once, and
  with two processes only `DoneIsServed` remains. An ingest attempt that the server
  gave up on may write after its retry and the mirror are done (`StartStray`): its
  text waits for the next upload's mirror, and `SettledIndexCurrent` and `DoneIsServed`
  exempt it (`late`).
* Requests. The start of a workflow is guarded in uploads only: when it fails for
  a push, the row stays, and later pushes of the same content are skipped as
  unchanged; a connector run drops the documents behind it. When accounting fails,
  or a compilation fails for good, the status says `processing` until the client
  gives up.
  An attempt that was given up, or whose workflow was cancelled, still commits its
  pages, and its `ingest_runs` row makes the status of a cancelled or failed document
  `done` (`LateRecord`).
* Chunks. A mirror that chunks an unchanged page for the first time takes no lock on
  its item (`okf_mirror.py:254-265`). Two that do so at a time leave two sets of
  chunks; one that does so while another commits a new text leaves the old text's
  chunks beside the new ones. They stay until the page changes again
  (`ChunksOfCurrent`, `made = "met"`).
* Search. A page that matches by a word and whose text is unlike the query may have
  a negative score; the decay brings its neighbours nearer to zero, before the page
  that led to them, and the limit may then cut that page off. That is not what
  `tests/api/test_search_expansion.py:50-52,99` says ("neighbor ranks below
  the hit (decayed)"), whose hits are all positive. `HitsExplained` says what holds for
  every score.
* Teams. Two additions of one member at a time end one of them with a 500. The
  role `owner` given by an addition brings no admin's grant.

### Fairness

Faults are never fair: nothing has to fail.

* `OkfIngest`: weak fairness of each slot's own steps (the event loops run, and the
  lock is polled), of dispatch, and of the timeout of an attempt whose process
  died. That is enough for the lock, although it is contended: while one slot
  waits, the number of attempts that can pass it is bounded.
* `OkfMirror`: the same of its workers and of dispatch, and that an archive request
  that holds its row ends.
* `IngestPipeline`: weak fairness of `Progress` as a whole: as long as a request, a
  workflow or a client can go on, something does. Every such step brings an end
  nearer, so no fairness of single requests is needed. `LoserCanGoOn` fails in the
  code, but two *large* uploads of one user are not in the instance of
  `EverythingSettles`, which is about the other losers of a race.
* `EmbedBackfill`: strong fairness of each task's steps, since Postgres gives a lock
  that is released to the one that waits and Temporal dispatches what is due
  although others come in between; weak fairness of the deadlock detector. The
  scheduled backfill runs for ever, so `EveryChunkEmbedded` is a `<>[]`. It assumes a
  gateway that refuses no text for good (`Refused = {}`): one that does starves the
  chunks behind it.

## 5. Proofs

Eight modules. Every theorem holds for every value of the constants under the
`ASSUME`s of the modules, which only say what the constants are (an attempt
runs in a process, a plan is of the pages there are, markers are no values).
A theorem that needs more names its hypotheses, and the table at the end of this
section says what each one excludes and what happens without it. Every invariant
of a passing run is stated by a theorem, and so are the action properties of
`OkfMirror`, `CommitsHoldReported`, `FactsNeverLost` and both refinements.

### The ingest

**`OkfIngestProofs`**: `TypeCorrect`, `MutualExclusion`, `CommitsParse`,
`CommitsIndexed` and `Refinement` (of `WikiHistory`). `CommitsParse` and
`CommitsIndexed` are not inductive: a commit copies the working tree, so one must
know that between the index rebuild and the commit the tree has no torn page and
the index is its catalogue (`IndexInv`), which holds because only the slot in
phase B writes (`LockInv`). `Refinement` needs besides that the working tree never
falls behind the last commit (`KeepsInv`): each committed page is still there,
torn, or a revision of what was committed, and what a slot is about to write over
a torn page is a revision too (`CurInv`), since the merge keeps the stamp and the
aliases (`MergeRevises`). The torn case is why `KeepsInv` must mention it, and
`IndexInv` closes it at the commit.

**`OkfIngestReportsProofs`**: what log, statuses, links and facts can be relied on
for. All of it rests on `AttemptInv`, what an attempt carries from its plan to its
commit: its pages are those of its extraction, no two of one slug; a body that is
composed has the facts of its document; under the lock the pages it is past are
there. The steps are sorted once by what they do to the shared state
(`StepKinds`), and each of the following has one step per kind.

* `LogCountsPages` (`CreatedLoggedOnce`). Two attempts may both plan to create a
  page. What keeps the log honest is that `created` is filled under the lock, so
  `LoggedInv` counts a report that is still to be written as one already: there is
  a page for each. The pages of a slug are three at most, hence finite.
* `CommitsHoldReports` (`CommitsHoldReported`), by `SourceInv`: a source page of a job
  has the job's facts in the working tree, unless it was cut short or is being
  written, and what is written to it has them; an attempt past its commit, and a
  report, come after such a page was written. It needs nothing of git: the commits
  that fail are made good by the next one.
* `CommittedLinksLead` (`CommittedLinksResolve`). A link resolves to a page there is,
  or to a page that the slot holding the lock has planned (`Resolves`), since an
  attempt that fails half way leaves links to pages it did not write. Without
  deaths and failed writes it only fails half way at a torn page, and no commit
  passes a torn page until a writer has repaired it; so `TreeLinksInv` speaks of
  trees without a *stuck* page. A page that is flushed in part has fewer links, not
  others. The run that checks it has one process, the theorem any number.
* `SerialOneType` and `SerialKeepsFacts` (`OneTypePerSlug`, `FactsNeverLost`), of one
  slot. `SlugsInv` says that the plan under way forks no page, `FactsInv` that a body
  composed and not yet written still has all that its page says (`Fresh`): nobody
  else writes in between, but the slot's own earlier attempts left pages behind.
  Those that were cut short are in `damaged`: of them nothing can be said, since a
  body composed from what is left lacks the rest.

### Mirror, index and chunks

**`OkfMirrorProofs`**, in three layers.

* `MirrorInv`, of any number of processes: a mirror has, of the pages its own job
  wrote, collected those it has passed and written those it has handled
  (`Covers`), and a row that it has written keeps every text of the row there is
  (`Follows`, since nobody else changes a row that is locked, `LocksInv`). From it,
  `MirrorTypes` and `UploadsAreServed` (`DoneIsServed`).
* `SerialInv`, of one worker process: what a mirror has read is still what bundle
  and tables hold (`Sees`, `Handles`), and the edges it deletes are all those of
  its pages (`Built`). Only the archiving API can come in between, and it changes a
  status, or one slug's edges. From it, `SerialVersionsDiffer`,
  `SerialMirrorIsCurrent` and `SerialComesBackChanged`, for any number of bundles,
  also such as share slugs.
* `WholeInv`, of one process and bundles that share no slug: what the tables say as
  a whole, each item of a page of its bundle (`ItemsPlaced`), each bundle whose
  uploads are done equal to the index (`BundlesCurrent`). A text written late that a
  mirror has read must be told from one that no mirror has: `FreshInv` says that
  what is still to be written is newer than every version (`Past`, `Newer`). From
  it, `SerialEdges` and `SerialSettlesCurrent`.

**`EmbedBackfillProofs`**: `BackfillTypes` and `ChunksBelongToVersion`
(`ChunksOfCurrent`). The property is about commits, so `TxInv` (`Replaces`) says what
an open transaction stands for: for each item it is done with it has one new set,
and it has deleted every chunk there is, unless another mirror has committed the item
since it took it up (`tx.met`). That stays true while others commit because a changed
page's item is locked from before the first deletion (`LocksInv`), which
`LockItem_Late` shows to be necessary; only a page that is chunked again without the
lock can be met. That the sets stay whole even then rests on two facts: a `DELETE`
works on what was committed when it began, hence on whole sets, and no two sets are
made at one time (`FreshInv`).

### Requests, workflows, queues

**`IngestRequestsProofs`** and **`IngestPipelineProofs`**: `PipelineInvariant`, and
from it `PipelineTypes`, `SpacesAreUnique`, `CapHolds`, `DuplicatesAreConcurrent`,
`UploadAnswersAreTrue`, `CompletedAreServed`, and `PipelineKeepsLifecycle`. Each
property is about a commit that rests on something read long before it, so
`RequestInv` says of every request in between what of its reading is still true
(`Local`): a space it inserted conflicts with no committed one, and with no other
inserted one (`Apart`), because the unique keys make the other wait; the rows the
cap counts that were there when the request was sent stay below the cap, though more
may have come since; a latest row of the same content came after the request was
sent. `CountInv` bounds the rows by the documents passed, which gives each row a
workflow. `FlowInv` says how far each workflow has come, attempts that were lost
after their effect included: nothing is completed or past its mirror that is not
served. `StrayInv` is about the attempts that go on: their document has a workflow,
and one that has only to record has committed, so that what it does later is a step
of `DocumentLifecycle` too. `StartInv` ties a request to the workflow of its row,
and `BoundsInv` is about the days and faults.

`SourceNamesAreUnique`: with one event loop an upload past `FindSource` has the
loop until its commit (`LoopInv`), and one that will insert a source has found none
(`SourcesInv`).

`QueuesOfTextsAreSequential` (`BulkIsSequential`): the client goes on when the status
is `done`, the status is `done` when `ingest_runs` has a row, and what must be shown
is that a row for a text means committed pages. `RunsInv` says so of the rows of the
ingest, and that a workflow comes to the transcription, which writes a row before
there are pages, only for a scan; `Waited` carries it to the client.

### Teams and reading

**`TeamSpacesProofs`**: `TeamTypes`, `AdminsStayMembers`. A removal finds the row and
the grant in two statements, and the member may be removed and added again
meanwhile; the rows' numbers tell whether it is still the one (`FoundInv`), and
that a grant and the membership it came with go together is `AdminsInv`.

**`RetrievalProofs`**: `ReadingInvariant` and `ReadingTypes`, from `ServedInv`, which
says of each thing a request has read what it may rely on: the items it has are
among those that were allowed; hits differ and each neighbour follows the hit it
came from (`HitsOk`); and, *as long as its caller's membership does not change*
(`was` is `"in"`), its teams, grants and allowed items include the team's (`InOk`).

* `SearchExplains` (`HitsExplained`), for scores of either sign. A sort by score could
  put a neighbour before the hit that explains it if the decay left its score the
  same; it is stable, and the decay never raises a score that is not negative
  (`NoWorse`), which is what `HitsLed` carries to the cut of the list.
* `GraphIsOfItsLinks` (`GraphOfAnyOrder`). `Edges` is a recursive function over the
  links in an order the database chooses, and what it returns for every order must
  be proved by induction on the number of links. The induction theorems of the
  library take an operator as a parameter; instead, the step from `n` to `n + 1` is a
  lemma, and `LeastOf` takes the least number for which the claim fails
  (`WFMin` of the well-founded order of the naturals), whose predecessor contradicts
  it.
* `MembersAndNoOthers` (`MembershipDecides`), with `OutInv` for a caller who is not in
  the team: no grant it has read admits it to a page of the team's space, and a
  page derived from one is refused because all sources must be allowed.

### Hypotheses

| Hypothesis | In | What it excludes, and what happens without it |
|---|---|---|
| `OwnSourcePage` | `CommitsHoldReports` | two documents for which the model names one source page: it is then no evidence of either |
| `"crash"`, `"disk" \notin FaultKinds` | `CommittedLinksLead` | a death between two pages, or a full disk, leaves links that the next commit publishes and nobody resolves |
| `OneSlot` | `SerialOneType`, `SerialKeepsFacts` | overlapping ingests: `ingest_lost_update` is the counterexample for facts; two plans take a slug for two types |
| `SourceSlugsApart` | `SerialOneType` | a document's source page named like another document's subject: `resolve` looks for the slug under other types for entities and concepts only, so the source page is created beside the other one |
| `OneWorker` | five theorems on `OkfMirror` | two mirrors at a time: each compares before the other commits, and the one that read first may commit last; TLC finds each of the five violated with two processes |
| `BundlesApart` | `SerialEdges`, `SerialSettlesCurrent` | two spaces that share a page name: one item for both, with the text of one and the edges of the other |
| `OneEventLoop` | `SourceNamesAreUnique` | uploads served by two processes: no key guards the name |
| `WaitsForTexts` | `QueuesOfTextsAreSequential` | a queue with a scan in it: `pipeline_scan` is the counterexample |
| `SimilaritySymmetric` | `GraphIsOfItsLinks` | two scores of one pair; the comment of `get_graph` says that similarity is symmetric |
| `MembersOnly` | `MembersAndNoOthers` | groups declared in a header, other groups' grants on the team's space, and deployments without grants: rights that come from elsewhere than the membership |

`OneWorker` is one worker *process*, since a mirror keeps its event loop.
`OneSlot` is one ingest activity at a time in all processes; `worker/main.py` sets
no such limit (the worker takes Temporal's default), so the theorems with
`OneSlot` say what a limit would buy.

### Model-checked only

Liveness under fairness is out of the prover's reach: `EveryJobSettles`,
`EveryJobCompletes`, `EveryUploadServed`, `EverythingSettles`, `EveryChunkEmbedded`,
`EveryWorkflowEnds`. Nothing else a passing run checks is.

## 6. Not modelled

* Git's own files but for `index.lock`, the bundle's `init`, prompts and the text of
  pages, links the model writes inline, tags, domains and dates.
* What a mirror writes with an item besides its text, space, status, versions, links
  and chunks: tags, groups, provenance, version numbers.
* What makes a token good: signatures, the cache of signing keys, password and token
  endpoints. `Callers` starts where a token is good or not.
* Text processing: splitting into chunks, redaction patterns, transcription, keyword
  and vector scores.
* Deaths and cuts in `OkfMirror`'s ingests beyond a torn or shortened page, which
  `OkfIngest` has; how long an attempt that was given up goes on.
* `embedding_status`, the list of spaces, the cost summary: read-only, a few counts
  each. (`embedding_status` takes two counts in two statements; they need not belong
  together.)
* Legacy versioning and review gate, which the ingest does not use any more; object
  store and model client, whose failures are inputs; settings, logging, metrics;
  the MCP server, a stateless proxy; the browser's stored session and the
  presentation; one-off scripts.

`PROJECT.json` lists each component with its status.
