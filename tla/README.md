# ADV-Lens in TLA+

ADV-Lens reads the SEC Form ADV Part 2A brochure of an investment adviser, has
three LLM extractors look for fee, disciplinary and conflict disclosures,
compares them with peers, writes a redline report and hands it to a compliance
officer (CCO) for a decision.  This directory holds TLA+ models of the parts
that are hard to test, the TLC configurations that check them on small
instances, and theorems about them that TLAPS proves for every value of the
constants.

    cd tla
    tlc -workers 2 -config MCJobsTimely.cfg MCPipelineJobs.tla
    tlapm PipelineJobsProofs.tla          # and every other *Proofs.tla

`PROJECT.json` lists, for every definition that models code, the lines it was
translated from (`map`), the runs, one mutant per checked property, the hazards
and the theorems.  Paths below are relative to `src/adv_lens/`.

## 1. The system

| component | state it keeps | operations | what is hard | what makes it correct | module |
|---|---|---|---|---|---|
| Job table and worker (`app/jobs/models.py`, `runner.py`, `scheduler.py`) | `pipeline_runs` rows: trace_id (unique), crd, status, started_at, completed_at, result, error; one asyncio task per run | insert, schedule, start, finish, fail | two transactions far apart, the row found by trace id, only changed columns are written, process death, write failures | the lifecycle queued → running → terminal; columns agree; the result belongs to the firm of the row | `PipelineJobs`, `JobLifecycle` |
| Stuck-run reaper (`app/jobs/reaper.py`) | none of its own; runs in another process | select stuck rows, update them in one transaction | read and update are apart, UPDATE by primary key without a status guard | never touches a live or terminal run; no row runs for ever | `PipelineJobs` |
| Run endpoints (`app/main.py`, `app/web/routes.py`) | none | `POST /pipeline/run`, `POST /review/runs`, `POST /review/uploads` | the sync ones run in a worker thread, off the event loop | a stored row has a task | `PipelineJobs` |
| Pipeline graph and nodes (`app/graph/`) | `ADVState`: pdf, sections, extractions, peer_context, redline, review_status, report_hash, errors | fetch, segment, extract ×3, retrieve_peers, write_redline, hitl_gate | three branches write one state in one superstep; every node degrades rather than raises, some raise | nothing lost at the join; every gap has an error; a report pending review is not blank | `PipelineGraph` |
| Extractors and redline writer (`extractors/`) | none | short circuit or one LLM call; merge of extractions; the report without extractions | partial failure | as above | `PipelineGraph` |
| LLM client and audit sinks (`llm/`) | `llm_calls` rows | call, validate, record, return | the call is recorded, in a thread, between reply and return; the write may fail; a failed call is not recorded | the state has what was recorded, and nothing else an LLM said | `PipelineGraph` |
| Segmenter and LLM rescue (`segmenter/`) | none | regex segmentation, LLM rescue of five Items, merge | header in the table of contents or in the text; stale missing_items; spans nobody asked for | a rescue only fills gaps; missing_items is what is absent; a section goes from its head to the next | `PipelineGraph` (classes of bodies), `Segmenter` (positions) |
| Review and decisions (`app/web/routes.py`, `app/main.py`, `app/storage/audit.py`) | `human_reviews` rows: trace_id, crd, decision, report_hash, ts | list, detail page, report iframe, decide (form), decide (API), list decisions | page and iframe are two requests; the row may be rewritten in between; ts is taken before the commit | a decision is pinned to what the reviewer saw; the release rule of ADR 0011 §7 | `ReviewGate` |
| Demo seed (`app/web/seed.py`) | a complete row it upserts in place; a cached PDF it copies | seed filed sample, seed draft | rewrites a row decisions refer to | with the review component and the cache | `ReviewGate`, `BrochureCache` |
| SEC client and brochure cache (`ingestion/iapd.py`, `ingestion/cli.py`, upload in `app/web/routes.py`) | files `brochures/<crd>/<vid>.pdf`; a token bucket per client | resolve, download with retries, cache, upload; acquire | existence means completeness, written in place by two processes; the file is read again after an await; the bucket belongs to a run | the hash is of the bytes analysed; a cached file is a whole brochure; the pace to the SEC; every request ends | `BrochureCache`, `SECRequests`, `TokenBucket` |
| Peer store and corpus seeding (`retrieval/`, `app/graph/nodes/retrieve_peers.py`) | Qdrant points, a hybrid or dense-only collection | ensure collection, upsert, query, seed | seeders and askers in other processes; old versions stay, dense-only is never promoted; limits after limits; one list may name a firm twice, and errors are reported per firm | exit code 0 means seeded; what is compared with is another firm's section; peers that are there are found | `PeerCorpus` |
| IARD loader (`ingestion/iard.py`) | none | parse CSV | sequential, no state survives a call | – | not modelled |
| Report rendering and CLIs (`redline/`, `*/cli.py`) | none | HTML formatting, argument parsing | pure | – | not modelled |
| Observability and settings (`app/observability.py`, `settings.py`, `storage/db.py`) | configuration | tracing, reading the environment | side effects only; two settings change control and are variables of `PipelineGraph` | – | not modelled |
| Evaluation harness (`eval/`, `tests/test_eval_runner.py`) | none | score extractions against a golden set | offline, sequential | – | not modelled |

How they interact.  An endpoint inserts a `queued` row, commits, and schedules
`run_pipeline_job(trace_id, session_factory)` as an asyncio task.  The task
opens a transaction to mark the row `running`, closes it, awaits the graph
(minutes), and opens another to store the state or the exception.  The reaper is
a CLI an operator runs from cron; it shares only the table with the worker.
The graph is a LangGraph state machine: `fetch_brochure → segment_brochure →`
three extractors in one superstep `→ retrieve_peers → write_redline → hitl_gate`;
without an API key it ends after the segmentation.  Reviewers read the table
through the web pages and write `human_reviews`, which shares trace id and
report hash, and no foreign key, with the table.  Runs, uploads, the ingestion
CLI and the seed share the brochure files, and nothing else guards them than
that code without an await is not interrupted by its own event loop.  The
seed-peers CLI fills the Qdrant collection with what the graph, run without the
LLM extractors, made of a peer's brochure; runs and the query CLI ask it.

## 2. The modules

### JobLifecycle – what one row promises

The documented lifecycle (docstring of `app/jobs/models.py`): `queued → running →
complete | failed`, never back; a terminal row may be purged.  It is the
abstract specification: one variable, `status`, by primary key.  `Sweep(S)` fails
any set of running rows at once because the reaper does so in one transaction.

### JobTable – what the table promises its readers

`JobLifecycle` with the columns pages, polling clients and the release rule read:
one row at a time has a trace id, what a row is about never changes, and a result
is stored in the step that completes the run and never replaced.  It stands
between two models: `PipelineJobs` implements it (`ReadersSee`), and `ReviewGate`
takes no more liberty with its rows than it allows, the seed script excepted
(`RowsAreShared`).  That is how the two are composed; a product of both, with
workers' transactions under every page, would be out of TLC's reach.

### PipelineJobs – worker, reaper, endpoints, operator, crashes

| variable | code |
|---|---|
| `rows` | the `pipeline_runs` table by primary key; `age` is `now - started_at` |
| `request` | what the client that caused the insertion was told |
| `task` | the asyncio task the insertion created: program counter, the open transaction (row, loaded columns), the argument and outcome of the pipeline, the time since it started |
| `reaper` | the rows the sweep selected, with the error column it loaded |

`Submit`, `Schedule`, `ScheduleOffLoop` are the endpoints; `StartRead`,
`StartCommit`, `StartFails`, `FinishRead`, `FinishCommit`, `FinishFails` are the
worker; `ReapRead`, `ReapCommit`, `ReapFail` the reaper; `OperatorDelete`,
`Crash`, `Tick` the environment.  Three points need care:

* **Every transaction is a read and a commit.**  Worker and reaper live in
  different processes, so anything of the other may come in between.  `Flush`
  writes a column only when its new value differs from the *loaded* one, which is
  what SQLAlchemy's unit of work emits; so a row may end up with columns of both.
* **The event loop.**  `run_pipeline_job` does synchronous database work on the
  loop, hence two tasks of one process never have a transaction open at once
  (`LoopFree`); the reaper does not take part in that.
* **Off the loop.**  `def` endpoints run in FastAPI's thread pool, where
  `asyncio.create_task` has no running loop and raises after the row was
  committed (`ScheduleOffLoop`).

Environment assumptions are constants, so each result says under which it holds:
`Timely` (every run ends within the reaper's threshold; the code does *not*
enforce it), `Deletable` (in which statuses operators delete rows; ADR 0011 leaves
retention to them), `Endpoints`.

### PipelineGraph – one run of the graph

`settings` (API key set, HITL enabled), `pc` (the superstep), `local` (the
segmentation before the node returns it), `state` (`ADVState`), `work` (how far
each LLM call is: idle, calling, replied, recorded, done), `writes` (the update each
branch returned, applied by the reducers at the join), `audit` (where the record of
the call is: nowhere, in a row, or, if that write failed, in the log).

`LLMClient.extract` is three steps: `Reply`, `Record` (`asyncio.to_thread`, so the other
branches go on meanwhile) and what the node that awaits it does with the result
(`Resumes`).  So a result and its record are never written in one step, and
`RecordsMatchResults` relates them in both directions, for the extractors, the writer and
the rescue.  For the rescue one direction is all there is: a reply that was recorded may
bring no usable span.

A section body is one of the five classes the nodes can tell apart: absent,
empty, a short "not applicable" placeholder, other short text, narrative.  LLM
answers are data: a redline is named by who wrote it, the model or the fixed
text for a run without extractions.  `Raise` is every exception no node catches;
the worker turns it into a failed row, which is `o = "raised"` of `PipelineJobs`.

### GraphNodes – the graph as it is drawn

The abstract specification of `PipelineGraph`: `settings`, `state`, and `node`, with one step per node
and one for the superstep of the three extractors.  Each step says what its node may make of
the state it is given: which errors go with which gaps, what a rescue may put where, and
that the gate marks what there is.  No LLM call, audit write or interleaving is
visible.  `PipelineGraph` implements it (`RunsNodeByNode`) with the rescue as part of its
node: what one reads off the drawing of the graph is true of the concurrent branches.

### ReviewGate – reviewers and the rows they look at

| variable | code |
|---|---|
| `status`, `rows` | `pipeline_runs`: status as `JobLifecycle` promises it; trace id, firm, `result.report_hash`, `completed_at` |
| `sample`, `results` | the seed script's sample file per seeded trace id; a counter of stored results that orders completions |
| `tab` | what each reviewer is doing: the run, the hash in the form, the report in the frame, the decisions listed, the decision being committed |
| `reviews`, `clock` | the `human_reviews` table; the time stamps given out |
| `shown`, `again` | not in the code: the reports rows of each trace have held, and those that came again |

`OpenPage`, `LoadFrame`, `DecideForm`, `DecideNotFound` are the web page, `FetchRun`,
`ListDecisions`, `DecideApi` the API; both end in `Record` or `RecordFails`, the
commit, which is a step of its own because handlers run in several threads and
the time stamp is taken before it.  `Submit`, `Work`, `Complete`, `Purge` change the table by the
actions of `JobLifecycle`, and no others than `JobTable` allows (`RowsAreShared`), of which `PipelineJobs` is
shown to be an implementation when runs are timely: the worker's transactions are not repeated here.  `Seed` is the
seed script, which leaves that lifecycle: it inserts complete rows and rewrites
complete rows in place.  The fields `saw` and `history` of a decision are not
columns but what the properties speak of: the report in front of the reviewer
and the decisions he could see.

What it assumes: HITL is enabled (otherwise there is no hash and no form); a
reviewer decides when the frame has loaded; API clients post the hash they
fetched, since `POST /report/decision` checks nothing else; one clock that
advances between any two decisions; the seed's trace ids are not used by
clients.

Nothing is assumed about reports.  A report carries neither a trace id nor a time: the
stub report (`redline/redline.py:138-153`) is the same for every run of a firm and version
without extractions, and ADR 0011 §7 says that a re-run's hash may match.  So `Complete`
and `Refresh` take any report, one there was before included, and `ReleasedWasSeen` says
exactly what that costs: a report is released unseen only if it came *again*, that is, a
row of another trace id had it before, or this row had it until another report took its
place, or the row was deleted, and then was stored once more.  Without that exception the
property is false: the pinned report comes back after the reviewer's frame showed another
one.

### TokenBucket and SECRequests – the pace to the SEC

`TokenBucket` is `_TokenBucket`: `tokens` and `idle` (`_tokens` and
`now - _last`, the latter cut off at what fills any bucket), `queue` and `sleeper`
(who waits for the lock, who sleeps with it held), `left` of that sleep.  `window`
is an observer: a stretch of time that may begin and end at any moment, and the
tokens granted in it.  Time is in ticks, tokens in the fractions that grow in one
(`Unit` of them are a token), so the float arithmetic of the code is exact here.
A sleep may end late but not early.

`SECRequests` is `_request_with_retries` on top: `request` says where each
coroutine is, how often it retried and how long it has to wait; `sent` is the
bucket's window.  Its actions are conjunctions of the bucket's actions and steps
of `request`.  A pipeline run builds a client of its own (`NewClient`), hence a
fresh bucket: the pace holds per client, and n runs in flight send at n times it.
Only statuses 429, 500, 502, 503, 504 are retried; anything else ends the request.
Coroutines of a client are abandoned together (`Abandon`): no code cancels a single
task, they all end with their event loop.

### BrochureCache – files that several processes write in place

| variable | code |
|---|---|
| `file` | the PDF under each path: whose content, and whether all of it |
| `user` | what each task is doing: the path, the bytes about to be written, the hash it keeps (`sha`), whether it came from the cache, the brochures the CLI has still to fetch |
| `cut` | not in the code: the paths whose last write ended early, or copied a file that was not whole |
| `faults` | crashes and failed writes so far |

A path is a filed brochure, or the key ten digits of a hash give a draft (`Key`).
`StartKnown` and `StartList` are runs and the ingestion CLI, `StartUpload` the
upload, `StartSeed` the seed's copy; `Listed`, `Downloaded`, `RequestFails` what a
request brings; `Hit`, `Miss`, `Open`, `Close`, `SaveFails` the rest of
`fetch_brochure`; `Read` what `segment_brochure_node` does.  Opening a file empties
it; another process may look between that and the close.  `LoopFree` keeps tasks
of one process from doing so.  `disturbed` is an observer: somebody outside the
process wrote or deleted the file since this user saw it, or a write of it failed.
`cut` follows the damage of a crash or a full disk: `AnalysedIsWhole` holds after
faults as before them, in every process, for every hit on a file that is not in `cut`
(`Trusted`); a whole write or a deletion takes the file out.

### Segmenter – where a section begins and ends

Operators, without state.  A text is its lines "Item N …", each a head, an entry of
the table of contents or a mention, which the code cannot tell.  Not each of them is a
match: the separators `heuristic.py:40` skips in front of a title include line ends, so
a line without a title (`bare`) takes the next "Item N …" line for its title when
nothing else is between them, and that one is lost (`Hits`: every second of a run of
bare lines).  `Picked` is the 40% rule, `Sections` the stretches from head to head,
`Length` that of the body without its head, `Rescued` what `rescue_missing_items` makes
of an answer.  `RealSections` is the reference: the sections as a reader would mark
them, and `Regular` the texts the rule is meant for.

### PeerCorpus – the collection, its seeders and its askers

| variable | code |
|---|---|
| `text`, `latest` | what each brochure says; the version a firm has on file, which amendments change |
| `collection` | `adv_peers`: sparse vector or not, payload indexes or not, points |
| `seeder` | each process of seed-peers: its peer list, the spec it is at, what was segmented, the report by firm |
| `asker` | each run in `retrieve_peers_node` and each query CLI: filter, Items still to ask for, hits |

Every call to Qdrant is a step: `Ensure`, `Create`, `Index`, `Upsert`; `Answered` and
`QueryRaises` are one query each.  The pipeline a seeder runs for a peer is one step
(`Segmented`, `NotSegmented`, `PipelineRaises`) that uses the operators of `Segmenter`.
Rankings are arbitrary orders, so `Best(S, n)` are the sets a limit may leave; limits and
filters are applied where the code applies them, for limits of any size: `-k` of the query
CLI has no bound, so more may be wanted than the reranker keeps (`Places` is what is left
of it).  A peer list may name a firm twice: then only its last entry counts in the report,
and `SuccessMeansSeeded` promises no more (`LastOnFirm`).  `Drop` is the operator ADR 0007
allows to blow the collection away.

`PipelineJobs` and `PipelineGraph` are not composed.  All `PipelineJobs` sees of the graph is that it
returns or raises some time later, which is what `RunEnds` checks of
`PipelineGraph`; `OnlyForward` says why, without fairness: no step leads back, and
there are at most 27.

## 3. The runs

| run | question | result |
|---|---|---|
| `jobs_unbounded` | Runs may outlive the threshold, rows may be deleted in any status under a live run, clients may reuse trace ids: is what is left readable, and does a row keep its columns once nobody has a hand on it, and does no row stay running for ever? | holds: `ReadableOutcome`, `VerdictIsFinal`, `RunningIsLeft` |
| `jobs_timely` | When runs end within the threshold and only terminal rows are deleted: is the lifecycle implemented, do the columns of a row determine each other, is a result about the firm of its row, does the reaper spare live runs, do readers see the table they are promised, and does every accepted run settle? | holds: `OutcomeMatchesStatus`, `ResultMatchesRow`, `ReaperSparesLiveRuns`, `LifecycleSpec`, `ReadersSee`, `AcceptedSettles` |
| `jobs_reaped_late` | "Reaper only touches `running`. Complete and failed rows are immutable." (`tests/test_pipeline_reaper.py:83`) | violated |
| `jobs_queued_forever` | "the caller … always sees a terminal state" (`app/jobs/runner.py:41-43`) | violated |
| `jobs_unscheduled` | the endpoint "inserts a PipelineRun row with status=queued, schedules the runner" (`app/main.py:108-109`) | violated for the sync endpoints |
| `graph` | One run under every failure of its nodes, every order of its LLM calls and their audit writes, every setting. | holds: `GapsExplained`, `NoExtractionLost`, `MissingIsAbsent`, `RecordsMatchResults`, `RescueFillsGaps`, `RunsNodeByNode`, `OnlyForward`, `RunEnds` |
| `review` | A page, an API script, workers, the seed and an operator: is a report that did not come again released only if the approving reviewer had it in front of him, do decisions sort after those they answer, and do the rows change as `JobTable` says? | holds: `ReleasedWasSeen`, `SupersedesWhatItSaw`, `RowsAreShared` |
| `review_pinned` | "the audit row pins to the exact bytes the reviewer saw" (`app/main.py:173-174`) | violated for the page |
| `graph_blank_report` | "No blank report goes out under pending_review status" (`app/graph/nodes/hitl_gate.py:11-13`) | violated |
| `requests` | Coroutines that share a client, refusals, `Retry-After`, late sleeps, deaths: does every request have a token, is the pace kept, do retries run out, does every request end? | holds: `EveryRequestHasAToken`, `Pace`, `RetriesRunOut`, `RequestEnds` |
| `cache` | A web process with two tasks and a CLI fetch, upload, copy, delete, and die while they write: is the hash of what was analysed, and what was analysed whole? | holds, under the conditions stated at the properties: `HashIsOfAnalysed`, `AnalysedIsWhole` |
| `corpus` | Two seeders and an asker, amendments, a list that names a firm twice, a dropped or dense-only collection, texts with and without a table of contents and one the segmenter is not meant for: is exit code 0 honest, are the peers sections of other firms, are they found, is seeding idempotent as `retrieval/qdrant_store.py:3-6` says? | holds: `SuccessMeansSeeded`, `PeersAreSections`, `PeersFound`, `ReseedsInPlace` |

### Bounds, and why they are enough

* Jobs: two primary keys, two trace ids, two firms (one where identity is not the
  question), threshold 1.  Two rows are what it takes for a trace id to be reused
  after a deletion, for a sweep to hold one row that is gone and one that is not,
  and for two tasks to compete for the loop.  Ages are cut off one past the
  threshold: nothing compares an age with anything else.  `jobs_unbounded` was
  also explored with three keys (1,462,087 distinct states) with the same result.
  `jobs_unbounded` leaves the `ui` endpoint out, which differs from `api` only in
  that its trace id is fresh.  The proofs below have no bound at all.
* Graph: `MCFound` gives each Item the classes that change what a node does
  with it.  Item 5 is the only one a placeholder matters for; Items 9 and 5 decide
  their extractor alone; for the conflicts extractor, which reads Items 10 to 12,
  one Item that may be blank and one that may be short suffice to tell "all
  absent", "all blank" and "something to read" apart.  Rescue spans range over
  every set of Items and both sizes, so Item 12 can still appear.
* Review: two keys (a row deleted and run again under its trace id, or one of the
  seed and one of a client), one trace id each, one firm (the release rule compares
  within a firm), a page and a script, two decisions (one answers the other), two
  reports and three stored results: enough for a row rewritten and written back, for a
  client's run that reproduces the sample, and for a deleted row's report to return
  (3.4 million states).  Reports are symmetric: nothing but equality is asked of a hash.
* Requests: two coroutines (one waits for the lock while the other sleeps), a
  bucket of one and a half tokens, so that it fills up, overflows and is short of
  a token; windows of six ticks (`Horizon`), which is three tokens' growth;
  `MaxRetries = 3` as configured, a backoff that doubles and a `Retry-After` of 0 or 3.
* Cache: two tasks of one process and a third in another, two brochures with one
  draft key between them, a draft that was never filed with a key of its own, one fault
  (`MaxFaults`).  The tasks of the web process interfere with each other and with the
  CLI; one brochure each is fetched, one draft uploaded, copied over and taken for the
  other (4.4 million states).
* Corpus: two firms, one of which amends its brochure, three texts (an entry the
  rule skips, behind a bare line that swallows the next entry; none; and one the rule
  falls for, with a head that is swallowed), Items 5 and 9, one peer list that names a
  firm twice, first as it is on file and then by version, two seeders and an asker of which
  `MaxBusy = 2` work at a time, limits of one point in each index and of two in the
  reranker, and a query for three, so that each limit bites (1.2 million states).
* The job runs and `requests` have a deadlock check: time always passes.  The graph
  runs have none, because a run is over when it is `done` or `raised`; the review
  runs have none, because the bounds on reports and decisions end them; cache and
  corpus have none, because operators, uploads and faults may be used up.

### Fairness, and why the code justifies it

* `RunnerFairness`: the event loop runs every ready task, and every await of a
  pipeline ends, because HTTP and LLM calls have timeouts.  It is strong fairness
  per task because a task's step is disabled whenever another one has the loop.
* `ReaperFairness`: the operator's cron job keeps running the reaper and the clock
  advances (ADR 0011 §6).  `SF(ReapCommit)` says that the sweep does not fail every
  time; a sweep rolls back as a whole when one of its rows was deleted under it.
  `RunningIsLeft` needs nothing from the worker.
* `PipelineGraph`: weak fairness of `Next`, no more: some node makes progress.
* `SECRequests`: time passes, the event loop runs what is ready (a coroutine whose
  sleep is over, the next one on the lock, which asyncio hands on in order), and
  each request is answered or times out (`sec_request_timeout_s`).  All weak: what
  is ready stays so until it runs.  Nothing is assumed about when coroutines ask.
* Cache and corpus have safety properties only and no fairness.

## 4. What is proved

`PipelineJobsProofs` proves, for any number of runs, trace ids and firms, any
threshold and any choice of endpoints:

| theorem | statement | assumptions |
|---|---|---|
| `TypeCorrect` | `Spec => []TypeOK` | none |
| `ResultIdentity` | `Spec => []ResultMatchesRow` | `SafeDeletion`; runs may outlive the threshold |
| `ReaperSpares` | `Spec => []ReaperSparesLiveRuns` | `SafeDeletion`, `Timely` |
| `OutcomeReadable` | `Spec => []ReadableOutcome` | none |
| `OutcomeExact` | `Spec => []OutcomeMatchesStatus` | `SafeDeletion`, `Timely` |
| `ImplementsLifecycle` | `Spec => LifecycleSpec` (refinement of `JobLifecycle`) | `SafeDeletion`, `Timely` |
| `ImplementsTable` | `Spec => ReadersSee` (refinement of `JobTable`) | `SafeDeletion`, `Timely` |
| `VerdictsAreFinal` | `Spec => VerdictIsFinal` (an action property) | none |
| `StartsOnce` | `Spec => [][\A r \in RunIds : NeverBack(r)]_vars`: no row goes back to where its run has not ended | `SafeDeletion` |

`SafeDeletion` says that operators delete only rows no live task can have:
terminal ones when runs are timely, otherwise complete ones, because the reaper
may have failed the row of a run that still goes on.  The other assumptions are those `PipelineJobs` names for its constants.

The argument.  None of these properties is inductive, because what a commit
writes depends on what the transaction loaded, and the row is found by
trace id.  `IInv` has two parts.  `IdentityInv` says that among live rows trace ids are
unique, that the row a live task works on is the row it was created for, and
that the firm it passed to the pipeline is that row's.  It needs `SafeDeletion`:
otherwise a client could reuse the trace id of a row whose task still runs, and
the task would write to the new row.  `TimelyInv` ties the program counter of a task to status, age and
columns of its row, bounds the row's age by the task's clock, and says that the
rows a sweep holds are running rows without a task.  It holds only under
`Timely`, so `IInv` is `IdentityInv /\ (Timely => TimelyInv)` and one step proof
serves both.  `OutcomeReadable` takes neither assumption and so an invariant of its own,
`ToldInv`: one transaction of the event loop is open at a time, so a row differs from
what was loaded only by a sweep, and a row picked with an error is never left
without one and without a result.  The refinement proof maps each action to a step of `JobLifecycle`
or a stutter, with `IInv` to exclude the overwrites that are possible otherwise.
`ImplementsTable` adds to each such step what it does to the visible columns: an insertion finds no
row with its trace id (`TraceFree` is the unique index), a completing commit stores
the result of its own row's firm (`IdentityInv`), no other step touches a column (`ColumnsStay`).

What is left without `Timely` and `SafeDeletion` are `OutcomeReadable` and
`VerdictsAreFinal`: a row is final not when its status is terminal (a sweep or a late run may still
overwrite it, see the findings) but once no sweep holds it and its trace id is nowhere
in a live task or an open request.  `TraceInv` is why that is enough: a transaction is open
only on a row with the trace id of the task's own row, even if that was deleted
and the trace id used again.  Between the two is `StartsOnce`: the verdict may
change, but nothing starts a run a second time.

`ReviewGateProofs` proves, for any number of reviewers, runs, trace ids and firms:

| theorem | statement | assumptions |
|---|---|---|
| `TypeCorrect` | `Spec => []TypeOK` | none |
| `ReleaseIsSeen` | `Spec => []ReleasedWasSeen` | none |
| `DecisionsSupersede` | `Spec => []SupersedesWhatItSaw` | none |
| `ReviewsASharedTable` | `Spec => RowsAreShared` (`JobTable`, or the seed) | none |

The argument.  The rows a page was opened on may be gone, and those with the
pinned hash may be another trace's, so nothing local to the decision suffices.
`IInv` says that a report that has not come again was shown under one trace only
(`OncePerReport`), and of each page and decision that either the pinned hash is of the
report the reviewer saw, or no row of its trace holds that report any more, nor will
without its coming again (`Pinned`, `Gone`).  If a row has the hash of a decision it is
then of that trace and not gone, so the reviewer saw it.  For
`DecisionsSupersede` the invariant (`StampInv`) follows decisions in flight as well: their
stamp was taken after everything their tab lists, however late the commit.
`ReviewsASharedTable` and `ImplementsTable` meet at `JobTable`: what `ReviewGate` assumes of the
rows is what `PipelineJobs` was proved to provide.

`PipelineGraphProofs` proves, for any settings and anything the segmenter may find:

| theorem | statement | assumptions |
|---|---|---|
| `TypeCorrect` | `FairSpec => []TypeOK` | `NULL` is no output (`NullDistinct`) |
| `GapsAreExplained` | `FairSpec => []GapsExplained` | as above |
| `ExtractionsSurvive` | `FairSpec => []NoExtractionLost` | as above |
| `MissingAreAbsent` | `FairSpec => []MissingIsAbsent` | as above |
| `RecordsMatch` | `FairSpec => []RecordsMatchResults` | as above |
| `RescueIsSafe` | `FairSpec => RescueFillsGaps` (an action property) | as above |
| `RunsGoForward` | `FairSpec => OnlyForward /\ [](StepsLeft \in 0 .. 27)` | as above |
| `ImplementsNodes` | `FairSpec => RunsNodeByNode` (refinement of `GraphNodes`) | as above |

The argument.  The properties speak of a finished run, and what it holds was decided many
steps earlier; so `IInv` says for every place in the graph what each node that ran has
left behind: an output or its error (`Sections`, `Branches`, `Writer`), and nothing yet
where a node has not run (`Order`).  For `RecordsMatch` it says of every caller at what
point of its call there is a record (`Returned`, `Writer`, `Rescuer`): a record without a
result exists only while the node has not gone on.  The join is `JoinKeeps`: each branch
writes a key of its own, so merging one branch's update keeps the others' and their
errors.  `RescuedIs` says what the merge after the rescue holds, Item by Item.

`RunsGoForward` is a measure: the places left on the way plus what each LLM call has left.  Every
step lowers it and no call goes back, so a run takes 27 steps at most and calls the
LLM once for each of its five callers.  It is the part of `RunEnds` that needs no fairness: what is left
for TLC is that some step is possible until the run is over.

For `ImplementsNodes` the branches must be shown to have read the state of the superstep's
beginning.  `Hidden` says so: what a branch has returned, or is calling the LLM for, `Fits`
the sections in the state, which no other branch changes; what the regular
expressions found waits unchanged for the rescue; and the writer calls the LLM only
about an extraction.  Steps inside a node are stutters; `Join` is then the superstep
(`JoinStep`), `Return` the segmentation (`SegmentStep`).

`TokenBucketProofs` and `SECRequestsProofs` prove, for any rate, capacity, number of
coroutines and retries:

| theorem | statement | assumptions |
|---|---|---|
| `TypeCorrect` (both) | `Spec => []TypeOK` | those on the constants |
| `PaceKept` (bucket) | at most `Full + elapsed` is granted in any window | as above |
| `TokenForEveryRequest` | `Spec => Limiter!Spec`: the client implements the bucket | as above |
| `PaceKept` (client) | `Spec => []Pace` | as above |
| `RequestsRunOut` | `Spec => RetriesRunOut /\ []`(at most `3 * MaxRetries + 2` hops are left) | as above |

The argument.  What was granted says nothing about what may be granted next, so
`Budget` counts both against one allowance: the tokens granted in the window and
those the bucket holds now are at most what it holds when full and what grew
since.  A sleeper that wakes spends what grew in its sleep, which is a token at
least (`SleepLongEnough`): so setting the bucket to zero gives nothing away.  The
client's theorem is the bucket's, instantiated through the refinement.
`RequestsRunOut` counts a request's steps (wait for a token, send, back off) against the
attempts it has left, which is the part of `RequestEnds` that needs no fairness.  Powers of
2 are beyond the provers, so that the backoff is a number is an assumption
(`RetryAssumption`), which TLC evaluates.

`SegmenterProofs` proves, for every text (bounded by nothing): `RegularSections`, on texts
the 40% rule is meant for the sections are those a reader would mark; `SectionsApart`, an
Item has one section at most and sections do not overlap; `OneSectionEach`, so it is after
a rescue too, whatever the model answers (so no two sections of a brochure claim one point
id); `MissingIsUnmatched`, the Items reported missing are exactly those without a match,
and each line that names one of them comes right after a bare line, which took it for its
title: what is lost is lost to the regular expression and never to the 40% rule; and
`NothingIsLost`, from the first head on every place of the text is in a section, so the
sections partition it.  The last two need a least element of a set of numbers.  The
provers cannot use an induction theorem that takes an operator, so `FirstOf` gets it from
the library's well-foundedness of inclusion on finite sets.  The partition is of what the
heuristic cuts: a rescued section may overlap others.

`PeerCorpusProofs` proves, for any firms, versions, texts, seeders and askers:

| theorem | statement | assumptions |
|---|---|---|
| `TypeCorrect` | `Spec => []TypeOK` | those on the constants |
| `ComparesWithSections` | `Spec => []PeersAreSections` | as above |
| `ExitCodeIsHonest` | `Spec => []SuccessMeansSeeded` | as above |
| `PeersAreFound` | `Spec => []PeersFound`, for limits of any size | there are finitely many ids (`IsFiniteSet(Ids)`) |
| `SeedingIsIdempotent` | `Spec => ReseedsInPlace` (an action property) | those on the constants |

The argument.  A hit has nothing that says where it is from, so the invariant follows a
section from the text into the hands of a seeder (`Resolved`), into the collection
(`Stored`) and to the asker (`AskerSound`): everywhere it is `Genuine`, one of the
sections of the brochure its id names, or the rescue model brought it; `RegularSections`
then makes it one a reader would mark.  For the exit code the invariant says, spec by
spec, that what is done is in the corpus or has errors in the report, that nobody's upsert
of the same brochure takes a section away, and that a clean report covers the last entry
of each firm, as far as the list has been worked off (`Honest`).  That peers are found is
a matter of counting: each limit on the way to an answer is at least the least of them
(`Places`), so as many come back, or all there are (`ResultsEnough`), a point that was
there when an asker began stays until the collection is dropped, and an Item is asked for
once (`Served`). Seeding is idempotent because of two facts about one id: whatever was or
is stored under it is `Genuine`, and of one brochure an Item has one section
(`SectionsApart`); only a section of the rescue model, which may answer otherwise next
time, is exempt.

`BrochureCacheProofs` proves, for any processes, users, brochures and faults:

| theorem | statement | assumptions |
|---|---|---|
| `TypeCorrect` | `Spec => []TypeOK` | those on the constants |
| `HashIsKept` | `Spec => []HashIsOfAnalysed` | as above |
| `WholeIsRead` | `Spec => []AnalysedIsWhole` | as above |

The argument.  Between fetch and read a task of the same process may well empty
and write the file.  `Kept` says that then the same bytes come back (a brochure has
one whole content, `WholeIsOne`), or that nobody can write it (a draft's file is
written only where there is none); `OneBusy` that no other task of the process reads
before they are there.  `TornIsWritten`: a torn file is being written this moment, or
its path is in `cut`; a hit that nobody disturbs stays as it was looked at.

Only model-checked: all liveness (`RunningIsLeft`, `AcceptedSettles`, `RunEnds`,
`RequestEnds`): fairness and ENABLED are out of this prover's reach.  Every other
property of the passing runs is a theorem.  Of two of the four the bounded part is proved: a
run and a request have only so many steps (`RunsGoForward`, `RequestsRunOut`).

## 5. Findings

1. **The reaper overwrites finished runs** (`app/jobs/reaper.py:87`,
   `jobs_reaped_late`): the UPDATE has no guard on the status it selected by.
2. **A queued row is never recovered** (`app/jobs/runner.py:62`,
   `jobs_queued_forever`): a failed first transaction, or a crash before it,
   leaves it, and the reaper looks at running rows only.
3. **The sync endpoints cannot schedule** (`app/main.py:130`,
   `jobs_unscheduled`): the row is committed and the client gets an error.  The
   tests replace the scheduler and do not see it.
4. **A blank report can be pending** (`app/graph/nodes/hitl_gate.py:49`,
   `graph_blank_report`): the writer composes a report when nothing was extracted.
5. **A decision can pin a report nobody looked at** (`app/web/routes.py:294`,
   `review_pinned`): form and frame are two requests, and the seed rewrites rows in
   place.  The release rule refuses such a decision unless that report comes back.

Divergences met while modelling that no run is spent on:

* `llm/__init__.py:15` says that every call writes an audit row.  A call that raises, or
  whose reply does not validate (and is paid for), leaves before its record is built
  (`llm/client.py:105`).
* The separators of the header's regular expression (`segmenter/heuristic.py:40`) include
  line ends, although the comment above it speaks of a "same-line title": a header line
  without one takes the next header line for its title, and
  that Item is reported missing although a line names it.  `MissingIsUnmatched` says
  that this is the only way to lose one.
* `segmenter/heuristic.py:11-13` promises the *last* occurrence of a header when all
  are in the first 40%; the code takes the first.  `Regular` excludes such texts.
* `retrieval/sparse.py:68-70` says that the same text always has the same vector; the
  weights depend on the average length of what the process encoded before.  A
  process that only queries has encoded nothing, so the IDF that ADR 0007
  describes as the corpus's is the same for every word.
* ADR 0004 lets operators reseed after a change of the segmenter without cleaning up;
  points of Items no longer found, and of older versions, stay and are compared with.
* The report of seed-peers has one entry per firm (`retrieval/seed.py`): of two specs of
  one firm the second hides the errors of the first, and the exit code with them.
* `-k` of the query CLI beyond `rerank_top_k` is not honoured: fewer hits come back than
  there are.
* ADR 0002 speaks of three attempts; three *retries* make four requests.
* A run of an uploaded draft has a CRD of its own, so the firm's filed brochure is
  among the peers it is compared with.
* A file that one task downloads again, or whose second write fails, is torn under
  a run of another process that had it whole; a run may find a file torn that
  another is about to complete; the seed may copy a torn file for good.  They are
  why `HashIsOfAnalysed` and `AnalysedIsWhole` have conditions.
* After the cache was deleted a draft is requested from the SEC, as version "0".
* A process that dies between creating the collection and its payload indexes leaves
  it without them for ever (`ensure_collection` takes what exists as it is).

## 6. The plan

In the order of importance:

1. `PipelineJobs`, `JobLifecycle` and `JobTable`: done, with proofs of all but the
   liveness properties.
2. `PipelineGraph` and `GraphNodes`: done, with proofs of all but `RunEnds`.
3. `ReviewGate`: done, with proofs; composed with 1 through `JobTable`.
4. `BrochureCache`: done, with proofs.
5. `TokenBucket` and `SECRequests`: done, with proofs of all but `RequestEnds`.
6. `Segmenter`: done, with proofs; the positions of `PipelineGraph`'s bodies could be
   taken from it.
7. `PeerCorpus`: done, with proofs.

## 7. Not modelled, and why

Texts, prompts, schemas, scores, costs and HTML: data that no control depends on.
Form validation: it rejects before anything changes.  Retries inside the
Anthropic SDK: a call replies or fails.  Qdrant's ranking, BM25 weights and the
embeddings: floating-point arithmetic; a ranking is any order.  A `Retry-After` that is
not a finite number: `float()` takes "inf".  Parsing of the SEC's search payload: it
yields some set of brochures.  The evaluation harness and the IARD loader: offline
and sequential, no state survives a call.  Report rendering: pure.  `--dry-run` of
the reaper: changes nothing.  Several web processes on one database: the
deployment has one (`Dockerfile`), and the event loop exclusion would not hold
between them.
