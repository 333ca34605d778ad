# FlowO in TLA+

FlowO watches Snakemake runs. A logger plugin inside each Snakemake process
posts what happens; a FastAPI backend turns the reports into rows of
PostgreSQL; triggers and Server-Sent Events tell open pages to read again; and a
catalog keeps the files of workflows in the database, exports them to disk and
backs them up to Git. This directory holds TLA+ modules of the parts of FlowO
that are hard to test, the TLC runs that check them on small instances, and
theorems checked by TLAPS for every size.

Paths below are relative to the repository; `frontend/` and `app/` are its own
directories.

## How to run

    tlc -workers 2 -config IngestErrors.cfg MCReportIngest.tla
    tlapm ReportIngestProofs.tla

`PROJECT.json` pairs each `.cfg` with its MC module, says what each run is for,
and maps every definition to the lines it models.

## Inventory

| part | state it keeps | operations | where it is hard | modules |
|---|---|---|---|---|
| report ingestion: `app/services/reports/*`, `app/api/endpoints/reports.py` | tables `workflows`, `jobs`, `files`, `rules`, `errors`, `workflow_events` | one handler per kind of report, the close | late, lost and repeated reports; jobs started again; errors outside of a job; a handler that fails | `ReportIngest` |
| logger plugin: `src/snakemake_logger_plugin_flowo/plugin/client/log_handler.py` | the workflow id, the map from Snakemake jobs to rows | `emit`, `_send_to_api`, `close` | its map is only as good as the answers that reach it; a ten second timeout | `ReportIngest` |
| mails: `app/services/notification.py` | queued mails | submitted, success, failure | which mail for which end | `ReportIngest` |
| listener: `app/core/pg_listener.py`, `app/api/endpoints/sse.py` | one connection, cached channels, subscribers, a queue per stream | `listen`, its clean-up, reconnection, callback | coroutines that interleave at every `await`, a connection shared with an unlocked health check, full queues, cancellation | `PgListener` |
| live pages: `frontend/src/config/workflowRealtime.ts`, React Query | a cache of answers, a stream, a debounced refresh | open, notice, flush, retry, ask, answer, invalidate | an answer older than the notice; a change before LISTEN; an invalidation that meets a first request | `QueryCache`, `PageCache`, `LivePage` |
| list of runs: `WorkflowTable.tsx`, `WorkflowSearch.tsx` | page, size, filters, name field with its delay, viewer, deletion | type, pick, turn, delete, open | two effects that copy the name into each other; a refresh between two clicks | `RunsPage` |
| page of a run: `routes/_authenticated.runs/$workflowId.tsx`, `JobTable.tsx`, `useDag.ts`, ... | tab, rule, table page and filter, viewer | pick, turn, open | panels read at different moments | `RunView` |
| administration: `app/services/workflow.py`, `app/services/job.py` | the same tables | delete, prune | asynchronous transactions between synchronous handlers in one event loop | `WorkflowAdmin` |
| catalog: `app/services/catalog/*` | `catalogs`, `catalog_files`, `catalog_blobs`, a sidecar directory, a workspace | import, export, delete | rows roll back and files do not; two tables for one path; a status written only if it changed | `CatalogStore` |
| Git backup: `app/services/catalog/sync.py`, `app/services/third_party/git.py`, `CatalogList.tsx` | a status in the user's settings, a directory, the page's handler | sync, poll, export | two backups at once, death between two commits, a handler that outlives its page | `GitBackup` |
| catalog pages: `components/catalog/*.tsx`, `app/services/catalog/git_ops.py` | dialogs, editor tab, requests under way | import, edit, delete, open, pull the template | which keys an answer invalidates; what a confirmation confirms | `CatalogPages` |
| DAG preview: `app/services/third_party/snakevision.py`, `CatalogDagSvg.tsx`, `CatalogCard.tsx` | an SVG, an error file, a registry of jobs, effects that poll | ask, force, upload, draw | a thread against the event loop; an effect that is replaced while it waits | `DagPreview` |
| outputs: `ResultViewer.tsx`, `FileUtils.tsx`, `app/api/endpoints/files.py` | a tree that is filled folder by folder | open, list, select | listings in any order, into a tree that may be new | `ResultTree` |
| web session: `auth.tsx`, `routes/login.tsx` | one token in localStorage, a copy per tab | login, logout, interceptor | tabs that send each other away | `WebSession` |
| CLI login: `app/api/endpoints/tokens.py`, `plugin/cli.py` | device sessions in memory, a lock | start, approve, poll | an approval that awaits, other tabs, polls, expiry and restarts meanwhile | `CliLogin`, `WebSession` |
| accounts: `app/core/users.py`, `app/api/endpoints/admin.py`, settings pages | users, invitations, policy, tokens, a dialog with a secret | register, invite, revoke, save | check-then-use of an invitation; lists that are not read again | `Accounts` |
| dashboard, MCP tools, contents of files | none | queries | | no |
| migrations, deployment | schema, configuration | | | no, except the triggers and foreign keys the models rely on |

How the parts meet: the plugin and the server only through HTTP, with the context
travelling out with each report and back with each answer; ingestion and
administration through the tables, their row locks and the event loop they share;
ingestion and pages through the triggers, NOTIFY and the streams; the listener
and the health check through one connection; catalog requests through two tables
and two directories; the pages of one browser through localStorage; the pages
and the server's background jobs through a status row or a file that is polled.

What makes each part correct is listed with its module below, and everything
that could go wrong is in `PROJECT.json` under `hazards`, at its line.

## The modules

    ReportIngest <- WorkflowAdmin, ReportIngestProofs
    WorkflowAdmin, ReportIngestProofs <- WorkflowAdminProofs
    PgListener   <- PgListenerProofs
    CatalogStore <- CatalogProofs
    QueryCache   <- PageCache <- LivePage <- RunsPage <- RunsPageProofs
                                 LivePage <- RunView  <- RunViewProofs
                    PageCache <- Accounts, CatalogPages
    CliLogin     <- WebSession <- WebSessionProofs
    WebPages = WebSession | Accounts | GitBackup | ResultTree | DagPreview | CatalogPages
    WebPages     <- WebPagesProofs (with WebSessionProofs)

An arrow points to the module that is extended or instantiated.

### ReportIngest

One backend worker serves the reports: the endpoints are `async` functions that
use a synchronous session and never await, so a handler is one atomic step. The
plugin posts one report at a time and waits for its answer, at most ten seconds.

State: `ctx`, `phase`, `sent`, `waiting` (plugin); `snake` (what Snakemake
itself knows of its jobs, the truth the tables are compared with); `net`,
`answers` (requests and answers on their way); `wf`, `jobs`, `rules`,
`errors`, `notes`, `cachedGraph`, `log` (tables); `used` (the sequence of
`jobs.id`, which does not roll back); `mails`.

Actions: what Snakemake logs (`StartRun`, `StartJobs`, `DescribeJob`,
`FinishJob`, `FailJob`, `RaiseError`, `Annotate`, `CloseRun`, `CrashRun`), one
`Handle...` for each handler of `dispatch/handlers.py` and for
`finalize_workflow`, `Receive`, and the faults: `LoseRequest`, `LoseAnswer`,
`GiveUp` (the plugin times out and the report is served later). A handler that
raises leaves its raw event with an error and no row. Names, paths, timestamps,
resources and messages are left out.

- `ContextPointsHome`: handlers trust the map in the request without checking
  that the row belongs to that run; no context ever leads to another run's or
  another job's row. *Proved.*
- `NoEarlySuccess`: before the close, SUCCESS is shown only for what Snakemake
  finished. *Proved.*
- `TypeOK`. *Proved.*
- `TablesExplained`, `NoFalseFailure`: every row goes back to a processed event,
  and no failure is made up. *Proved.*
- `SuccessIsFinal`: after SUCCESS neither status nor mails change. *Proved.*
- `RowsMirrorSnakemake`, `VerdictFollowsJobErrors`: on a network that loses nothing
  the rows mirror Snakemake between two reports, and the verdict of the close is the
  one the job errors call for. *Proved.*
- `ClosedRunSettles`: and nothing stays RUNNING.

### PgListener

An action is what a coroutine does between two awaits. `heard` is what asyncpg
really passes to the callback, `listening` the cached `_listening_channels`. A
stream goes through `waiting` (for the lock), `probing` (reconnection),
`subscribing`, `open`, `beating` (heartbeat), `leaving`, `cleaning`. `Cancel` stops
a stream at an await; `StartCheck`/`EndCheck` are `check_sse_health`, during
which asyncpg refuses other commands on the connection.

- `HeardWhileCalm`: an open stream's channels are listened to and its queue is a
  subscriber, whoever else comes, leaves or reconnects, as long as the health
  check leaves the connection alone and no stream is cancelled in its clean-up.
  *Proved.* `StreamsHeard` says it without that condition, and is false
  (`listener_deaf`).
- `ListeningIsTrue`: the cache equals the truth, under the same condition. *Proved.*
- `LockMovesOn`: the lock is released and everyone who asks gets it, with checks
  and cancellations.
- `PgTypeOK`: types, and no queue beyond its size. *Proved.*

### QueryCache, PageCache, LivePage

`QueryCache` has the operators on one entry of React Query's cache as
`frontend/src/main.tsx` configures it: fresh for thirty seconds, shown while it
is asked again, given up when nobody looks. What matters most is
`Invalidated`: an entry that has data is asked again in place of the request in
flight, one that has none keeps its first request, whose answer may be older.
`PageCache` has the actions on the whole cache (`Turn`, `Invalidate`,
`ServeRead`, `Answer`, `Expire`, and `FailRead`, a read that has used up its retries:
the entry keeps what it shows, and is not asked again by itself) with `missed`, a history
of the entries that the code leaves outdated, which the properties except. `LivePage` adds
`useWorkflowRealtime`: `OpenStream` (the headers, which invalidate), `Listen`,
`Notice`, `Notified`, `Flush`, `DropStream`, `Retry`; the server keeps `QueueSize`
notices for a stream and drops the next (`pg_listener.py:138`). `LoseConnection` is the
database connection that the listener shares among all streams: it is lost and replaced
(`pg_listener.py:63`, and the heartbeat at `:196`) while the stream stays open. What is
announced in between reaches nobody, the page is not told, and nothing reads again. The
actions take the keys in view as an argument, so that a page only says which these are.

### RunsPage

`WorkflowTable` with the state its `useState` keeps (page, size, filters), the name field with its half a
second (`Type`, `SearchName`), filters, pager, viewers of a run's files, the
deletion of a run and others' changes of runs (`ChangeRun`). The rows of an answer are a
set: their order is that of the runs' numbers, of which a page is a range.

- `QuietIsExact`: when nothing is under way the page shows what the database
  holds. Exceptions, each of them what the code does: a change while the stream is
  open and nobody listens for it, between the headers and LISTEN or while the
  listener's connection is replaced; a read that failed, as that of a deleted run's
  file, whose 404 leaves the old content; the update of a run that was not on the page
  (`onData` ignores it, so a filter by status keeps it); a notice dropped because the
  stream's queue is full, when those that were kept are all ignored; an invalidation
  that met the first request of an entry. *Proved.*
- `SearchSettles`: the name that is searched becomes what the field shows, and the
  two effects that copy one into the other stop.
- `RpTypeOK`: types, and nobody asks for what nobody looks at. *Proved.*

### RunView

The page of one run. Its panels are functions of the jobs they were sent:
`Progress`, `NodeStatus` (the colours of the graph), `Bars`, `Rows` of the table.

- `PanelsAgree`: once quiet, all of them show the jobs of this moment, with the
  exceptions of the stream, of the listener's connection, of failed reads and of first
  requests above. A job's log and detail
  are not covered: their keys are tagged `jobs`, which nothing invalidates. *Proved.*
- `PageExists`: without a filter by status the table is never left beyond its last
  page, not when a rule is picked and not when one comes back to the tab. *Proved.*
- `RvTypeOK`. *Proved.*

### WorkflowAdmin

Extends ReportIngest with `tx`, the one request (deletion or pruning) that is
being served: its step, what its SELECTs returned, and its uncommitted changes. Each
SQL statement is an action; foreign keys make it roll back. `ServeReport` is a
report handled in between, `Hang` a handler that needs a row `tx` has locked: it
blocks the event loop, and so the coroutine that would commit.

- `DeletedIsGone`: nothing of a deleted workflow comes back, whatever its run
  still reports. *Proved.*
- `PruneSparesRuns`: pruning never takes a workflow whose first job has started.
  *Proved.*
- `AdminTypeOK`: types, and a transaction only holds rules that exist. *Proved.*

### CatalogStore

The files of one catalog: `text` and `blob` are the committed rows, `side` and
`work` the directories, `status` the column `workspace_status`, and `req[c]` the
request of client `c` with its session: the rows it wrote and has not committed, the
status it loaded. Statements are actions (`ClearText`, `InsertText`,
`ClearBlobs`, `InsertBlobs`, `CommitImport`; `ClearWork`, `ReadText`,
`WriteWork`, `CommitExport`); what they do to the disk is visible at once and never
undone. `DiskFails` is the OSError that ends an export with the status `error`, and
`Dies` the death of the server; both leave a directory anywhere between what it was
and what the step makes of it. `torn` remembers that an export which changed the
workspace has ended, or failed, without a status that says so. `SaveFiles` is the editor's import, `SyncTree` the import of a directory
(CLI, archive, Git) that ends with an export. A file's hash stands for its body. All
rows of one import go in at one step.

- `PathIsOneKind`: a path is never a text file and a binary at once. *Proved* for one
  importer.
- `BlobsHaveBytes`: every binary's row has its bytes, those of its hash. *Proved* for one
  importer whose imports are not cut off after their sidecars are written.
- `FreshIsExported`: as long as no requests overlapped, a workspace shown as fresh holds
  exactly the catalog, whatever exports, their disk and the server do, unless it is
  `torn`: a status `fresh` from before survives a death of the server half-way, or a
  COMMIT of `error` that fails, and the half-written workspace is then shown as fresh
  until the next export begins. *Proved* when no import is cut off.
- `CatalogTypeOK`. *Proved.*

### WebSession and CliLogin

`CliLogin` is the promise of `flowo login` in four states: a session is approved
once, at most one API token is made for it, and the CLI gets it once or nobody does
(`Orphan`: an approval that outlives its session makes a token nobody will have).
`WebSession` has the tabs of one browser (`tabs`, each with its copy of the token
and the two flags of `login.tsx`), the requests with the token each was sent with
(`calls`), and the device session with `_CLI_LOGIN_LOCK`: `TakeApproval`, as far as
the await of the new token, and `MakeToken` or `MakeFails`, after it: a COMMIT that
fails, or is followed by a refresh that does, leaves the session to be approved again.
A token that was committed so is not counted in `apis`: its text is lost.

- `KeepsCliPromise`: WebSession implements CliLogin under
  `session <- Session, tokens <- apis, has <- (cli = "has")`. *Proved.*
- `ApprovedMeansIt`: a tab that says the CLI is logged in is right, unless the
  server was restarted. *Proved.*
- `TabsRest`: the login page and the interceptor do not send each other the user
  for ever.
- `WsTypeOK`. *Proved.*

### Accounts

`UserManager.create` in its steps: `Check` reads the policy and the invitation,
`Join` marks and inserts in one COMMIT. Then the settings sections as tables of what
they read (`KeysOf`), offer (`Offers`), change (`Apply`) and invalidate (`Refreshed`),
while another administrator does the same (`Others`). A read (`Read`) asks who reads
first: the lists of members and invitations and the policy are refused to who is no
administrator any more, also by their own click, and the page keeps the old rows. `Holds`
is what the database has, whoever asks. A change may fail before its COMMIT or after it,
or its answer be lost (`Fail`): the page hears of an error and reads nothing again.

- `InvitationKept`: a registration that fails costs no invitation, and one that
  succeeds leaves none that could be used again. *Proved.*
- `OwnChangesShown`: a section shows what the changes made on it led to. Exceptions:
  what others changed; invitations sent and the Git remote saved, whose lists the
  code means to refresh but names with a key wrapped twice; tokens changed on the
  profile page, seen in the settings; a change that was committed and then answered an
  error; an entry whose last read failed or was refused; first requests. *Proved.*
- `ShownOnce`: the secret of a token is not shown again by closing and opening
  dialogs. *Proved.*

### GitBackup

`sync_catalog_with_git` as far as each await (`Begin`, `Clear`, `ReadRows`, `Write`,
`Push`, `Finish`), with `RunFails` wherever it waits for the database or Git, other
exports of the same workspace, `Crash`, and the handler `handleGitBackup` of the page,
which goes on when its page is left (`Reopen`). `Drop` is a run that ends and records
nothing, on a live server, too: a remote for all users is set (`sync.py:56`), the user's
was removed after the click (`:70`), or the run has failed and recording that fails, which
is swallowed (`:135`).

- `SyncedIsPushed`: a success that is reported holds at least what the catalogs held
  at the click; unless two exports overlapped or the disk failed. *Proved.*
- `ToastEnds`: the message that loads ends, unless the last poll met another run's status.
- `BackupSettles`: the status that disables the button does not stay at running,
  unless the run it names died with the server or recorded nothing (`Drop`).

### ResultTree

The tree of outputs: `listed` (the children of the folders), antd's own set of
loaded folders (`settled`) beside the component's (`loaded`), and listings in flight.

- `FoldersFill`: an open folder shows what the server answered for it, in whatever
  order listings come; unless one failed or the root was read again. *Proved.*

### DagPreview

The files `dag.svg` and `dag_error.txt`, the registry `_generating_job_keys`, the job in
its thread (`JobClears`, `JobDraws`, `JobWrites`, `JobDies`, `JobEnds`), a POST that
sweeps and then starts (`PostLooks`, `PostSweeps`), and the effects of the component,
of which several may be alive while a new one replaces them.

- `WaitsForSomething`: a page that polls polls for a job under way, a picture or an
  error; unless a POST swept what an ending job had just written, or a job or the
  server died. *Proved.*

### CatalogPages

The list with its dialogs, the page of a catalog and that of the template, over the
query cache: what is in view (`InView`), what each callback invalidates
(`Refreshed`), the import from Git in its steps and the two dialogs that lead to it.
`source_url` (`src`) stands for all metadata: it is what the edit dialog saves and what the
check of collisions compares. `CheckImport` is that check, `WriteImport` the COMMIT of
the row with its source, `WriteFiles` the scan and the files after it; `FailImport` ends
an import before, between or after them. `Apply` is what a save, a deletion or a pull
does as far as COMMIT, after which `Serve` answers, or `Fail` does: the removal of the
files of a catalog that is deleted already may raise. After each failure the page hears
an error and reads nothing again. A read that fails keeps the old rows, but on the page
of a catalog, which says "Catalog not found" (`Lose`).

- `CatalogsShown`: when nothing is under way the pages show what the changes made on
  them led to. Exceptions: others' changes; files and runs of a catalog, pages opened
  by a slug or kept after a deletion, which no callback invalidates; a change that was
  committed and then answered an error; an entry whose last read failed; first
  requests. *Proved.*
- `NoUnaskedOverwrite`: an import replaces another source's catalog only after the
  dialog has named both; unless, while an import or its dialog is pending, the form
  is changed, or the source of a catalog is: by someone else, or by a save of the edit
  dialog that was still under way. *Proved.*

### WebPages

Composes the six modules above for TLC. They share neither tables nor page state, so
interleaving them shows nothing: `page` picks one of them for each behaviour, and the
cache, the requests and the event counter are that one's.

- `WebTypeOK`: the types of the six, among them that no two catalogs have one id and no
  two dialogs are open at once. *Proved.*

## The runs

| run | instance | what it shows |
|---|---|---|
| `ingest_reliable` | 1 run, 2 jobs, 3 row keys (one job may be started twice), 6 reports, no loss, fair | mirror, verdict, settling |
| `ingest_errors` | 1 run with the jobs 0 and 1, 2 keys, 4 reports of every kind that concerns errors, 1 loss, 1 late report, 1 death | types, no early SUCCESS, explained tables, no made-up failure, SUCCESS is final |
| `ingest_two_runs` | 2 runs of 1 job, 3 keys, 4 reports each, 1 loss, 1 late report | contexts point home |
| `ingest_success_mail` | 1 run, 4 reports, no loss | **violated**: a run with an error ends with a success mail |
| `listener` | 2 streams, 2 channels, queue of 1, 2 notices, 2 lost connections, 1 check, 1 cancellation, fair | streams are heard, the cache is true, the lock moves on, types |
| `listener_deaf` | 2 streams, 1 health check | **violated**: a stream that hears nothing |
| `runs_page` | 3 runs, pages of 1 or 2, names with a trailing blank, a queue of 2 (100 in the code), 3 clicks, outside changes, interruptions or failing reads, fair timer | a quiet list is exact, a search settles |
| `run_view` | 3 jobs of 2 rules, a queue of 1 (100 in the code) so that it fills, 2 clicks, changes, interruptions or failing reads | panels agree, the page exists |
| `admin_delete` | 1 run, 2 keys, 4 reports, 1 late, 1 deletion or pruning | deleted is gone, pruning spares |
| `admin_hang` | 1 run, 1 key, 3 reports, 1 request, fair | **violated**: a report that is never served |
| `catalog_files` | 2 paths, 2 bodies, 1 importing and 1 exporting client, 3 requests, exports may fail | the catalog's four invariants |
| `web_pages` | one of: 2 tabs, 2 JWTs, 4 events; 2 registrations with 1 invitation, 3 events in the settings; 2 backups with 2 polls (30 in the code) and 3 other events; a tree of outputs with 5 events; 2 viewers of a picture with 2 polls (90) and 3 events; 2 catalogs and the template with 2 events; fair | the fourteen properties of the six modules, liveness included |

Why these bounds are enough: a stale map needs one lost answer and one more report of
the same job; a repeated job needs two keys for one job; confusion between runs
needs two runs and one key more than either has jobs; reports are bounded so that
start, description, end and close of a job all fit beside one fault. The listener's
hazards need two streams on a shared channel, and two losses to see a reconnection
fail to restore what an earlier one left. On the list of runs, three runs on pages
of two make a last page that a deletion empties, and three events are a click, a
change and an interruption in any order. Two paths are one Snakefile, which decides
the status, and one that is not; two bodies tell a changed file from an equal one;
three requests are an import, an import that turns a path into the other kind, and an
export. Two tabs and two JWTs are what it takes to send each other away; two
backups (numbered in the order they are asked for, `Numbered`, for their `uuid4` names are
only compared), to overwrite each other's status; two viewers, to be swept by each other;
and where a loop of polls is cut from thirty or ninety to two, the properties speak
only of its first, its last and its other rounds. `SYMMETRY` is used for row
keys and bodies, which are only compared, in runs without liveness.

`CHECK_DEADLOCK FALSE`: every instance ends when its bounds are used up or its run is
closed; FlowO may really fall silent then.

## Fairness

- `ReportIngest!Fairness`: the event loop keeps serving queued requests, and the
  plugin, blocked in its HTTP client, takes the answer that arrived. Snakemake is
  never obliged to log another event or to end.
- `PgListener!PgFairness`: a coroutine whose await is over is resumed (weak), and
  `asyncio.Lock` wakes its waiters in turn (strong, for `TakeLock`). Clients are
  not obliged to connect or leave.
- `WorkflowAdmin!AdminFairness`: the event loop, unless it is blocked, serves reports
  and resumes the request that has begun.
- `RunsPage!RpSpec`: the timer of the name field fires. Everything else about that page
  is safety.
- `WebSession!WsFairness`: what is asked is answered and the answer is heard, effects
  run. Nobody is obliged to click, and no token to expire.
- `GitBackup!GbFairness`: the event loop runs its tasks, requests are answered, and the
  page's handler goes on when its timer or its answer is there.

## What is proved

Every theorem holds for all values of the constants, from the named assumptions of
the modules only. Each safety property below is implied by an inductive invariant
that was first checked by TLC and is proved action by action.

`ReportIngestProofs`, assuming only `NoneAssumption` and `RowAssumption` (the value for
NULL is no run, key or name, and no row of `jobs`): `TypeCorrect`, `ContextsLeadHome`, `NothingSucceedsEarly` and
`SuccessStaysFinal`, that is `Spec => []TypeOK`, `[]ContextPointsHome`,
`[]NoEarlySuccess` and the action property `SuccessIsFinal`. None of the safety
properties is inductive. `IngestInv` adds `RowsDrawn` (a row's key was drawn from
the sequence, so a fresh key is no row and in no map) and `ReportsTrue` (a
`job_finished` that waits in the network is about a job Snakemake has finished, so
serving it late is still right: Snakemake never un-finishes a job). A context changes
only where a handler answers, and there it is the request's context with the fresh
rows of this very run mapped; that an answer's or a request's context still points
home after someone else's step follows because rows keep their workflow and their job
for life. For `SuccessIsFinal`, `FinalInv` adds `PostedOnce` (a run posts at most one
`workflow_started` and one close, and nothing after it) and `MadeAndClosed` (no
workflow is there while its making is still asked for, and none is SUCCESS while its
close is): the only handlers that could touch a SUCCESS have nothing left to serve.

`TablesStayExplained` and `FailuresAreReported` come from `ExplainedInv`: a row is written
where its event is stored as processed, and the log is never shortened. What has to be
known besides is that contexts lead home and that no error on its way names two rules.
`RowsFollowSnakemake` and `VerdictIsRight` have the hypothesis `Reliable`: no report is
lost or late, and no group error concerns the job numbered 0, which the handler takes
for none (`dispatch/handlers.py`). `MirrorInv` follows the one report or answer a run
may have under way: what the rows miss is exactly what that report says (`UpToReport`),
and what the context misses is what that answer brings. Crashes and any number of runs
are in it.

`WorkflowAdminProofs`: `AdminTypesCorrect`, `DeletedStaysGone` and `PruningSparesRuns`. Four facts are added to make
them inductive. Every row refers to a workflow that is there (`ForeignKeys`), so a
workflow that is gone has none. A run asks for its workflow once, and while it asks
the workflow is not there and was not deleted (`BegunOnce`), so no late report makes a
deleted one again. A transaction that has deleted a workflow has left no row of it but the
errors it deletes, too (`Held`): whoever would add one needs the workflow's row and
waits for its lock (`WaitsForDeleted`). And the rows an UPDATE is for do not go before
COMMIT (`Fits`). `HandlerGrows` says once for all nine handlers what a report can
add to which workflow.

`PgListenerProofs`: `PgTypesCorrect`, `OpenStreamsHeard` and `ListeningStaysTrue`.
`CalmInv` says, as long as no check and no cancellation has come: while the
connection is up, what is cached is what is heard, and every channel somebody has
subscribed to is heard; an open stream is enrolled in each of its channels, and one
that subscribes in those it has passed. Only the holder of the lock enrols or
listens, and a stream leaves a channel before it stops listening to it.

`WebSessionProofs`: `SessionTypes`, `ApprovalsMeanIt` and `SessionKeepsPromise`, the
refinement `WsSpec => CliLogin!Spec`. `WsInv` says that the lock belongs to the
approval that is making a token; that a tab whose approval is under way keeps its
session's key, so it asks for no other; that no token exists while one can
still be made; and that a session goes before its CLI knows of it only by a
restart. Each step then maps to a step of CliLogin or to a stutter: `TakeApproval`
and everything about tabs to a stutter, `MakeToken` to an approval or, if the session
has gone, to an orphan.

`CatalogProofs`: `CatalogTypesCorrect`, and three theorems whose hypotheses are the
conditions under which the code keeps its promise (without them, see 25 and 26 below).
`PathsStayOneKind` is for one importer (`OneImporter`) and any number of exporters:
`KindInv` says that the transaction of an import sees each path as one kind after
each of its statements, which is what its COMMIT then makes true. `BlobsKeepBytes`
supposes `ImportersFinish`, that an import which has written sidecars commits, because
the disk does not roll back: `BytesInv` says the sidecars fit the committed rows while
nobody imports, and the rows the transaction sees while somebody does. `FreshStaysExported`
adds what an export has done at each of its steps (`ExportIsTrue`) as long as no
requests have overlapped, and that only a step which sets `torn` leaves the disk
behind the status.

`RunViewProofs`: `RunViewTypesCorrect`, `PanelsComeToAgree`, `TablePagesExist`. Either
something that is still to happen makes the page read again (`Behind`: a notice, the
delay, a stream that is not connected), or every panel that is fresh shows the jobs of
now and every answer on its way was read from them (`UpToDate`). `TableInv` adds that an
answer counts no more jobs than there are by now, for jobs only start: so a page of the
table that existed in an old answer exists in a new one.

`RunsPageProofs`: `RunsPageTypesCorrect`, `QuietPageIsExact`. The same argument needs more
here, because the page ignores notices: an update of a run it does not show, and any
update when its rows have changed since. `ListInv` therefore splits the entries. A list
without a filter by status (`Steady`) is at every moment a correct page of the right
runs, in which only the status of a run with a notice on its way may be old (`Like`);
any other entry is right once no notice is on its way. Insertions and deletions are
never ignored, so they make the page `Behind` while they come. The attempt to prove
it without the exception for a full queue failed for a reason that is in the code: with
the kept notices all ignored, nothing tells the page of the dropped one.

`WebPagesProofs` has what is proved of the composition, as `web_pages` checks it. It
needs `PagesAssumption`: bounds are numbers, and those of JWTs, tokens, backups and polls
positive; the values for nobody, no code and no address are none of their kind, and `Missing` is no
template; the user is one of the people, and there are values and addresses to type; the slugs are finitely
many, no more than the ids, and one of them is derived from the address;
and the tree's paths, which hold its folders, are sequences closed under non-empty prefixes, as
those of a disk are.

- Session: `PagesKeepCliPromise` and `PagesApproveRightly` carry the theorems of
  WebSessionProofs over: in every step of another page the session's own variables stay, and
  the instance of CliLogin in WebPages equals the one in WebSession action by action.
- Accounts: `InvitationsKept` (inductive once a registration that was let in by an
  invitation is known to have named one) and `SecretsShownOnce`, for which `SecretsInv`
  says that no two answers still to come carry the same secret, that none of them was
  ever in a dialog, and that only the settings keep the secret of a dialog they have
  closed, which opening it again drops.
- Backup: `SyncTellsTrue`. `BackupInv` says that, unless exports overlapped, one export at a
  time touches the workspace, which holds what the run read until it has pushed it, and that
  is at least what its click saw; and that a success names a run that succeeded, in the
  status, in what a page has read of it and in what it tells (`Honest`), which stays
  true because a run that succeeded is over. A run that fails forgets what it read
  (`Ended`), so that none of this speaks of it.
- Outputs: `OpenFoldersFill`. `TreeInv` says that a folder is asked for at most once, that one
  antd takes for loaded has its children unless it was spoilt, and that a listed folder
  is still in the tree, which is what lets an answer find its place.
- Pictures: `PollsForSomething`. `DagInv` says that the registry knows of the job, that a job
  which has written leaves a picture or an error, and that an effect which waits
  has seen one of these or the start of a job.
- Imports: `OverwritesAreAsked`. `ImportInv` says that what an import checked still holds
  until it is written, and that both ways out of the dialog over the form (insist, rename)
  were reached by way of it, with the address the form still has; all of it unless
  `loose`, which a save that changes a source meanwhile sets, too.
- Settings and catalogs: `SettingsShowChanges`, `CatalogPagesAreRight`. Both rest on lemmas
  about the shared cache: each action on an entry leaves it telling the truth, on the way
  to it, or noted as `missed` (`Tells`, `TurnTells`, `InvalidateTells`, `ReadsTell`, the
  reads that fail included). `SettingsInv` and `CatalogsInv` say that an entry tells the
  truth, that is `Holds` and not what its reader may see, unless a callback that is still
  to come invalidates it (`Due`, `Awaited`), or it is noted as `missed`; for the catalogs
  this needs `ImportInv`, because what an import changes depends on which dialog it came
  through.

- Types: `PagesTyped`, that is `[]WebTypeOK`, the types of all six pages at once. Most conjuncts
  follow from the invariants above. What they lack is kept beside them: the versions in
  a backup are no newer than the edits (`BackupLimits`); what is listed is on the disk and
  what is selected is in the tree (`TreeOfDisk`); requests carry arguments of their kind
  (`AccountsLimits`, `PictureTypes`); catalogs are numbered without repetition, every
  cached or expected answer carries known sources, and of the dialogs of the list at most
  one is open (`CatalogsLimits`).

Every invariant of the passing runs, and every action property and refinement among
their properties, is now stated by a theorem, some under a hypothesis that their
paragraph names.

Only model-checked, because it is liveness, which needs fairness and ENABLED:
`ClosedRunSettles`, `LockMovesOn`, `SearchSettles`, `TabsRest`, `ToastEnds` and
`BackupSettles`. The three runs that are expected to be violated need no proof: the
counterexample is the result.

## Where code and words differ

Each was met while modelling. The first three are runs.

1. `app/services/reports/finalizer.py:45` draws the verdict from job rows alone: a run
   that reported an error outside of a job is closed as SUCCESS and its user gets
   "All jobs completed without errors" (`app/services/notification.py:98`) after the
   failure mail. (`ingest_success_mail`)
2. `app/core/pg_listener.py:215`: a health check that queries while the last stream of
   a channel leaves makes UNLISTEN fail; the error is swallowed, the channel stays in
   the cache, and the next stream of it hears nothing. (`listener_deaf`)
3. `app/services/job.py:194`: a report that needs a row an unfinished deletion has
   locked blocks the event loop that would finish the deletion. (`admin_hang`)

Reports and administration:

4. `app/services/reports/dispatch/handlers.py:145` inserts a row for a job that is
   started again; `docs/architecture/data-flow.md:9` speaks of upserts, and the old
   row's ERROR decides the verdict.
5. `finalizer.py:52` gives jobs that never finished the run's SUCCESS, which
   `docs/user-manual/jobs-logs-errors.md:26` reserves for finished ones.
6. `app/services/job.py:198` commits before the workflow is deleted; a report served
   in between makes the second transaction fail after jobs, files and rules are gone.
7. `app/services/job.py:195` deletes rules before the errors that refer to them: a
   workflow with an error that names its rule cannot be deleted.
8. `app/services/workflow.py:435` prunes workflows without their rules, so one jobless
   workflow that reported its Snakefile's rules makes every pruning fail.
9. `app/services/workflow.py:459` updates the jobs it selected without looking again:
   a `job_finished` served in between is overwritten.

Live pages:

10. `app/core/pg_listener.py:163` adds a queue before LISTEN, outside of the `try`
    that removes it: a failed LISTEN leaves it for ever.
11. `frontend/src/config/workflowRealtime.ts:231` reads when the response begins, not
    when the server listens: a change in between is not shown, against
    `docs/index.md:9`. Nor is one that comes while the listener replaces its connection
    (`app/core/pg_listener.py:198`): the stream stays open, and the page shows ONLINE. The
    properties of the pages except what was `missed` so.
12. The list of runs: `WorkflowTable.tsx` keeps a page beyond the last one when a filter
    by status empties it; the timer of the name field throws the user back to the first
    page even if only a blank was added; a deleted run may stay in view when its
    deletion meets the first request; the field may keep a trailing blank that is not searched.
13. The page of a run: the log and the detail of a job are tagged `jobs`, which nothing
    invalidates, and files have no tag; the graph is fitted after 100 ms, loaded or not
    (`frontend/src/components/job/dag/Dag.tsx:199`); the circle of
    `WorkflowProgress.tsx:45` counts what was sent with another answer than the table.
14. The statistics of the dashboard are tagged `summary` and never invalidated
    (`docs/architecture/data-flow.md:26`).

Session and accounts:

15. `frontend/src/routes/login.tsx:56`: a tab with an expired token that is sent back to the
    login page does not approve the CLI until it is reloaded
    (`docs/user-manual/login-cli.md:22`).
16. `frontend/src/auth.tsx:31`: a refusal of an old request removes the token another tab
    has just stored.
17. `app/core/users.py:59`: two registrations at once may share one invitation.
18. The lists of invitations and of the Git settings are not read again after a
    change: the key they invalidate is wrapped in a second list. A token made or
    deleted on the profile page does not refresh the settings' list.
19. `AdministrationSection.tsx`: a switch sends the whole policy the page has cached, and
    undoes what another administrator changed meanwhile. The form of the mail server is
    overwritten when its query is read again.
20. A secret is lost unseen if the dialog is closed while the token is made.
21. `frontend/src/routes/verify.tsx`: the effect sends the verification again after each failure.

Backup and catalog:

22. `app/services/catalog/git_ops.py:124`: with `CATALOG_GIT_REMOTE` set, a backup leaves its
    status at running (`sync.py:58`), and an import skips the check of collisions. So does a
    remote that is removed after the click (`sync.py:70`), and a failure that cannot be
    recorded (`sync.py:135`): the button stays disabled.
23. `app/services/catalog/sync.py`: an `OSError` while a catalog is exported is logged,
    and the backup still reports success; when exports overlap, an emptied workspace may be
    pushed; the push blocks the event loop; after a crash the status stays running for ever.
24. `CatalogList.tsx:435`: when the last poll meets another run's status, the handler
    leaves its loop without a message, and the one that loads stays.
25. `app/services/catalog/service.py:384` says a workspace is stale after an import
    until it is materialized; an import that commits between an export's read and its
    COMMIT leaves an outdated workspace as fresh.
26. `app/services/catalog/catalog_storage.py:483`: two imports at once can leave a
    path both a text file and a binary; `:526`: an import that fails after writing a
    sidecar leaves bytes its row does not name.
27. `app/services/catalog/service.py:337`, `git_ops.py:196`: a deletion whose files cannot be
    removed, and an import whose files cannot be read, answer an error after their COMMIT;
    the page keeps a catalog that is gone, or the old source. (An administrator who removes
    their own flag keeps the old list of members likewise, `UsersSection.tsx:25`.)
    `CatalogList.tsx:298`: imports and deletions do not invalidate the page of the one
    catalog or its files; a page opened by a slug is not read again after an edit of its
    metadata; the catalog's runs are tagged `catalog` and never follow the runs.
28. `EditCatalogModal.tsx:113`: a refetch overwrites what was typed. The dialog about a
    taken slug sends what the form holds when it is clicked; if a save has changed the
    catalog's source since, "Overwrite" replaces one the dialog did not name. A late answer of a
    deletion closes another dialog. An open editor tab keeps the content it had first.

Pictures and outputs:

29. `app/services/third_party/snakevision.py`: a file that is half written may be shown;
    a picture is not removed by an edit of the catalog; "Regenerate" of the dialog asks
    for what is there already; a page polls in vain after a sweep, a restart or the death
    of the job.
30. `ResultViewer.tsx:65`: a folder whose listing failed, or one that was open when the
    root was read again, stays empty.

## Not modelled

Parsing of Snakemake's records, the console and the local log file; mail templates and
SMTP; the dashboard, timelines of days and MCP queries, which only read; the contents of
files and the resolution of paths; rendering. Of the catalog: `git_pull`, a remote for
all users, several slugs in one repository, that the repository may change between the two
clones of an import (one to check its slugs, `git.py:224`, one to import them, `:307`),
archives, and the template's rows and edits; a source that is null, which the request of
the edit dialog leaves out (`endpoints/catalog.py:357`), or that is cleared there. Of
pictures: the deletion of a catalog, which removes its picture and error file
(`service.py:339`): a page that polls for them then polls in vain until it gives up. Of accounts: the expiry of invitations, password reset and verification. The
update of a workflow's name and tags. Migrations and deployment, except the triggers,
foreign keys and the single worker the models rely on: the lock, the listener and the
CLI's sessions are in the memory of that worker.

## What could still be done

1. An abstract register, read at or after each notice, that RunsPage and RunView
   implement.
2. The template's rows with a pull against an edit, and `git_pull`.
