# Receipt-to-Excel: TLA+ models and proofs

Receipt-to-Excel turns scanned receipts and card statements into expense
reports. A FastAPI backend (`src/app`, one uvicorn worker, asyncio, SQLite)
parses uploads in background tasks, streams progress over server-sent events,
stores transactions for review, and generates XLSX and PDF artifacts; a React UI
(`src/ui`) drives it. This directory specifies the parts whose correctness
depends on the order of steps or on arithmetic at a boundary, checks them with
TLC on small instances, and proves the central results with TLAPS.

All paths below are relative to `src/`; `sessions.py` and `templates.py` are in
`app/api/routes/`, `event_bus.py` and `runner.py` in `app/services/jobs/`,
`*_repo.py` in `app/db/repositories/`.

## 1. Inventory

| Component | State | Operations | What is hard | What makes it correct |
|---|---|---|---|---|
| Event bus (`event_bus.py`) | channel per session: backlog, listener queues | publish, subscribe (replay, live), cleanup_session | a subscriber suspends in the replay, in `queue.get` and at each yield; channels outlive their entry; clients disconnect anywhere | order, no duplicates, exact delivery once registered, streams end, no queue left behind |
| Job runner (`runner.py`) | coroutine per job, one shared semaphore | run | jobs interleave at the semaphore and the parser; failures at each call | permits conserved, no lost wake-up, no starvation, events tell the progress |
| Upload session (`sessions.py:75-226`) | row status, disk files, in-memory disk map, rows | POST /sessions, background task | commit before the files are written, done before the rows are, failing failure handler, restart | rows all or none, status agrees with stream, rows point to their files, sessions settle |
| Matcher (`app/services/matchers/`) | loop variables | match | ties, missing times, the tolerance | one-to-one, the nearest compatible card, every expense once |
| Parser router (`app/services/parsers/`) | one call | detect, fall back, parse | tiers that raise, pages of several slips in columns, models that make up numbers | no tier skipped, a transaction for each slip of an aligned page |
| Review and provisioning (`sessions.py:75-126`, `292-520`, `templates.py:130-192`, `expense_record_repo.py`, `user_repo.py`) | users, sessions, templates, expense records, SQLite's write lock, the identity map of a request | create, upload a template, list, patch, bulk-tag | SELECT then INSERT, stale reads, rollback on every error path | edits whole, no field written back, users come with an upload, the lock given back |
| Templates (`templates.py`, `template_repo.py`) | rows, files, the session's choice | create, cells, mapping, rename, delete, readers | file and row change in different steps, ids are reused, workbooks are rewritten in place | a row has its file, the session keeps its template, overrides stay |
| Analyzer (`app/services/templates/analyzer.py`) | none | analyze | two ways to name columns, sheets without either, the sum row | data rows end above the totals |
| Injector (`app/services/templates/injector.py`) | none | inject | no route calls it | see the remarks |
| XLSX writer (`app/services/generators/xlsx_writer.py`) | workbook being written | write, insert row, regenerate sums | rows up to the totals, formulas and merged cells inside the data rows | one line each, one total each, formulas kept |
| Generation and download (`sessions.py:523-756`, `generated_artifact_repo.py`) | files in the output directory, artifact rows | generate, download | files before rows, concurrent requests, no look at the status | a generation is whole unless others overlap it |
| Authentication (`app/core/auth.py`) | JWKS cache | verify, refresh | await between check and store | fresh keys |
| Upload guard, file manager, resolvers, dashboard, autocomplete, health, logging, configuration | none of their own | checks, paths, look-ups, queries | boundaries | see section 6 |
| UI upload page (`ui/src/pages/UploadPage.tsx`, `lib/sse.ts`, `stores/upload.ts`) | last event, subscription, timer | subscribe, push, navigate | an effect that depends on what its handler changes | done leads to the review |
| UI review page (`useTransactions.ts`) | query cache | optimistic patch | rollback to an old snapshot | see section 6 |

Interactions: `POST /sessions` commits a row, writes the files, fills
`app.state._disk_filename_map` and queues `_run_job_background`; that task awaits
`JobRunner.run`, which calls the router for each receipt, matches receipts with
card transactions and publishes on the bus; `GET /sessions/{id}/stream`
subscribes with replay; after `run()` the task stores rows and the final status.
The review endpoints add expense records to the rows; `generate` reads both,
analyses the session's template and writes it. Requests share nothing but the
database, the storage directory and `app.state`.

`PROJECT.json` lists the hazards of the code at their lines; the properties
below are aimed at them.

## 2. Plan

| Modules | Composition | Status |
|---|---|---|
| `JobEventBus`, `EventStream` | the bus implements the abstract log | modelled, refinement checked and proved |
| `JobRunner`, `UploadSession` | UploadSession extends JobRunner | modelled, every safety property proved, the refinement too |
| `TransactionMatcher`, `TemplateAnalyzer`, `XlsxWriter`, `ExpenseWorkbook` | ExpenseWorkbook runs matcher, analyzer and writer in turn | modelled, every property proved |
| `TemplateRegistry`, `ArtifactGeneration` | ArtifactGeneration extends TemplateRegistry | modelled, every property proved |
| `ExpenseReview` | | modelled, every safety property proved |
| `UploadPage` | extends EventStream, in place of the bus that implements it | the stream's part of the page |
| `ParserRouter` | | modelled, every property proved |

Every safety and action property of the passing runs is a theorem. What could be
added: the composition of session, runner and bus in one state space, where today
the events a job published are a sequence of `JobRunner`; the UI's optimistic
cache.

## 3. What is modelled

The event loop runs one task at a time, so an action is the code between two
suspension points: everything a handler does before its next `await` or `yield`
that can suspend is one step.

### JobEventBus (`event_bus.py`) and EventStream

`channelOf` is `_channels`; `backlog` and `listeners` belong to channel objects,
because a generator keeps the object it looked up (`attached`) when
`cleanup_session` drops the entry. Events are numbered in their backlog.
`Publish`, `CleanupSession` are whole steps. A generator goes from `Subscribe`
(its first `__anext__`: the lookup, the copy of the backlog, the first yield, or
registration when there is nothing to replay) through `ReplayNext`, `ReplayDone`
and `Deliver` to `StopOnTerminal`, `StopOnSentinel` or `Cancel`, which all run
`Leave`, the `finally` clause. `received` and `joined` are history variables.

`EventStream` is what consumers are promised: a log per channel, readers with a
position in it that read in order, skip once, at the moment of joining, to the
end of the log, and stop at a terminal entry or when the log was dropped. It has
no queues, no copies and no listener sets. `JobEventBus` instantiates it as
`Stream` with the positions computed from copy, queue and received events.

Properties: `InOrderOnce`, `NothingAfterTerminal`, `ListenersAreLive`,
`MissedOnlyBeforeJoining` (a registered listener misses exactly what was
published between its copy and its registration) and `StreamInv`, their
inductive strengthening; `QueuedEndEndsStream`; `ImplementsStream`.

### UploadPage (`ui/src/pages/UploadPage.tsx`)

The page reads the stream of its session; since the bus implements `EventStream`,
the page is put on top of that. It has one `EventSource` at a time, so one reader
that starts anew (`Close`). `Send` is the server's side, `Receive` one task of the
browser: the handler, the update of the store, the commit that React makes of it
in a microtask (`useSyncExternalStore` updates are synchronous), and the effects
of that commit. Events sent on a closed source are dropped. `Navigate` is the
timer that `done` starts. Property: `DoneLeadsToVerify`.

### JobRunner (`runner.py`)

`Run` is `run()` up to its first suspension: without receipts that is all of it.
`FileParsed` and `ParserRaises` are the parser's answers; the last receipt's
answer includes the statements, matching, the final event and the return
(`FinishRun`), because nothing there suspends. `value`, `waiters` and `woken` are
`asyncio.Semaphore` of Python 3.12: a resolved waiter stays in the queue until
its task runs (`Resume`), newcomers stand behind it even if a permit is free,
and it passes such a permit on. `Halt` is the end of the process. What a file
contains is a choice of 0 to `MaxTx` transactions, matching any one-to-one
choice. `StatementParser` is what `main.py` injects: none, one that accepts
`suffix`, or `parse_xlsx`, which does not.

Properties: `PermitsConserved`, `NoPermitIdle`, `ProgressProtocol` (the exact
event sequence at every point of a run); `RunEnds`.

### UploadSession (`sessions.py:75-226`)

Extends JobRunner; `Job` is the set of sessions. `CreateSession` is the request
up to its commit, `StoreFiles` and `StoreFails` what follows it, `RunJob` and
`JobStep` the awaited run with what the task does before its next database call
(`AfterRun`), then `Commit`, `CommitFails`, `MarkFailed`, `MarkFailedFails`.
`Crash` ends the process and starts it again: rows and files stay, coroutines,
map and staged objects go, and nothing takes up a session again. A disk name
(a random UUID) is the number of its file.

Properties: `RowsAllOrNothing`, `StatusFollowsStream`, `RowPointsToNamesake`;
`ParsingSettles`.

### TransactionMatcher (`transaction_matcher.py`, `runner.py:196-223`)

`Examine` is one turn of the inner loop (the tests, then `Improves`: an equal
difference does not replace the first candidate, a missing time on either side
counts as beyond every difference), `Settle` the turn of the outer loop that
ends with it. `Reconciled` is the list the job stores: matches, receipts alone,
cards alone, each kind in the order of its list. Transactions are records of
date, amount and time. `InOrder` lists the elements of a set in a total order;
it is used here and for the `ORDER BY` of `list_for_session` in place of the
library's filters and sorts, of which the prover has no definition.

Properties: `OneToOne`, `GreedyChoice`, `EveryExpenseOnce`.

### TemplateAnalyzer, XlsxWriter and ExpenseWorkbook

A sheet is its title, its type, rows 7 and 8 as keywords, the merged ranges, and
the cells from row 9 on: blank, old content, a formula, a sum over rows, one of a
merged range but not its first (`Merged`), or what the writer puts there (a date,
a party or an amount *of* a transaction). The dictionaries of the code
are sequences of their items, filled by folds whose steps (`AddFree`,
`SetDefaults`, `AddSheet`) are operators of their own. `Analyze` gives the
configurations `analyze_workbook` gives, with its three ways to skip a sheet and
its placeholder. `XlsxWriter` goes through `Clear`, `SkipRow`, `WriteRow` and
`Save`; openpyxl raises when the value of a `Merged` cell is set, which ends the
writing (`ClearFails`, `WriteFails`). `InsertRowAt` and `RegenerateSums` are
operators, evaluated by a property for each place a row can be inserted at.
`ExpenseWorkbook` composes: the matcher runs, its result is stored, each
transaction gets an expense record or none, and `Generate` hands them to the
writer by date.

Properties: `FormulasKept`, `OneLineEach`, `TotalsCountEachOnce`, `SumRowKept`,
`GrowthKeepsTotals`, `LinesInDateOrder`.

### ParserRouter (`app/services/parsers/`)

One call of `parse`: `Probe` (detection; text is read in a thread), `RuleEnds`,
`OcrAnswers`, `LlmAnswers`, and the errors that no `except` clause catches,
`DoclingRaises` and `OllamaRaises`. A file is what the detectors and regular
expressions find in it. The rule parsers are the order in which they miss
fields and the error each raises, or that pdfplumber cannot open the file, which
is no `ParseError`. A Woori page is its rows, each one line across the page or one
in each of two columns (`Row`). `ColumnCount` is the number of markers in the first
row that has one; `Joined` is what a row becomes in the text of the whole page,
`Cropped` in that of one column, where a line across the page is cut to pieces;
the texts (`ColumnTexts`) are cut by `SplitByMarker`. A model's answer is any combination of JSON or not, object or
not, valid or not, and five sorts of card number.

Properties: `ExhaustedAfterAll`, `CardNumberNeverFails`, `EverySlipReturned` (of
pages whose markers stand as the first of them do; what becomes of others is under
Remarks).

### ExpenseReview (`sessions.py:75-126`, `292-520`, `templates.py:130-192`)

Requests on SQLite through aiosqlite and SQLAlchemy: a step is one statement with
the code up to the next. A SELECT before the first write sees what is committed
at that moment, because pysqlite opens a transaction at the first INSERT or
UPDATE only; that first flush takes the one write lock (`writer`, `dirty`), or
fails after the busy timeout (`LockTimeout`). `loaded` is the identity map of a
request's session: rows in it are not refreshed by a later SELECT, and an UPDATE
names only the fields that differ from what was loaded (`Changed`). `Answer` is
the end of a request: its session is closed, which rolls back. `Failure` is
bulk-tag's `except`. Every endpoint calls `get_or_create_by_oid`; the two uploads
go on with `InsertSession` and `InsertTemplate` (or `RejectTemplate`, the 422
answers that come after the user's INSERT). An INSERT of a session fails for a
`template_id` that does not exist, and so may each commit (`CommitFails`). `Crash`
ends the requests under way; those that have issued no statement come after the
restart.

Properties: `LockHasOwner`, `UserComesWithUpload`, `WholeRequests`,
`NoFieldWrittenBack`; `LockGivenBack`.

### TemplateRegistry and ArtifactGeneration

`TemplateRegistry`: rows and the session's `template_id` under the same lock
discipline, files by template id (`file_manager` names them by id). `NewId` is
SQLite's rowid, so the id of a deleted last template is given again. `StoreFile`
and `PatchCells` write files outside of any transaction, `ReadFile` reads them;
`StoreFails` and `CellsFail` are failures of the writes, which may leave a part of
the file (`Torn`) or an empty one (`Empty`), and so may a crash; `CommitFails`
leaves the file of a row that is rolled back. An empty file is answered like a
missing one by a generation (`BuildFails`) and opened in vain by the others. After
a crash the process is started again: requests that had not begun (`NotBegun`)
run then, on the files and rows that are left. `ArtifactGeneration` adds, for one session, generations (`GetSession`,
`GetSelected`, `ReadRows`, `BuildAndWrite`, `FindOld`, `Replace`, `CommitRows`),
downloads, and the job's commit; building and writing is one step, because
nothing in it is awaited. `latest`, `wrote`, `overlapped`, `broken` are history
variables.

Properties: `TemplateRowHasItsFile`, `SessionKeepsTemplate`, `OverridesKept`,
`NoFileMissing`, `MadeFromChosen`, `QuietGenerationIsWhole`,
`DownloadFailsByOverlap`.

Definitions marked as mutants are deliberate errors, used by no specification:
substituted for the definition they follow, each breaks one property, which
shows that the property depends on that code.

## 4. Runs

| Run | Instance | Result |
|---|---|---|
| `bus` | 2 sessions, 1 generator, 2 channel objects, 3 events a channel | all hold (334 141 states) |
| `upload_page` | 1 page, a job of 3 events | **violated**: `DoneLeadsToVerify` |
| `runner` | 3 jobs, 2 permits, up to 2 receipts and 2 statements | all hold (123 444 states) |
| `runner_wiring` | the statement parser of `main.py` | **violated**: `FailsOnlyOnFiles` |
| `session` | 2 sessions, 1 permit, 2 files each, 2 names, 1 crash | all hold (132 898 states) |
| `session_same_name` | 1 session, 2 receipts, the statement parser of `main.py` | **violated**: `RowPointsToOwnFile` |
| `review` | 3 requests of 9 shapes, 3 users, 3 transactions, 2 fields, crashes | all hold (2 122 545 states) |
| `review_first_edit` | the same without a vendor 0 | **violated**: `AloneIsSaved` |
| `generation` | 2 template requests of 7 sorts, 2 generations, 1 download, 2 ids, crashes | all hold (5 742 648 states) |
| `generation_duplicates` | 2 generations | **violated**: `OneRowPerKind` |
| `router` | 1 110 files, 8 wirings, 40 answers | all hold (208 036 states) |
| `workbook` | 2 receipts, 2 cards of 4 sorts, 9 templates, 2 rows | all hold (167 362 states) |

Why the bounds are enough. Bus: three events distinguish "in the copy", "while it
is replayed" and "after registration"; two channel objects let a session be
cleaned up and published again under an attached generator; generators interact
only through the listener set, and the theorems cover every number of them.
Runner: with two permits and three jobs of two receipts a permit can become free
while a woken waiter has not run, which is where a wake-up could be lost.
Sessions: two files are enough for equal and for distinct names and for one
receipt with one statement; two sessions compete for the permit; one crash
reaches every phase. Review: a lost update needs two requests on one transaction
and a third that commits between their reads and writes; bulk-tag has one
transaction twice, one of another user and two in either order; records exist for
none, one or both of a user's transactions; the new user's first request may be a
read or either upload. Generation: an overlap needs two
generations, a stale template a deletion and an upload that takes its id again,
a kind that disappears a job that commits between two generations. Workbook: two
receipts and two cards have ties, both ends of the tolerance (300 and 301
seconds), missing times and different days; the templates have no, one, two and
three data rows, formulas and merged cells in data rows, a sum row with merged
cells, no sum row, either way of naming columns, and every sort of sheet the
analyzer skips. Router: slips are short by one line, alone and after a good one,
in either column or across the page; pages have one or two columns, a row across
them with a time stamp, a marker or a text that contains one, markers beside other
text, and more markers in a later row than in the first; files have one or two
pages.
Named bounds: `MaxEvents`, `MaxFiles`, `MaxTx`, `MaxCrashes`, `MaxId`,
`MaxReceipts`, `MaxCards`, `MaxRows`, `Columns`, `MinLines`. Deadlock is not
checked: finished requests and idle subscribers are legitimate rests.

Fairness. Bus: weak fairness of a generator's own steps (`Progress`), because
the loop resumes every runnable task and the stream endpoint keeps iterating;
none for publishing or disconnecting. Runner: weak fairness of each job's wake-up
and of the parser's answer, which a 180-second HTTP timeout bounds
(`ollama_vision_client.py:71`). Sessions: weak fairness of each session's own
step; storage and database calls return or raise. Page: weak fairness of each
kind of step: the job goes on, the network delivers, the browser runs its tasks.
Review: weak fairness of each request's step; a statement that waits for the lock is answered within the busy
timeout. A crash is never forced.

Refinement. `ImplementsStream` is `Stream!FairSpec`: the run checks that every
behaviour of the bus is one of `EventStream`, with its liveness; the theorem
proves the safety part for every instance.

### Disagreements with the repository's statements

- **Upload page.** The effect of `UploadPage.tsx:49-61` depends on the whole
  upload store, and its handler pushes each event into it: the page closes its
  stream after the first event, subscribes again with replay, is sent the first
  event again, and so on. `done` is never shown, and the page never goes on to
  the review as its comment (`UploadPage.tsx:48`) says.
- **Statement parser.** `runner.py:191` passes `suffix=`; the wired `parse_xlsx`
  takes none, so every job with a card statement fails, while the tests inject
  fakes that accept it.
- **Equal names.** `sessions.py:140` keys disk names by original name; of two
  receipts of one name the rows of both point to the later file, so that the
  "original receipt" of `sessions.py:443` is the wrong one for the first. The run
  has the statement parser that `main.py` wires, and no card statement.
- **First edit.** `expense_record_repo.py:49` inserts vendor id 0, foreign keys
  are on, and only tests create that vendor: the first edit of a transaction is
  answered 500, where `sessions.py:358` announces that it is saved.
- **Duplicate artifacts.** `generated_artifact_repo.py:22` and `sessions.py:656`
  call generating again idempotent; two generations that overlap leave two rows
  of each kind, and every download of one fails until the next generation.

### Remarks

Met while modelling; the models follow the code. An event published while a
reconnecting client is replayed the backlog reaches neither the copy nor its
queue, although `event_bus.py:6` calls reconnecting by replay stable; if it is
`done`, the client waits for ever (`MissedExactly` proves that nothing else is
lost). An error event ends the whole
job (`event_bus.py:24` calls it one file's), `done` is published before the rows
are committed (`docs/architecture/current.md:165` has it after), and an error
while files are stored leaves the session `parsing` (`current.md:278` says
failed). A second edit that changes something is answered 500 after its flush,
because `patch_transaction` reads the expired `updated_at` without awaiting it;
the test for it is skipped. A read by a new user inserts a user row, holds the
write lock and rolls it back; of two first creates of one user the second fails.
Concurrent mapping patches may drop an override (`OverridesKept` says exactly
when). A template's id may be given again while requests that read the old row
are under way. Rows that do not fit above the sum row overwrite it (a TODO at
`xlsx_writer.py:181`); the helpers that would grow the sheet are not called.
`regenerate_sum_formulas` skips sums of a single row, and `insert_row_at` does not
adjust what the formulas of the rows it moves refer to. A template whose data rows
have merged cells is registered, and every generation from it answers 500
(`xlsx_writer.py:43`); a patch of such a cell does too. `inject_named_ranges` gives
its names the suffix `config.sheet_name`, which its comments
(`injector.py:32-38`, `44`) take for the kind; since ADR-011 it is the sheet's
title, and the analyzer never looks for names with that suffix; no route calls the
function, and it is not modelled. A write of patched cells that is cut off loses
the template's file (`templates.py:289` writes in place), which no later request
repairs. `LLMDisabledError` is raised
also when `LLM_ENABLED` is true, since `main.py` wires no LLM parser. A supply
amount of zero and a date that does not exist fail the job, because they raise
what is no `ParseError`, and so does a damaged PDF whose bytes name a provider: the
search ends there, no other tier is tried. A page on which one slip is short goes
to OCR, which returns one transaction for it. The columns of a Woori page are
counted by the first row that has a marker (`woori.py:250`), and slips of a page
whose markers stand differently may be lost without an error: a first marker
beside other text starts no slip, since the page is then read across; a marker
that reaches across a page of two columns is cut by the crop, and its slip joins
the one above it. A session whose task ends
with the process, or whose failure cannot be stored, stays `parsing` for good.

## 5. Proofs

Checked by TLAPS for all values of the constants, from the named assumptions of
the modules only.

`JobEventBus_proofs`: `TypeCorrect`, then by induction `StreamCorrect`. Neither
order nor uniqueness is inductive: one must know that during a replay the
yielded events are a prefix of the copy and the copy a prefix of the backlog
(`ReplayExact`), that a live generator's yielded events and queue continue the
numbering from where it joined, without gap, up to the backlog's length
(`LiveExact`), that only a dropped channel's queues end with the sentinel, and
that channels are not shared (`ChannelsOwned`). There is a lemma per operation;
`FrameSub` carries the generators a step does not touch. `DeliveryCorrect` and
`MissedExactly` follow from the invariant.

In the same module, `BusImplementsStream`. Under `StreamInv` and its successor
each action of the bus is an action of `EventStream`, or changes nothing it
shows: a delivery reads the entry at the reader's position because the queue
continues the numbering, registration is the one jump, and the two ways to stop
are one.

`JobRunner_proofs`: `RunnerTypeCorrect`, then `SemaphoreCorrect`:
`PermitsConserved`, `WaitersAreWaiting` and `NoPermitIdle` together with the
finiteness of the set of parsers at work are inductive. A step changes one job's
membership in that set, counted by `OthersCount`, `ParsingIn`, `ParsingOut`;
`AcquireInv` is stated for any semaphore state that accounts for the other jobs,
so that it serves a first request and a release followed by a request alike.
`ProgressCorrect` needs to know that an active job still has a receipt to parse
and has announced exactly those up to it (`ProgressInv`); that two consecutive
announcements are one (`AnnounceJoin`) carries it from file to file.
`ResultsFromFiles` says where the transactions of a job come from; the sessions
need it.

`UploadSession_proofs`: `SessionsUseRunner` is a refinement: a session calls
`run()` with as many receipts and statements as it has files (`SizeInv`), so each
of its steps is a step of `RunnerSpec` or leaves the runner alone, and the
theorems about the runner hold of it. On them rests the session's own invariant
(`SessionInv`): the phase of the request or task determines the job's place and
the committed status, staged rows are the job's result while the transaction is
open and nothing otherwise, and while the map of disk names is used it is that of
the upload, which leads from any uploaded name to a file of that name
(`DiskMapFinds`, with `GreatestExists` for its `Max`). `RowsCorrect` and
`DiskFilesCorrect` follow; `StatusCorrect` also needs `ProgressInv`: a job that
returned has said `done` last, one that raised `error`.

`ExpenseReview_proofs`: the invariant `IInv` says which requests can hold the
write lock, that only the holder's changes are uncommitted, and, for each request
by the statement it is at, which of its transactions it has loaded and applied.
Its heart relates a stale copy to the database: what a request has loaded and
not changed may be old, but what it is about to commit differs from the database
only in the fields it patches. `LockIsOwned` and the action properties
`UsersComeWithUploads`, `RequestsAreWhole` and `EditsOfOthersStay` follow.

`ArtifactGeneration_proofs`, which also proves the properties of
`TemplateRegistry`: under an id no template is visible until its row is
committed, and the file is written before, so that neither a failing commit nor a
restart leaves a row without its file (`TemplateFilesAreThere`); an id is
given again only when no row has it (`NewIdIsFree`, by a least-number argument),
and deletion clears the session's reference in the same transaction
(`NoOtherTemplate`). For the generations the invariant says whose rows and files
there can be at each of their steps, and that two that are under way at once are
both in `overlapped`. `FilesOutliveRows`, `WorkbooksFromChosen`,
`QuietGeneration`, `DownloadsFailByOverlap` and the action property
`OverridesAreKept` follow.

`ListLemmas` is what the next two rest on. Induction is over a set of numbers
(`InductionUpTo`: a set that has 0 and with each number the next has all of them,
because a least missing one would follow one that is there), so no predicate has
to be instantiated; that a fold over a list satisfies the equation that defines
it (`FoldExists`) is proved the same way. With these, what `FoldLeft` and
`FlattenSeq` compute is followed element by element, for each list of the model.

`ExpenseWorkbook_proofs`, in four parts.
*Matching.* `MatchedOneToOne` and `MatchedGreedily`: what the finished receipts
have is not inductive without what the search knows half-way: `ScanInv` says that
the candidate is the best of the cards looked at. `EachExpenseOnce`: `Reconciled`
lists each of its three sets once (`InOrderLists`, by counting predecessors), and
the sets have nothing in common by `OneToOne`. `WorkbookUsesMatcher` is a
refinement, so all three hold of the transactions a workbook is made of.
*Templates.* `FormulasSurvive`: each sheet in memory keeps the shape of the
template's sheet and its formulas (`Intact`), and `safe_write` keeps that wherever
it is asked to write. `GrowthIsHarmless`: rows, merged ranges and sums move together.
*Writing.* Which line a transaction gets depends on how many went to its sheet
before it, and what a cell holds on every line written so far, so `OneLineEach`
is not inductive. `WorkbookInv` adds that the configurations are those of the
template (`GivenInv`), that each sheet's counter is the line after the last of
its own (`CountersInv`), that each cell is the template's, cleared, or what the
transaction of its line wrote, at the three columns it writes to (`WritingInv`,
cell by cell in `CellInv`), and that the transactions are in order of date
(`SourceInv`). The parts speak of rows and configurations as values, which every
step but `Generate` keeps. Routing enters through `RoutesTyped` (`kind_to_sheet`
leads to configured sheets only) and analysis through `ConfigsSound` (a
configuration belongs to a sheet of the template, and ends above its sum row).
`SumRowSurvives`, `LinesAreOwn` and `DatesAscend` follow.
*Totals.* `TotalsAreRight` also needs that the columns of the categories are
columns of the sheet (`CategoriesTyped`, through the folds of the header rows)
and that the fall-back to "other" or the first category always finds one
(`CategoryThere`): then one cell of the line holds the amount, and one sum
covers it.

`ParserRouter_proofs`: `ChainExhausted`, because every tier that comes before the
present one and applies has been tried (`TierInv`) and no parser's own error is
one of the two final ones (`RuleOutcomes`); `CardNumbersAreHarmless`.
`SlipsAllReturned`: what the rule parser returned of a Woori file has a slip for
each block (`SlipsInv`), the text of a column is cut into as many blocks as it has
marker lines (`ColumnSplit`, `MarkersCounted`), the marker lines of the texts of an
aligned page are those of the page, one for one, through the counting of columns
and the crop (`MarkersMatch`), and columns and pages add up (`PageSplit`,
`FileSplit`).

The invariants of `UploadSession`, `ExpenseReview`, `ArtifactGeneration` and
`ExpenseWorkbook` were checked by TLC on the instances of the runs before they
were proved.

Assumptions. Besides the types of bounds and parameters: the values that stand for
"no one", "no request", "nothing" or "no value" (`NoOne`, `"none"`, `Null`,
`NoChannel`, `NoTime`) are not values of the kind they are the absence of, as
`None` in the code; template requests and generations are different requests;
without a vendor 0 no expense record is stored at first; the parsers wired and
`LLM_ENABLED` are Booleans; days are numbers; the rows of a page have one line
across it or two side by side (the most that `woori.py:91` and ADR-004 know), of
the sorts in `Line`. Of a template: titles are unique, as in every workbook; every
row has the sheet's columns, and each sheet has at least one row to spare;
header texts are of the sorts `SlotKeywords` lists; merged ranges lie inside the
data rows and below, and a cell is `Merged` exactly if it lies in one and is not
its first; no cell is one that the writer wrote, since `of` names a transaction of
the session at hand.

Only model-checked: liveness (`QueuedEndEndsStream`, `RunEnds`, `ParsingSettles`,
`LockGivenBack`, and that the bus implements `EventStream` with its fairness),
which is out of the prover's reach.

## 6. Not modelled

`PROJECT.json` gives each component's status and reason. Left out on purpose: the
provider regular expressions (their findings are fields of a file), the contents
of PDFs and archives, wording of messages, logging and layout; validation that
answers before anything is changed (`sessions.py:91-108`, the 422 answers of
`templates.py`); the card statement parsers, upload guard, resolvers and file
manager, which are stateless functions that unit tests cover case by case;
`inject_named_ranges`, which no route calls; read-only queries of dashboard and
autocomplete; the JWKS cache, whose concurrent
refreshes are seconds apart while keys rotate over days; the UI but for the
stream of the upload page. `pick_parser` is called by no route.
Cancellation of a background task other than by the end of the process is not
modelled: the application never cancels one.
