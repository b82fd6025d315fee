# Manga Translator: TLA+ models and proofs

This directory holds the formal models of the application in this repository: TLA+ modules for
the parts whose correctness depends on the order of events, TLC configurations that check them
on small instances, and TLAPS proofs of theorems about them. Line numbers refer to the sources
of this repository; `PROJECT.json` maps every definition to the lines it models.

    tlasany M.tla                       parse a module
    tlc -config MCx_y.cfg MCx           run a configuration
    tlapm XProofs.tla                   check the proofs of a component

1. [The system](#1-the-system)
2. [Modules](#2-modules)
3. [Runs](#3-runs)
4. [Proofs](#4-proofs)
5. [What the code does against its own words](#5-what-the-code-does-against-its-own-words)
6. [Not modelled](#6-not-modelled)
7. [Plan](#7-plan)

## 1. The system

A FastAPI server (`app/`, about 36 000 lines of Python and JavaScript) turns a chapter of a
comic into a translated one, for one user at a browser page (`app/static/js`). A second,
optional server (`gateway/`) sells A.I requests to accounts and forwards them to a provider.
There is no database in the first: a chapter is a directory of images and a `manifest.json`,
and the exclusion between threads and requests is made of `filelock.FileLock`s: one per page
(`get_page_lock`), one per manifest (`get_manifest_lock`) and one per chapter
(`processing.lock`). The gateway uses SQLite, one write transaction at a time.

| Part | State | Operations | What makes it correct |
|---|---|---|---|
| Page artifact transactions: `PageArtifactTransaction`, `recover_page_artifact_transactions`, `cleanup_stale_temp_artifacts` (`manifest_utils.py`), `lifespan` (`main.py`) | artifacts, `.rollback` files, journals, `artifact_generation` and `artifact_transaction_id` in the manifest | enter, write, mark and save the manifest, commit, roll back, recover at start | after a crash anywhere, the artifacts are those of the last manifest commit |
| Page cleaning and editing: `pipeline.py`, `page_processing.py`, `pipeline_editing.py`, `optimized_pipeline.py` | boxes, preserve regions, `skipped`, `processing_required`, `clean_revision`; clean image, automatic clean, brush masks | `process_pages`; add, move, remove boxes; preserve, review fixes, repaint, restore, reset; skip | the image is what the record asks for; no decision of a user is lost to a run that started before it |
| Page processing jobs: `page_processing_jobs.py`, `/process_pages` | `_jobs`, `_latest_by_chapter`, `_active_by_chapter`, `processing.lock` | start or reuse, run, report a page, complete, fail, prune | one run per chapter; a job ends; the manager stays bounded and never loses a running job |
| Slices and seams: `downloader/slicer.py`, `page_processing.py`, `ai_mode/seams.py`, `export.py` | cuts and overlaps of a tall image; what each slice found, owns, shows | slice, search, search around an unsafe cut, join lines, own, mirror, stitch | a text that a cut crosses is whole somewhere, translated once and lettered once |
| OCR jobs: `ocr/jobs.py` | jobs, workers, queues, cancel events, retry lists | start, plan, cancel, retry, count an outcome, prune | every region counted once; limits hold; a cancel ends it |
| OCR service: `ocr/service.py` | the machine's text of each region, the text of the object that spans them | snapshot, read, commit if unchanged; grouped reading | no text is kept for a crop it was not read from |
| Text objects: `text_objects.py`, `routers/editor.py` | source, translation, review and revision of an object | edit, read, translate, review | what was made for an earlier source or text is never shown as made for this one |
| Rendering, export: `render_commit.py`, `export.py`, `editorial_gate.py` | rendered pages, what they were rendered from, approvals, archives | snapshot, work unlocked, compare, publish; approve; archive | a picture that counts as current is; an archive is of one instant and approved |
| A.I mode: `ai_mode/job.py`, `routers/ai_mode.py` | the one job, its report, its budget, its review queue | download, scan, clean, review, translate, restore, polish, render, cancel | stages in order, budget held, no text forgotten, a cancelled job stops |
| Agent: `agent/session.py` | session, turn, queue of messages, approval card, scheduler | send, answer, approve, deny, stop, command, compact, save, delete | one turn at a time, nothing asked twice or left waiting, saved before idle |
| Gateway wallet: `store.py`, `billing.py`, `app.py` | balance, holds, payments, jobs, ledger | top up, refund, adjust; open, hold, charge, fail, close; purge, delete, restart, backup | no money appears, disappears or is spent twice |
| Gateway logins: `store.py`, `app.py` | accounts, codes, sessions, daily counts | start, resend, verify, log out everywhere, delete, expire | budgets hold, a code opens one session, deleted means signed out |
| Editor in the browser: `editor.js`, `editor-persistence.js`, `editor-geometry.js` | manifest shown, dirty texts and places, saves in flight | type, move, flush, bulk and fallback, abort, close | what is called saved is on the server; every edit gets there |
| Manifest storage: `manifest_utils.py`, `mask_store.py` | `manifest.json`, sidecar masks | load and normalise, save, externalise, prune | a saved manifest only refers to sidecars that exist |

How they meet: the browser and the A.I mode call the same functions. The A.I mode starts a page
processing job, polls it on the event loop and puts the finished pages on a queue for its review
task. A job is a thread; it calls `process_pages`, which works without a lock for minutes and
takes the page lock and the manifest lock only to commit. Edits hold the page lock throughout,
take the manifest lock for the plan and again for the commit, and write their files inside a
page artifact transaction. So the same files are protected by three mechanisms at once: a lock
(edits against edits), an optimistic check (runs against edits) and a journal (both against
crashes). Reading, translating, drawing and archiving all have the form of a run: look under
the manifest lock, work without it, compare and commit under it, each with its own idea of what
has to be the same.

What is hard here: a run reads files and record at different times, from an edit that may
still be rolled back; recovery sees any prefix of a dozen file operations, each of which may
have failed and been swallowed; a job's status, the pages it reported, its lock and the
pointers of the manager change in separate steps under different locks; money is held, spent
and booked in different transactions with an upstream call between them, and payment providers
call in any order; two slices decide about one text without talking to each other; a message to
the agent meets a turn at every moment of its end; the editor's saves overtake each other and
the manifests that come back. `PROJECT.json` lists these under `hazards`, each at its line.

## 2. Modules

| Module | Subject |
|---|---|
| `AtomicPage` | abstract: the artifacts of a page change together with its generation, or not at all |
| `ArtifactTransaction` | edit, commit, rollback, crash and recovery of one page's files; implements `AtomicPage` |
| `PageEditing` | the processing run of a page beside all edits of it |
| `PageEdits` | the behaviours of `PageEditing` in which the images can be relied on |
| `ChapterJobs` | the jobs that process a chapter, the synchronous route, the A.I clean stage and its review |
| `Slicer` | where a tall image is cut, and what the export demands of the cuts |
| `Seams` | text across cuts, from the slicer to the stitched page; implements `Slicer` |
| `OcrJobs` | OCR jobs and their workers, the reading of one region, the grouped reading |
| `Lettering` | texts of a chapter's pages, the pictures made of them, approval and archive |
| `AiMode` | one A.I mode job, from the requests that race to start it to the lettered chapter |
| `AgentTurn` | the session of the agent: turns, messages, approvals, scheduler, deletion |
| `Wallet` | the money of one account of the gateway |
| `GatewayLogins` | accounts, emailed codes and sessions of the gateway |
| `EditorSaves` | how the editor in the browser saves texts and places |
| `...Proofs` | theorems and proofs; see section 4 |
| `MC...` | the small sets of a component for TLC, with symmetries and setups |

Seams EXTENDS Slicer and PageEdits PageEditing; ChapterJobs contains the clean and review stages of the job that AiMode
has the others of. The rest are separate modules of separate locks and state: what one needs of
another is a free choice in it (`Detect` in PageEditing may find anything, the clean stage in
AiMode may pass or fail).

**ArtifactTransaction.** `file` says who wrote each artifact last, which is all that the
properties tell apart. `__enter__` is `Enter`, then `SnapshotPath` for each record, then
`WriteJournal`; the body of an edit is any sequence of `WriteArtifact`, ended by `SaveManifest`
or `BodyFails`; `commit` is `CommitCleanup` and `CommitDone`. `rollback` and the rollback branch
of the recovery share the `Restore...` actions: their loop bodies are the same unlink and
replace, and what differs (go on with the next record, or give the journal up) is in
`RestoreError`. `Crash` is possible between any two file operations. Most deletions in the code
ignore `OSError`, so the actions remove any subset. Recovery decides as the code does: roll
back if the manifest's generation is lower than the journal's target, clean up if it is higher
or equal with the same transaction id, skip otherwise. `want` and `stacked` are history
variables: the artifacts at the last manifest save, and whether an edit was begun on a page that
still had a journal to roll back. The code does not protect that case: the edit backs up
half-written files and aims at the same generation. Every property about consistency, and the
refinement `ImplementsAtomicPage`, is therefore about behaviours up to that moment (`~stacked`).

**PageEditing.** An image is the set of places erased in it; a mask or a region is the set of
places it covers. `Begin` is the part of an edit under the manifest lock (the page lock is
taken: `edit # NoEdit`), `Paint` and `PlaceMask` the file writes in the order of the code,
`CommitEdit` the second manifest section, `RollBackEdit` the transaction's rollback. Each kind of
edit differs only in its `Plan`: boxes out and in, regions, masks, whether the cached automatic
clean may be reused, whether the strokes are painted. The run is `Capture` (snapshot, under the
manifest lock only), `Detect`, `ReadStrokes`, `ReadRestore` (unlocked, from the disk as it is
then) and `CommitProcessedPage` (both locks; compares `ProcessingState`). `stamp` is the
(exists, mtime, size) of the mask file, and a rollback brings an old one back, as `shutil.copy2`
does. The snapshot compares what the code compares: the restore mask is not in it. One mask
stands for the two repaint masks. `SpecFailing` has edits that roll back, at any moment.
`DecisionsKept` has three parts: manual boxes stay (`ManualBoxesKept`), a removed detection stays
removed while runs find it (`RemovedStaysRemoved`), and a run moves no box that a user has placed
(`RunsMoveNothing`). A detection that one run does not find is dropped with what was decided about
it, and is new when the next run finds it again: `RemovalRemembered` says otherwise and fails
(section 5).

**PageEdits.** What is left out of that snapshot makes the images wrong in the ways of section 5, so
they are promised for two kinds of behaviour. With `apart`, all edits, failing or not, are made
while no run is under way. Without it, edits that succeed and leave a trace in the snapshot
(`NoticedEdits`) come in every order with a run. `late` is a history variable: a run that decided
not to write the cached clean has committed although there was one by then (section 5), which
`ImagesMatch` excuses, and says to be impossible with `apart`.

**ChapterJobs.** `jobs` is everything ever started, `kept` what the manager knows. `start` is
`StartNew` with `_prune_locked` inside (`Pruned`, `DropLatest`), or the active job is given back.
The thread is `Acquire` (one try of the lock), `SetRunning`, `PageDone` for each page of the plan
that is not skipped, `PlanReturns` or `PlanRaises`, `CompleteJob`, and `Release` in the `finally`.
`AcquireRaises` is the lock file that cannot be opened: only `Timeout` is caught around
`FileLock.acquire`, so the thread ends and nobody fails the job. Such a job (`Stuck`) stays pending
and active for ever; it is the one excuse of `AllEnd`, and `NoneStuck` is in section 5. `SyncStart`
and `SyncEnd` are the route that processes while its caller waits. `AIStart` may be given a job of
somebody else that covers other pages: `ai.wanted` is what the stage wanted, and only those reach
the review. `AIPoll` is one turn of the polling loop and, when the job has ended, what follows it up
to the next `await`: one step, as the event loop runs it. A cancel is a flag that this step may find
set; the flag itself is left out.

**Slicer.** Rows are numbers, and what `_get_content_row_mask` finds in the pixels is a set of
rows, free for every image. `FindCutRow` is one round of `_find_cut_rows`: a safe row of the
search window if there is one (`FindSafeCut`), else of the whole allowed range, else a cut
through content (`FindLowContentCut`: any row of the range, since the scores that rank those
depend on pixels), else the last resort. `SliceImage` writes the slices: their cores and, beside
a cut through content, the rows they share with the neighbour. `SlicesOK` is what
`_validate_stitch_group` demands of a group, the bounds of a core, and the promise that a text
as tall as two contexts is whole in one slice.

**Seams.** The page is seen from its side: a text is an interval of rows. `ProcessPages` searches
any slices together, the strips around unsafe cuts first, each of which may fail; the user may
`Skip` a slice; `JoinStackedLines` makes one object of the lines of a block; `TranslateSlices` is
`translate_one` for every slice, which translates what no other slice owns (the owner has the
middle of the text) or fails; `SyncSeams` copies lettering to the neighbour and drops what
overlaps it; `ExportChapter` stitches the cores. What is checked is the stitched page: is the
text erased, and is its lettering there once. A *faint* text is one of which a piece is not
found.

**OcrJobs.** A `crop` stands for all that a reading depends on (geometry, mask) and a text for the
crop it was read from. `Register` is the locked part of `start` and of a retry, with the pruning in
it. `Take`, `Look`, `ReadFails` or the reading, `CommitBox` and `Record` are a worker with one
box: from the queue, under the manifest lock, without it, under it again if the box is still as it
was (`Changed`), and under the job's lock. `Cancel` sets an event that the workers see between
those steps (`Leave`). The grouped reading of an object (`GroupStart`, `GroupTake`,
`GroupCollect`, `GroupCommit`) reads its boxes one after the other and commits under the
signatures of its start. The user moves boxes, makes pages unreadable and types at any moment.

**Lettering.** A page has the source and the translation of its text with where they came from,
its review, the clean image, and the rendered file with the signature it was made for. A render is
the request, `LoadRenderSnapshot`, `DrawPage` from the files as they are then, and `_commit_render`
in its steps: `CompareRender`, `PublishRender` (the file), `SaveRender` (the record), or
`RestorePublished` when the save fails. `EditSource` and `ReconcileTranslation` are the two lock
sections of a source edit, `AskTranslator` and `CommitTranslation` a translation, `CommitReading`
one of the OCR, `PaintClean` and `CommitClean` or `RollBackClean` an edit of the image.
`SnapshotExport`, `PackPage` and `Deliver` archive one page after another without a lock and
compare afterwards. `origin`, `lost`, `slipped`, `overwritten` and `approvedAs` are history
variables. A `Crash` ends all that is under way.

**AiMode.** `Ask`, `Reserve`, `Start` and `Settle` are a request that may have a reservation at the
gateway: the check for an active job, the await, the check again, and what is told to the gateway
in the end. Stages follow each other (`Advance`); in the translate stage each slice goes its own
way with at most `Concurrency` of them admitted at once (`Admit`, `CommitAnswer` or `CallFails`, `Retry`,
`Restore`), reads what is left of the budget before a call and adds the cost after it. Scan,
glossary and review spend (`early`) without a look at the budget, and a call whose cost is not
known ends the adding up and the budget with it (`Pays`, `priced`). What the
model skips is asked for again, lines it reports outside every box are added (`AddUnboxed`), what
never gets a translation gets its pixels back. An object whose region or source text the user
changes while a call reads it (`Moves`) is stale: the answer is not used for it, and after the
first call of a slice it is not asked for again (`passed`). An object may be the copy of one on
the slice across a cut (`owner`); which of the two owns a text is decided in Seams and given here.
`Translated` and `Polish` end with `SyncSeams`: copies take the text of their owners, and a text
that others mostly cover is `dropped` (`Overlapped`). What stays blank is sorted by `SettleBlanks`.
Then each slice is lettered in two steps: `ReadTexts` takes its texts, and `Letter` draws and saves
what was taken, over whatever was typed since (`pen.old`), or gives an object its pixels back and
tries again. The user types, moves, repaints and cancels; an error may escape.

**AgentTurn.** `turn[t]` is where a thread is in the turn; status, queue, card and the file of the
session are shared. The actions are the stretches between the sections of the session's lock, so a
message (`Send`, or `TickSend` of the scheduler) may come wherever it can in the code. The calls of
a reply run side by side (`Spawn`, `StartCall`), ask one at a time (`Ask`, `Decide`, `Wake`), and a
helper asks through the same card. A save is `Gather` under the lock and `Write` outside it, or
`WriteFails`: `save()` logs the error and returns, and the turn goes idle all the same (`unsaved`
remembers what such saves were to write until another one does). Threads of turns save, the
scheduler, a compaction, and the requests that handle a command (`Command`, for `/compact auto` and
the skills); only the threads of turns are waited for when the session is deleted.
`Delete`, `CloseStops` and `Unlink` are the end of a session, with the join that has a time limit;
`Compact` borrows the status of a turn. What a saved session holds is the set of messages the model
was told of.

**Wallet.** One account; every `Store` method is one `BEGIN IMMEDIATE` transaction and one
action. A request (`calls`) is `BeginRequest`, then `Answer`, `Abandon` (a handler cancelled
while it waits) or `AnswerUnread`: `int()` of a malformed usage field raises after the upstream has
answered and before `add_cost`. Its hold stays on the account and the chapter until the next start;
`HoldsExact` counts it with the requests in flight (`Holding`), and `IdleHoldsNothing`, which does
not, is in section 5. The token of a handler was checked in an earlier transaction, so
`BeginRequest` and `AddCost` do not ask for an active job. `OpenStore` is what `Store.__init__`
does to holds; a `Restart` does it after the handlers died, a `Backup` while they live. `Price`
rounds like Python's `round` (half to even). `forgiven` and `overrun` are history variables for
the amounts by which the code deliberately lets a balance or a cap be exceeded: refunds, debits
and costs above the estimate.

**GatewayLogins.** Every `Store` method is again one transaction. A refusal that raises inside it
changes nothing and is no action; one that raises after the commit (`WrongCode` has been counted)
is. `StartLogin` commits the code before it is mailed (`MailSent`, `MailFails`); `LogoutAll` and
`DeleteAccount` run for a request whose session was checked in a transaction of its own
(`CheckSession`), perhaps long before. `NewDay`, `CodeExpires`, `SessionExpires` and `ResendOpens`
are the clock, `Purge` the housekeeping. An account is never removed: its email is hashed. A code
is asked for against two budgets of a day, that of the email and that of the network.

**EditorSaves.** `shown` is `currentManifest`, `server` the file. Texts go through a chain of
flushes (`StartFlush`), each with the entries of `_textDirty` at its start, as one bulk request
and, when that fails (`BulkFails`), one by one. Places are sent at once (`GeomTimer`), and a later
`Move` aborts the save before it: the browser stops listening, the server does not stop
(`StorePlace`). Answers of other requests carry a whole manifest and replace what is shown
(`Replaced`). `Close` is `pagehide`. Every edit gives a value of its own; `excused` is a
history variable: texts that an older answer has taken back on the screen (section 5), and what
nobody is left to send again.

## 3. Runs

Twelve runs; sizes are distinct states.

| Run | Question | Bounds | States |
|---|---|---|---|
| `artifact_page` | is the page recoverable at every instant, no backup lost, and the whole an `AtomicPage`? | 2 edits, a clean image and a mask | 114 000 |
| `page_edits` | does no decision of a user get lost to a run, and are images, caches and brushes those of the page? | 2 places, 2 edits of eight kinds, `clean_revision` up to 3 | 2 140 000 |
| `chapter_jobs` | one run per chapter, no job lost, all end, the review hears of every page? | chapters of 2 and 1 pages, 2 jobs, 1 retained, 1 A.I run | 497 000 |
| `seams` | can the slices be stitched, and is a text across a cut erased and lettered once? | images of 8 and 13 units, 1 or 2 texts of up to 3 | 749 000 |
| `seams_joined` | section 5 | images of 12 units | violation |
| `ocr_jobs` | is every box counted once, no text kept for another crop, do limits hold and jobs end? | 3 chapters, 3 boxes, 2 workers, 3 jobs, 2 retained, 2 active; three set-ups | 185 000 |
| `lettering` | do current pictures show the record, and archives one approved instant? | 2 pages, 2 sources, 1 text, 2 renderers, 2 edits, 2 renders | 1 271 000 |
| `ai_mode` | one job, budget kept, no text forgotten or dismissed unseen, requests end? | 2 slices, 3 objects, 2 at once, budget 2, one round, a call of scan or review costs 0 or 1; five set-ups | 936 000 |
| `agent_turns` | one turn, idle is saved, deleted stays deleted, a stop ends, no message is left behind? | 2 turn threads, 2 calls, 1 helper call, 3 messages; six budgets | 559 000 |
| `wallet_requests` | holds exact, nothing overspent, money conserved, credited and booked once? | 1 top-up, 2 chapters, 3 requests, 1 adjustment, costs 0 to 3 | 801 000 |
| `logins` | do the budgets hold, does a code open one session, and is a deleted account signed out? | 1 email, 2 requests, 3 codes, 3 days, 2 sessions; 2 codes a day of an email, 3 of a network | 3 866 000 |
| `editor_saves` | is what the editor calls saved on the server, and does every edit get there? | 2 objects, 2 saves of places at once, 2 edits, 1 failure, 1 answer | 158 000 |

Why these bounds reach the interesting cases:

- *Artifacts.* Two edits are needed for a journal of an earlier edit to meet the generation of a
  later one (`RecoverSkip`, `gen > target`), and two artifacts for a half-restored transaction.
  The proofs of section 4 hold for every number of both.
- *Page edits.* Two places let a mask, a region or a box cover part of what another covers. Two
  edits give an edit before and one during a run, or two during it: a box moved there and back.
  Eight kinds are all there are; the two kinds of behaviour are those of `PageEdits`, with no
  constraint on states.
- *Chapter jobs.* Two jobs and `MaxRetained = 1` bring the manager to its limit at the second start;
  two chapters let the job it would drop be active and let a chapter lose its latest job. Two pages
  give the last page that finishes together with its job.
- *Seams.* The unit is about 256 rows, so that 8, 4, 5 and 3 stand for the maximum, minimum, target
  and context of `slicer.py` (4096, 800, 2400 and 768 rows). 13 units are cut into two or three
  slices, so there is a slice with a cut on both sides. A text of three units is the tallest that
  the context keeps whole. Two texts are at most a context apart: lines are joined, and regions
  dropped, only when they touch. On art no cut is safe; on a plain background some are.
- *OCR.* The set-ups start with jobs done, a job pending, or the manager full, so that the limits,
  the pruning, a retry and the grouped reading are reached within three jobs.
- *Lettering.* Two renderers race for a page, or draw the two that the archive is made of; the
  constraint `TwoAtWork` allows two long pieces of work at a time (an edit and its reconciliation
  come on top). The chapter starts with all but one page translated.
- *A.I mode.* Two slices at once with a budget of two and calls that cost one let the second go over
  the budget; scan and review may use it up before. An object may be hidden until the model
  reports it. The set-ups say what may happen beside: an edit (typed, moved or repainted); an edit
  where the slices share a copy and a text covers another; a cancel and an error that escapes; a
  request that races, with a copy; a cost that is not known.
- *Agent.* Two threads are a turn and the one that takes the queue over from it. Budgets say how often
  each thing outside may happen in a behaviour; the model's calls are part of them. The last
  two have a save that fails and a command that saves, beside a deletion or the scheduler.
- *Wallet.* Fee one half: 1 costs 2 after rounding and 2 costs 3 exactly. A cost may be 0, less
  than, equal to or above the estimate. Three requests are the least for which two in flight and
  one more at the limit of the balance differ. The provider may repeat any webhook any number of
  times at no cost in states.
- *Logins.* Two codes a day and one attempt per code are the smallest budgets that a second code or a
  second guess exceeds. A network may start three logins a day, as in the code (30 against 10) more
  than one email may, so that it is the email's budget that refuses the third; two requests are two
  deletions that overlap.
- *Editor.* Two objects are the least for a bulk and its fallback; two slots let a save that was
  aborted and the one after it both be on the server.

Named bounds: `MaxEdits`, `MaxRevision`, `MaxJobs`, `MaxGroups`, `MaxRequests`, `MaxAdjusts`,
`MaxRenders`, `MaxMessages`, `MaxCodes`, `MaxSessions`, `MaxDays`, `MaxFailures`, `MaxReads`,
`MaxCost`, `Earlier`, `Budgets`, `Setups`, and the sizes of sets.

*Deadlock* is checked in `artifact_page`, `chapter_jobs` and `wallet_requests`. The others may
really stop: the work is done or a bound is used up.

*Symmetry* is used for edits, places, payments, chapters and requests of the wallet, requests of the
logins, and pages, sources, texts and renderers of `lettering`; never in a run with liveness properties.

*Fairness* is weak, and justified by the scheduler of the operating system or the event loop:

- `ChapterJobs`: each job's thread (the pages' work ends: models run on the CPU with no network or
  unbounded wait), the polling loop (`asyncio.sleep` returns), the review task. `AllEnd` needs no
  strong fairness because a thread never waits for the lock: it tries once. A job whose lock file
  cannot be opened is excused, and a clean stage that waits for it.
- `OcrJobs`: the workers of each job. `AgentTurn`: each turn thread, the beginning of a queued
  turn, each call and the end of a helper (model calls and commands have time limits).
- `AiMode`: each request, the stages and each slice. `EditorSaves`: the timers, the requests under
  way (they are answered or fail) and the start of the next flush.

Nobody obliges a user to start, answer, stop or close anything, nor a failure to happen.

Every property has a mutant: a definition named in the module (`RollbackJournalFirst`,
`BeginRequestIgnoringHolds`, `AIPollEndFirst`, `FoldNothing`, `BoundaryUnsafeBelow`, ...) that is
the code with a plausible mistake. With it in place of the original the property is violated
under the same configuration.

## 4. Proofs

**ArtifactTransactionProofs**, for any set of artifacts (even infinite), any edits and any
starting files, assuming only `ConstantsAssumption` (the special values are different from each
other and from ids):

| Theorem | Statement |
|---|---|
| `TypeCorrect` | `Spec => []TypeOK` |
| `CrashConsistency` | `Spec => []CrashConsistent` |
| `ServedConsistency` | `Spec => []ServedConsistent` |
| `BackupsConsumed` | `Spec => BackupOnlyConsumed` |
| `Refinement` | `Spec => ImplementsAtomicPage` |

`CrashConsistent` is not inductive: it says what recovery would do *if* the process died now,
and says nothing about what makes it so. The inductive invariant `IInv` adds, for each phase of
an edit, what its backups know. While the records are made they describe untouched files
(`SnapshotOK`); while the edit writes, whatever it may overwrite has a backup, and every file is
the edit's or the committed one (`WriteOK`); after the save the manifest names the transaction
(`SavedOK`); during a restore, a record that is done needs no backup and a created file is gone
(`RestoreOK`); only files that existed have a backup (`BackupsOK`); ids and generations are in
order (`IdsOK`), which rules out two live journals. `LiveOK` is the heart: there is at most one
journal to roll back, and for each path what recovery would put there is what was committed.
`InductiveInit` and `InductiveStep` prove it, one step per action. The refinement maps the page to
`AfterRecovery`, the result of a crash and an undisturbed recovery at this instant.
`OnlySaveMoves` shows that no other step moves it and `SaveIsCommit` that the save is
`AtomicPage`'s commit.

**MoneyProofs**, first part: the wallet, for any fee, prices, caps and calls and any finite sets of
payments, chapters and requests, from `WalletAssumption` (amounts are naturals, adjustments
integers, the divisor is positive). With backups too: `WalletTypeCorrect`, `TopUpsCreditedOnce` (a
top-up is in the balance exactly while it counts as paid, with one ledger line, or two once
refunded), `ChaptersBookedOnce` and `LedgerIsSound`, which joins them; and `BalanceIsLedger`
(`MoneyConserved`), whose invariant `MoneyInv` says that the balance is what top-ups left in it less
what the chapters were charged, and that nothing is charged to a chapter that was never opened. The
lemmas on `CloseJobs`, `Book` and `AddCost` carry the argument. Without a backup beside the gateway
(`SpecNoBackup`): `HoldsAreExact` (of the requests in flight and of those whose answer could not be
read) and `HoldsSuffice`, from `HoldInv`: the types, the exact holds of the account and of each
chapter (`Held`, `Reserved`), that nothing is reserved for a chapter that was never opened
(`Fresh`), and `NothingOverspent` itself: a charge takes from the balance no more than the hold it
frees, but for an overrun that is accounted for. These are facts about sums over finite sets, which
the model computes with a fold. What a fold computes is an induction over data; the lemmas from
`AddsOnce` to `TotalRemove` get it from the least counterexample instead: a set of numbers with a
member has a smallest one (`WFMin`), so a sum exists and is unique for every finite set, and a
member more, less or changed does to it what it should (`TotalAdd`, `TotalRemove`, `TotalUpdate`).

Second part: the A.I mode, for any requests, slices and objects and any concurrency, batches,
rounds, budget and cost of a call, from `AiModeAssumption` (those are positive, every object is on a
slice, an owner is not itself a copy, what earlier calls cost is a natural): `JobIsOK`,
`BudgetIsKept`, `NoneIsForgotten`, `DismissalHasEvidence`, `TypedIsKept`. None of the properties is
inductive: each speaks of the end of a job, or of sums nobody keeps. `AiInv` says, for each of them,
where the job stands. `RequestsFit` and `StageFits`: what the gateway was told of a request and how
far its handler and its job are, and that a second active job is itself. `SlicesRest`: no slice is
under way before the translate stage, and none in a good job after it. `SliceFits`: what each step
of a slice may rely on (the first call has nothing to do after it yet, a retry has something to
retry and rounds left, a cost is owed only between the first answer and its drawn sounds).
`AllCovered` is why nothing is forgotten: every object of a slice that has come to nothing yet
(`Open`) and is no copy is among those the slice will still ask for or give up (`Minded`), unless
its slice was skipped or dropped, so that at `"done"` none is open. Seams are synced then, and a
copy has the text of its owner or the reason of its owner: from there on `Explained` says that
whoever has no text has one of the reasons of `Excused`, and `Marked` that so has whoever was
marked. `Evidence`: what is dismissed was attempted, and what was attempted was left blank.
`BudgetFits` is the account of the budget while every cost is known: every call in flight is counted
at `MaxCost` and every cost owed at its amount (`Weight`), the sum over the slices with what was
spent is nothing at all or stays below the bound (`SpendingFits`), and it grows only by an `Admit`
or a `Retry` that found the budget not spent, beside fewer than `Concurrency` others. `BudgetIsKept`
bounds what slices spend, not what scan and review spent before them: nothing in the code does
(section 5). `TypedIsKept` needs only who writes texts: answers and retries take no object that has
one, and the three writers that do not look (polish, seams and lettering) are its exceptions. Each
step of a slice replaces its record by another (`Answered`, `Judged`, `Boxed`, `Popped`, ...); the
`...Shape` lemmas say what is in that one, and `SliceKeeps` that the invariant is kept if it fits,
is covered and is no dearer. The weights are a sum over a finite set again, and `TotalAtMost` bounds
it by a count.

**PageEditingProofs**, for any set of places, any kinds and number of edits, from
`EditingAssumption` (the edits are kinds of edit, the bounds naturals): `DecisionsSurvive`,
`EditingTypeCorrect`, `PageIsSound`, `RevisionIsHeld`, `SkippedPagesAreBare`, `ManualBoxesSurvive`,
`RemovedDetectionsStay`, `BoxesStayPut`. They are proved for edits that fail too (`SpecFailing`),
and `EditsKeepDecisions` carries them over to `PageEdits`. `BoxInv` adds to the properties what an
edit that holds the lock will do to boxes (`PlanOK`: what it takes out comes back changed, a
detection it puts in is one it took out, its target is the next revision), that a place has at most
one detection (`Distinct`), and that a run started on a page that was not skipped and finds
detections as the snapshot's boxes tell it (`RunOK`). The commit of a run needs all of them: it may
only deliver if record and snapshot are equal, so what `RunOK` says of the snapshot holds of the
page. `WhoChangesBoxes` reduces the action properties to two commits and skipping.

`ImagesAreRight` is about `PageEdits`. Its invariant `ImageInv` has one part for the page (`PageFits`:
settled files are `Right`, and the restore brush presupposes the cached clean), one for the edit
and one for the run. `EditFits` is what the edit will write of each file and has written
(`Written`), and that what it saved for a rollback was right. `RunFits` is the optimistic check seen
from inside: what a run has read is what is on disk *unless* the stamp of the mask has moved, in
which case it will be discarded; `PlanShows` is why an edit beside a run moves it.

**ChapterJobsProofs**, for any chapters, finite sets of pages, limits and numbers of jobs, from
`JobsAssumption`: `ActiveIsExact`, `OneRunPerChapter`, `LatestIsKnown`, `ManagerIsOK`,
`ReviewHasSeenAll`. `JobInv` adds where each thread is when it holds the lock (`HolderInside`) and
when its job has ended (`EndedWhenLeaving`: a thread that is over has ended its job, or the job is
stuck), and that a chapter's earlier jobs have ended (`EarlierEnded`), without which dropping the
latest job of a chapter could leave an older one behind. `PrunedOldestEnded` is the argument about
`_prune_locked`: it drops ended jobs only, and with one every older ended one. `RunInv` joins what a
job has done to its plan (`PlanOK`, each page once and counted) and to what the A.I stage has been
told (`AIInv`): queue and reviewed pages together are the wanted ones among the first `fed` pages
that are done, once each (`Handed`), and the end follows only when the job has ended and all were
fed. A job that is dropped meanwhile is still what it was, since `jobs` keeps everything ever
started. `InOrderMembers` shows what the filter of `InOrder` keeps: it is defined by ranks, so it
needs cardinalities and no induction.

**OcrJobsProofs**, for any finite set of boxes and any crops, workers, chapters and numbers of jobs,
from `OcrAssumption` (one part of which the code owes to its constants: the limit of active jobs,
at most 8, is not above the 32 jobs retained): `BoxesCountedOnce`, `ManagerIsOK`, `CacheFollowsCrop`,
`GroupDeliversNow`. `Balanced` is the account of a job: boxes waiting, boxes in a worker's hands and
counted outcomes never add up to more than its items, and to exactly those unless it was cancelled;
what is to be retried is what was stale or failed. `WorkersFit` gives each box one worker. For the
grouped reading, `GroupFit` says that a text it holds is of the crop its box has, unless the box has
moved since; a box that moved once differs from its signature, and so the commit refuses it. A box
that moved there and back is the case of section 5 and is what the property excludes.

**ClientProofs**, first part: `GatewayLogins`, for any emails, requests, limits and days, from
`LoginsAssumption` (the limits are naturals): `LoginsAreOK`, `CodesAreBounded`. `LoginInv` needs beside the properties that
the row of an email names a code mailed to that email since its account was last deleted, counts
the wrong entries of that very code and has given no session (`RowFit`), and that the row of today
counts every code asked for today unless a deletion dropped it (`DayFit`: the budget of a day is
therefore counted per email since `today[e].dropped`).

Second part: `EditorSaves`, for any objects, saves of places under way, edits, failures and answers,
from `SavesAssumption` (the bounds are naturals): `SavesAreOK`. `EditsStored` says nothing of the time
in between, and `SavesInv` does. A text is shown as it was last to be saved, and it waits for a
flush, or is what the flush under way carries, or is on the server (`TextsFit`); a failed save is
captured again from the screen, which is why the screen has to be part of it, and why an answer
that replaces the manifest while a text is carried has to be excused (section 5). A place is on the
server, or is dirty, or, once the page has closed, is on its way (`PlacesFit`); a save that may still
clear `geomDirty` carries the last place (`MovesFit`), so that the generation is what makes an
overtaken save harmless. What a manifest that is still to be shown leaves out is gone from the
server as well (`DeletionsFit`).

**AgentTurnProofs**, for any threads, calls, helpers, messages and budgets, from `AgentAssumption`
(names of threads, calls and of the scheduler are different): `TurnIsOK`, `IdleHasSaved`,
`NoTurnRevives`. `TurnInv` has who may be working at once, said without cardinalities (`OneAtATime`,
`IdleIsQuiet`), whose question is shown and what its answer will put back (`Asked`, `AskedIdle`),
whose calls run (`Owned`), and where a save is between its gathering and its write (`Stored`): what
a turn saves at its end is all it was told (`LastSave`), so that an idle session has it on disk or
among what failed to be written (`Saved`); and a turn that saves while the session is being deleted
is one that the deletion waits for (`Joined`). `NoTurnRevives` follows: only the scheduler, a
compaction or a command may write the file of a deleted session.

**PicturesProofs**, first part: the slicer, for images of any height and content and any parameters
that satisfy `ParametersOK` (a slice has room for two cores of the least height, and a context is no
higher than a core, as with the constants of `slicer.py`): `SlicesAreGood`, that is
`SlicerSpec => []SlicesOK`. The
invariant `SlicerInv` says that cuts ascend and leave room for a core on either side (`CutsOK`).
`CutInRange` shows that a cut is always found inside its range, so that the last resort of
`_find_cut_rows` is never reached; `SlicesStitch`, `CoresFit` and `ContentFits` derive the three
promises from the cuts. `ContentFits` is the argument for two contexts: the half of a text on the
other side of a cut is no higher than the context (`HalfIsNear`). `CutsAreKept`, that is
`SeamsSpec => SlicerSpec`, is the composition of section 2: it implements
the slicer, so `SlicesStaySound` follows from `SlicesAreGood`: whatever is searched, joined,
translated and copied, no later stage makes the slices unsound.

Second part: texts, pictures and archives, for any pages, sources, texts and renderers, and any
number of edits and renders, from `LetteringAssumption` (`Blank` is no text, `None` no source,
renderer, translation or file): `TextsAreRight`, `CurrentIsTrueAlways`, `DeliveryIsRight`. The
argument rests on stamps: a file that is written gets a stamp that no file had, the stamp of a base
only grows, and one that is put back is the one that was there. So a picture drawn from a snapshot
with the stamp of a base shows the image of that base, or that base is gone for good (`Shows`), and
an archived page is the published file or a file with an older stamp (`Packed`). `RenderOK` carries
that through the steps of a render; while one holds the lock, record and file stay
(`AsSealed`). `Sealed` is what remains of it in the record. `TextsInv` says that a text is a user's or
the machine's for the source of its origin (`Traced`), and that this is the source as it is, or why
not (`Fits`). `ApprovedInv` is what an approval of a revision says of the picture. All of them are in
`LetteringInv`.

*Only model-checked*: of the invariants, `TextReplaced` (it sorts and folds sequences of objects). Liveness (`AllEnd`, `JobsEnd`, `StopEnds`, `QueuedIsTold`, `RequestEnds`,
`EditsArrive`) is out of the prover's reach altogether.

## 5. What the code does against its own words

`seams_joined` is expected to fail, and is listed with its lines under `findings`: a block of text
is joined from lines on one side of a cut that sees them all, and stays one line on the side that
sees only the last; if that side owns the text, its translation of the one line replaces the
block, and the first lines are erased without a word.

More disagreements have a configuration that TLC finds violated, to be run by hand. A `..._claims`
file lists several, each on a line of its own, all but one as comments: uncomment the one to look at.

| Configuration | What fails |
|---|---|
| `MCPageEditing_restore` | `RestoreKept`: the restore mask is not in the snapshot a run is compared with. Restore while a run is between reading that mask and its commit, and the commit erases it again. |
| `MCPageEditing_rollback` | `CleanMatches`: a run reads the strokes of a repaint that fails afterwards. The rollback brings the old mtime back, so the run counts as current and commits strokes nobody has. |
| `MCPageEditing_forgotten` | `RemovalRemembered`: a run keeps the detections it found. A removed one that it does not find is forgotten, and the next run that finds it shows it again. |
| `MCChapterJobs_claims` | `NoneStuck`: only `Timeout` is caught around `FileLock.acquire` (`page_processing_jobs.py:113-121`). After any other error of the lock file the job stays active, and its chapter is never processed again until the server starts anew. |
| `MCChapterJobs_claims` | `BusyIsTrue`: `_complete_job` frees the chapter before the `finally` releases the lock. A job started in between fails with "This chapter is already being processed.", and nothing is. |
| `MCWallet_claims` | `NeverOverspent`: `python -m gateway backup` opens a `Store`, whose constructor clears the holds of the requests that the running gateway has in flight. |
| `MCWallet_claims` | `IdleHoldsNothing`: `int()` of a malformed usage field raises before `add_cost` (`app.py:558-566`, `604`), and the hold stays until the gateway starts again. |
| `MCWallet_claims` | `ClosedIsBooked`: `delete_account` cancels charged chapters without their ledger line. |
| `MCWallet_claims` | `RefundTakenBack`: a refund webhook that arrives before its payment is dropped, and the payment is credited afterwards. |
| `MCGatewayLogins_deleted` | `BalanceReturns`: two deletions of one account overlap, the second hashes the hash of the email, and the balance does not return with the email. |
| `MCLettering_edits` | `EditsKept`: rendering a chapter takes the text before the snapshot of the render; an edit in between is written over with the old text. |
| `MCAiMode_claims` | `BlocksUntilTranslated`: the gate looks at an object's mark before its translation, so a text translated by hand after A.I mode gave it up still blocks the export. |
| `MCAiMode_claims` | `BlanksDoNotBlock`: an answer that leaves every object of a call blank is not saved, and objects left blank on purpose are blocked. |
| `MCAiMode_claims` | `MovedDoNotBlock`: an object that was edited while the first call of its slice read it is neither translated nor asked for again (`translation.py:299-310`), and blocks the export. |
| `MCAiMode_claims` | `DroppedDoNotBlock`: the gate does not know `overlap_dropped`, so a text that was dropped because another covers it blocks the export. |
| `MCAiMode_claims` | `OnlyPolishRewrites`: the seams write over the typed text of a copy and drop one that is covered (`job.py:629`, `769-788`), and the lettering saves the text it read before the user typed (`job.py:955-957`, `render_commit.py:134-136`). |
| `MCAiMode_claims` | `JobWithinBudget`: the batches of scan, glossary and review add their costs without a look at the budget (`job.py:219-276`, `397-407`), so a job spends more than its budget and its calls in flight. |
| `MCAgentTurn_claims` | `IdleIsOnDisk`: `save()` logs `OSError`, `TypeError` and `ValueError` (`session.py:961-975`), and the turn goes idle with the conversation not on disk, against the comment at `4118`. |
| `MCAgentTurn_claims` | `NotWedged`: a helper's question puts back the status it found; if the turn has ended meanwhile, the session says *running* with nobody running, and takes messages into a queue nobody reads. |
| `MCEditorSaves_seen` | `SeenIsStored`: an answer older than a save under way takes back on the screen what was typed; the next edit of the object writes the old fields over it. |

Seen while modelling, with no run of their own:

*Pages.*
- A run decides early not to write the automatic clean (`page_processing.py:243`). When edits write
  one meanwhile and the snapshot still compares equal, the run changes the boxes and the cache of
  the old ones is what the next repaint starts from: a box moved there and back, a page skipped and
  taken back, a reset, a restore. `late` in `PageEdits` marks that moment.
- An edit on a page whose rollback failed stacks on the stranded journal (`manifest_utils.py:207`).
- `_free_logos_with_text` writes preserve regions under the manifest lock alone, between the plan
  and the commit of a preserve edit, which then writes its own over them
  (`ai_mode/job.py:539`, `pipeline_editing.py:329`).
- `done_indices` has the pages that failed or were stale too (`pipeline.py:670`): the review cuts
  crops from whatever clean image they have.
- The A.I mode that is given a running job gets its pages, not the ones it asked for, and without
  its art screen (`page_processing_jobs.py:72`); the pages missing from it are not cleaned and the
  stage succeeds.

*Texts, pictures and archives.*
- The base image may be replaced between the comparison in `_commit_render` and the second
  signature (`render_commit.py:205`, `:220`); the model keeps it apart as `slipped`. The signature leaves out fields of
  the lettering that the renderer reads.
- A translation of white space draws nothing and is stamped current (`page_renderer.py:262`).
- `apply_final_review` approves whatever revision is current when it comes.
- A crash between a source edit and its reconciliation leaves the machine's text of the old source
  (`lost` in the model).
- An export request writes over an edit made since its snapshot (`export.py:432`).
- A grouped reading of an object whose boxes have not been read is discarded by its own side effect
  (`ocr/service.py:826-848`), and cannot notice a box that moved there and back. Items of a
  cancelled OCR job are neither counted nor retried (`jobs.py:210`).

*A.I mode.*
- Polish writes over text typed since, without a revision check (`job.py:718-734`), polishes lines
  the user typed, ignores the budget, and looks at the cancel flag only before and after.
- An error that escapes one slice fails the job while the other slices go on, with the reservation
  settled. The cost of a call that ends in an error or in "Slice changed" is not counted. A call
  whose cost is not known switches the budget off for the rest of the job (`job.py:175-184`).

*Agent.*
- A message sent after a stop, or during a compaction, stays queued while the session is idle and is
  told to the model with the next one. A stale save may overwrite a newer one (`overtaken`).
- A save of the scheduler, of a compaction or of a command (`session.py:1273`, `1283`, `3664`) that is
  past its check of `_closing` brings the file of a
  deleted session back (`DeletedStaysDeleted` says that nothing else does), and the scheduler's tick may start a turn on a closed session. Undo looks for an idle session and works outside
  the lock. Two helpers that edit may start at once. An approval carries no call id, so a late or
  double click answers the next card. Two resumes at once make the session twice.

*Gateway.*
- `add_cost` charges a request that is answered after its chapter was closed; the line written at
  closing does not have it (`store.py:446`). It is the second way `ClosedIsBooked` fails.
- A reservation whose
  session was checked before `delete_account` leaves an active chapter on the deleted account
  (`app.py:486`). `cancel_login` forgets whatever code the email has by then (`store.py:237`).

*Editor in the browser.*
- A failed save captures the object as it is by then and writes over a newer entry. Aborting a save
  of places does not stop the server (`editor-geometry.js:144-148`).
- `ensureAutoTextObjects`, `refreshChapterManifest` and the export button replace `currentManifest`
  without the edits that wait (`editor.js:289`, `:407`). Overlays keep the object of the manifest
  they were drawn from, so a drag after an answer is lost (`overlays.js:84-128`).
- Edits that wait are not flushed when another chapter is opened, and then skipped silently
  (`editor-persistence.js:114-118`). Saves under way at `pagehide` are lost.
- `removePendingGeom` moves the generation on without a timer, so a saved place may stay marked
  unsaved (`editor-geometry.js:165`). Error marks stay after a later flush has succeeded. Edits made
  while an undo is under way are not in the history (`editor-history.js:81`).

## 6. Not modelled

About a sixth of the lines of the repository stand behind a definition here. The rest is mostly of
these kinds:

- *Numerical and image code*: detectors, inpainting, OCR engines, crop quality, reading order, fonts
  and text layout. Its results are free choices here (`Detect` may find anything, a cut through
  content may fall anywhere in its range). Pixels and scores have no small instance.
- *Network and formats*: downloaders and uploads (with one manifest write at the end), providers,
  keys, prompts and the parsing of answers, MCP servers, web search.
- *The agent's tools*: files, shells, sandboxes and scripts, what a call does rather than when it
  may run; goals, key limits, nudges, memory, plugins and skills, which choose what the model is
  asked next. Undo, branches and fan-out work on the files of a workspace.
- *Views*: most of `app/static/js` and the browser extension show the server's state and poll it.
- *The launcher, installers, packaging and the scripts* that measure or test.
- *Manifest storage*: `load_manifest`, `normalize_manifest_schema`, the sidecar masks of
  `mask_store.py`. The models take a save as one atomic replace, which `atomic_replace` is.
- *Several server processes on one data directory*: the documented deployment runs one, and
  recovery at start takes no locks.

Inside the modelled parts, left out on purpose: workers and batches of a page processing job (pages
finish in any order anyway), metrics, errors kept for display, ageing of temporary files (any that
is not named by a journal may be old enough), an `OSError` of the `unlink` that ends a save of a
session, a second command of the agent while one is under way, the cost of polish (which nobody
counts), a user who clears a text or deletes an object under the A.I mode, `apply_final_nms` in
Seams (it joins what the fold joins), the clean stage with no page at all (it returns at once),
expiry times of chapters in the gateway (any may have expired), texts beside each other in Seams,
creation, deletion and styling of text objects in Lettering (in EditorSaves they are deleted),
several text objects on a page, the detector candidates and cleaning blockers of the editorial gate.
Each component's note in `PROJECT.json` says what its model leaves out.

## 7. Plan

Done, in order of importance (what may lose or corrupt a user's pages, then money, then progress,
then the rest): `ArtifactTransaction`, `Wallet`, `PageEditing`, `ChapterJobs` with their proofs;
`Slicer` and `Seams` with theirs; `OcrJobs`, `Lettering`, `AiMode`, `AgentTurn`, `GatewayLogins`,
`EditorSaves`; the proofs about all of them but the texts of `Seams`.

Left:

1. Manifest storage: sidecar masks that a failed save takes back and a prune removes, against readers
   that hold a reference without a lock.
2. `TextReplaced` for any layout needs facts about sorting and folding sequences of objects, which
   the model has to say without recursion first; and `Seams` for two columns of texts.
3. The snapshot of a run with the restore mask in it, should the code come to compare it: `PageEdits`
   would then be `PageEditing` itself.
4. The agent's checkpoints and undo beside helpers that edit; the other blockers of the editorial
   gate; undo in the browser editor.

The run of a new module replaces one of the smaller ones of section 3 where it asks more of the
same code: the project keeps few runs, each of them a question.
