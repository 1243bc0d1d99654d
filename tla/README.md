# TLA+ specifications of the completed-runs validator

The validator lets several people on several machines review images of completed field runs. A
run is a tar file in S3; a server picks a sample of its images, caches them as JPEG files and
records them in SQLite; reviewers mark each image `pass` or `fail`; a run whose images all have a
verdict is completed and the result is mirrored to a Google Sheet, which is also where the runs
come from. This directory specifies the parts of it in which steps of different threads,
processes, machines or scripts meet, checks them with TLC on small instances, and proves their
invariants and action properties with TLAPS for all instances.

## 1. Inventory of the system

| Component | Code | State | Operations | Module |
|---|---|---|---|---|
| image cache | `app/services/image_cache.py`, callers in `app/routes.py`, `scripts/repair_missing_cache.py` | `run_images` rows, `runs.image_target_count / total_image_count / tar_key`, files under `data/cache`, one lock per run and process | view, append, re-fetch one file, load the next review image, prefetch, bootstrap, recompute targets, repair | `Selection`, `ImageCache` |
| review listing and background worker | `_prepare_review_images`, `_bootstrap_review_run` in `routes.py`; `queue_run_image_ensure`, `_review_ensure_worker` in `image_cache.py` | `_REVIEW_ENSURE_KEYS`, `_REVIEW_ENSURE_QUEUE`, the load in progress | list ready images, prepare runs, queue, load, queue again | `ReviewQueue` |
| review page | `app/static/review.js` | the list, drafts in a `Map`, the poll timer, the load token | load, poll, apply an answer, mark, submit, change tabs | `Pages`; `ReviewQueue` (what the list can hold) |
| run page | `app/static/app.js` | rows, selections | load and refresh rows, select, submit | `Pages` |
| validations and completion | `app/services/validations.py`, `routes.py` | `image_validations`, `compltd_*` columns | submit and save verdicts, complete a run | `Completion` |
| sheet writeback | `app/services/sheet_writeback.py`, background tasks of `routes.py` | the sheet's app-owned columns, its grid | write a completion, write a batch of progress reports, push all completions; widen the grid, add headers, find rows | `Completion` (what), `SheetRows` (where) |
| metadata sync | `app/services/sync.py`, `sheets.py`, `scripts/sync_runs.py` | `runs` rows, `sheet_validation`, `compltd_status` | fetch the sheet, upsert runs, push | `Completion`, `ImageCache!SyncTar` |
| merge of databases | `scripts/merge_remote_dbs.py` | a pulled copy, one transaction | pull, merge runs, images, verdicts, commit | `MergeDbs` |
| database access | `app/db.py`, `schema.sql` | connections, WAL | `write_conn`, `get_conn`, retries, migrations | transactions of all modules; retries in `Pages` |
| reports | `routes.py` | none | read-only SQL | - |
| reports and login page | `templates` | one request at a time | - | - |
| S3 index, manifests | `services/s3_index.py`, `scripts/generate_manifests.py`, `scripts/backfill_sheet_metadata.py` | S3 objects | batch jobs | - |
| authentication, configuration, start | `auth.py`, `config.py`, `main.py`, `scripts/start_validator_tmux.sh` | none | - | - |

How they interact:

- A **listing** (`GET /api/review/images`) reads which images are ready and, if none is, loads runs
  itself through the image cache; it then queues pending runs for the **worker**, one daemon thread
  that loads one image of a run at a time. The **page** polls while its list is short.
- The **image cache** does S3 work with no transaction open. Its run lock orders the threads of one
  process; the database orders nothing but single transactions. Targets are changed with and
  without the lock.
- A **verdict** is stored against an image's index, so it is only about the right picture if the
  image cache never moves a picked image (`Selection`). Submitting it may complete the run in the
  same transaction. The answer is sent first, the **sheet** is told later by a background task.
- A **sync** reads the sheet, rewrites all runs in one long transaction, and pushes completions to
  the sheet before it commits. A new tar resets the run's selection size and completion.
- A writer of the **sheet** reads all of it, then widens it, adds headers and writes cells in further
  requests, by the row and column numbers of that first read; people edit the sheet meanwhile.
- A **page** keeps drafts to itself until they are submitted. Its listings and submissions overlap;
  a submission waits for the database, is retried there, and may be answered after the page gave up.
- The **merge** copies another machine's database file and folds it into the local one while the
  servers of both go on.

What is hard about it: threads that use what they read before waiting for a lock; a slow fetch
between a snapshot and the transaction that records it; background tasks that are lost, overtaken
or fail without telling whether they had an effect; two machines that write one sheet row; a
worker that queues its own work again; answers that arrive in another order than their requests; a
script that reads before its transaction opens, from a copy of a database that is written to
meanwhile. `PROJECT.json` lists every such hazard at its line.

What makes each component correct:

- image cache: picks never move, no two operations assign an index twice, a served file shows its
  row's member (but for finding 3), an ensure that ends well delivered, and the lock is always left
  again;
- review queue: a run asked for is neither lost nor queued twice; the page never waits for nothing
  while images are left; everything that can be loaded is reviewed in the end;
- completion: a completed run has a verdict for every image of the target it was completed for;
  the sheet tells the truth, the mirrored columns do not run ahead of it, it recovers from lost and
  late reports while syncs go on, and resolved runs are not offered again;
- pages: what a reviewer decided is stored or still a draft, until the reviewer drops or changes
  it; a listing is shown under its own tab; no button stays disabled;
- sheet rows: a result lands in its run's row and its own column, whoever else writes, as long as
  nobody rearranges the sheet between the writer's requests; no header twice; no cell off the grid;
- merge: it delivers all it read, keeps the machine's own verdicts, and its own completions unless
  they were made while the script was between its read and its write of the run; completions stay
  earned unless a copy was torn.

## 2. Modules

`Selection` is the abstract specification: a list of members, without gaps or repetition, that
only grows. `ImageCache` implements it and the rest of the system relies on it: in `Completion`,
`ReviewQueue` and `MergeDbs` an image is its index, and "one more image" is a `Selection` step.

| Module | What it is |
|---|---|
| `Selection` | what the image cache promises about one run |
| `ImageCache` | threads of one or more processes, operation by operation, on one run |
| `Completion` | databases and workers of several machines and one sheet row, for one run |
| `ReviewQueue` | the page, its listings, the worker and its queue, for several runs |
| `MergeDbs` | the merge script beside the servers of all machines |
| `SheetRows` | the cells of the sheet, its writers request by request, and people who edit it |
| `Pages` | one reviewer at the review page or the run page, requests in flight, and the server's retries |
| `MC...` | instances for TLC: values of function constants and symmetry |
| `ImageCacheProofs`, `ImageCacheSampleProofs` | theorems about `ImageCache`: one process; any number of them while the tar stays |
| `CompletionProofs`, `CompletionSheetProofs` | theorems about `Completion`: always; under what the sheet's claims rest on |
| `ReviewQueueProofs`, `MergeDbsProofs`, `SheetRowsProofs`, `PagesProofs` | theorems about the module of that name |

Definitions marked `MUTANT` in the modules are not used by the specification. Each is a plausible
mistake in the definition it names (a dropped guard, a missing cap, another order), and TLC finds
the property paired with it in `PROJECT.json` violated when it is put in that definition's place.

### ImageCache

One action is one transaction, one S3 call or one file. `pc[t]` names what thread `t` does next.
The variables `target`, `total`, `tar`, `rows` are the run's columns and `run_images` rows; `file`
is the cache directory; `lock` has one run lock per process; the others are the locals of a thread.

| Code | Actions |
|---|---|
| `ensure_run_images` (view) | `StartView`, `Acquire`, then `Snapshot` |
| `append_run_images` | `StartAppend`, `Acquire`, `Bump`, `Snapshot` |
| `_ensure_images_locked` and what it calls | `Snapshot`, `OpenFile`, `SaveFile`, `Persist` |
| `ensure_image_cached` | `StartFile`, `Acquire`, `FileRead`, `OpenFile`, `SaveFile`, `Persist` |
| `ensure_manifest_image_count` | `CountRead`, `CountFetch`, `CountWrite` |
| `_load_next_review_image` | `StartWorker`, `Acquire`, `NextRead`, `NextPlan`, ... |
| `_prefetch_run_images` | `StartWorker`, `Acquire`, `PreRead`, `PreManifest`, `PreTotal`, `Chunk`, ... |
| `_bootstrap_review_run` | `StartBootstrap`, `BootRead`, `BootReread`, ..., `BootEnd` |
| `_sync_review_image_targets` | `StartRetarget`, `WriteTarget` |
| `repair_missing_cache.py` | `StartRepair`, `ClearPaths` |
| `sync_runs` on a new tar; freed disk space | `SyncTar`, `DeleteFile` |
| any exception, or the end of the process | `Fail` |

Members are numbered by their seeded score, which depends on the run and the member name only. A
file is identified with the member it was made from, `Partial` is one that was not written to its
end. `key[t]` is the tar whose manifest a thread works with, `source[t]` the tar whose bytes it reads.
They differ when a prefetch, which keeps its manifest over all its chunks, reads a tar that a sync has
found meanwhile: nothing is checked then, and the picture may be that of any member of the new tar
(`Shown`), or the fetch fails. Appends stop at `MaxTarget`; `Environment` switches `SyncTar` and
`DeleteFile` on.

### Completion

`db[m]` is the run's row and verdicts on machine `m`, `sheet` the columns of its sheet row,
`writer[m]` the open write transaction, `draft` what such a transaction has made of the row.
`Submit`, `Save` and `CompleteRun` are the requests; `ReadPayload`, `WriteSheet` and `Mirror` are
what `_sync_completion_to_sheet` and `_sync_runs_to_sheet` do afterwards; `SyncFetch`, `SyncUpsert`,
`SyncPush` and `SyncCommit` are a sync, `SyncUnlisted` that of a run which the S3 listing does not
have; `Abandon` is an exception, a busy timeout or a restart;
`Pick` and `Retarget` are what the image cache does to the run. A sheet write that fails may have
been carried out. The Google client is one atomic update of the row.

### ReviewQueue

`Poll` sends a listing, `Reload` is the Load button; `Read`, `Boot`, `Fill`, `Skip`, `Check`, `Count`,
`Queue`, `Put`, `List` are `_prepare_review_images` and the final query; `Answer` replaces the page's
list and sets its timer and message; whether the list was empty is remembered with the request
(`had`), as it is read when the listing is sent. `Submit` and `Saved` are a submission and its answer. `Get`,
`Load`, `LoadFails`, `Discard`, `Requeue`, `PutBack` are one turn of `_review_ensure_worker`. The key is
taken under `_REVIEW_ENSURE_LOCK` and the run enters the queue after the lock is released, so these
are separate steps. `Restart` loses keys, queue and worker. A load is one step here (`ImageCache` has
its parts) and runs have manifests. Loads of the runs in `Broken` always raise, those of others
`MaxFailures` times in all: a run that is skipped once is missing from that listing's count of
pending runs, so the page may stop polling with images left. It says then that runs were skipped
(`page.notice`), which is what `NeverStranded` asks for and `Reload` reacts to. The runs a
listing has before it are a set (`todo`), from which `First` takes the next in the order of the
query. The page shows the unreviewed tab.

### MergeDbs

Servers change their rows (`Index`, `Pick`, `Judge`, `Complete`, `Note`, `Retarget`); the script
copies a remote's database (`Pull`, `PullRest`), and for each run reads the local row (`ReadRun`) and
inserts or updates it (`WriteRun`). `rsync` copies the database file without its write-ahead log: an
earlier state of the remote, unless a checkpoint writes to the file during the copy. Then what is read
of a run is put together from the earlier and the later state (`Mixed`: its row from one of them, its
images from one of them, each verdict from one of them).
`sqlite3` opens the transaction at the first write, not at the first read: until then the server
may write in between. `CommitRemote` merges images, then verdicts, and commits; `Fail` rolls back.
Tars stay, and reviewers do not change their minds. Two variables are no part of the code, and
only remember (`History`): `torn`, that a completed run was pulled in a state it never was in, and
`raced`, the runs that the local server completed while the script was between its read of the run and
its write.

### SheetRows

`grid` is the sheet, rows of cells; blank cells at the end of a row are not part of what a read
returns (`Headers`). A writer goes through `Read`, `Measure`, `Resize` (`_expand_grid_if_needed`),
`AddHeaders` (`_ensure_app_headers`: `Missing` headers are put behind those there are, which makes
them `Completed`), `Write` and `Answer`; a sync then goes on to its next run with the same
client (`GoOn`), which has looked at the width of the grid already (`expanded`). Each is a request
of its own, `Fail` ends it anywhere, and a write outside of the grid is refused by the service. `ReadBack` is what
`fetch_done_runs` makes of the grid. `Sort`, `InsertRow` and `InsertColumn` are people; `moved`
remembers for each writer whether one of them came between its read and now, `spoiled` whether such
a writer wrote, `stale` whether people rearranged the sheet since the read that a client's width goes
back to. Two of the eight columns stand for all. Not modelled: blanks around names, the tab's
title and the access token.

### Pages

`page` is what one page shows and offers; `listing` and `submission` are the requests in flight.

| Code | Actions |
|---|---|
| `setState`, `noteFilterChange` | `ClickTab` |
| `refreshQueue`, `applyQueueUpdate`, the timer | `LoadQueue`, `Poll`, `List`, `Apply`, `ListingFails` |
| `loadRuns`, `resetTable`, `refreshRunImages` | `LoadRuns`, `ResetTable`, `RefreshImages`, `List`, `ShowRows` |
| `setDraft`, `setDraftSelection` | `Mark`, `Choose` |
| `submitDrafts`, `submitValidation` and their requests | `Submit`, `Store`, `TryAgain`, `Kill` |
| their answers | `SavedDrafts`, `SavedValidations`, `Error`, `Lose` |
| `sync_metadata`, as far as others see it | `SyncLocks`, `SyncEnds` |

The load token is modelled by what it does: raising it drops the answers to all listings in flight
(`Awaited`). The run page has no token. `decided` records what the reviewer chose last, `contested`
the images whose verdict was changed while a submission that matters was in flight; they are not
part of the code. Which images are ready is the subject of `ReviewQueue`, what a verdict completes
that of `Completion`.

## 3. Runs

Distinct states are those TLC reports with the symmetry of the configuration.

| Run | States | Shows |
|---|---|---|
| `core` | 3,186,934 | Two threads of one process append, re-fetch, load for review and repair (views, bootstraps, prefetches and target updates are in `processes` and `live`) while the tar is replaced and files are deleted. `SnapshotStable`, `ServedFileIsItsRow` and the refinement `ImplementsSelection` hold. |
| `processes` | 3,118,054 | Two processes share the database and no lock. While the tar stays, `SampleIsDeterministic` and `ServedFileIsItsRow` hold: the seeded scores alone keep both in agreement. |
| `live` | 214,614 | `LockReleased`: every operation leaves the lock, also the chunk loop of the prefetch while other threads move the target. `EnsureDelivers`: an ensure that ends well has on disk all that is recorded of what it was asked for, and has recorded that many or lowered the target to what there is. |
| `whole` | violated | `ServedFileIsWhole`, finding 1. |
| `stale` | violated | `ServedFileIsItsRow` with a prefetch and a sync, finding 3. |
| `machine` | 4,946,079 | Two workers on one machine, changing verdicts and targets, tars replaced, sheet failing: `CompletionIsEarned`, `MirrorFollowsSheet`. |
| `recovers` | 279,508 | One machine with final verdicts, a sheet that can be reached, and targets that move between a completion and the reading of its counts: `SheetTellsTruth`, `ResolvedRunsAreSkipped`, and under fairness `SheetRecovers`. |
| `skip` | violated | `ResolvedRunsAreSkipped` when the sheet cannot be read, finding 2. |
| `review` | 103,589 | A broken and an empty run before a sound one, two listings in flight, one restart and one passing failure: `KeyIsTracked`, `NeverStranded`, and under fairness `NoStarvation`, `EverythingIsReviewed`. |
| `merge` | 8,171,251 | One remote is merged again and again while both servers work, targets differ, and a checkpoint may tear the copy: `CompletionIsEarned`, `MergeDelivers`, `OwnVerdictsStay`, `OwnFactsStay`. |
| `rows` | 5,025,380 | Two writers, of batches or of run after run with one client, on a sheet with no columns of the application, two columns wide, one run listed twice, one not listed yet, two edits: `ResultsInPlace`, `HeadersOnce`, `ReportedIsRead`, `NeverRefused`. |
| `pages` | 514,832 | Either page with two listings and two submissions in flight, two tabs, two tries per submission, and a sync, a lost answer, a failed listing or a restart: `NoDecisionLost`, `ListingFitsTab`, and under fairness `LoadEnds`, `DecisionsAreStored`. |

`core`, `machine`, `review`, `merge`, `rows` and `pages` check their module's `TypeOK` as well. A prefetch
beside a sync is in no passing run, since finding 3 would end it; that picks and snapshots are stable
there too is what the theorems `SnapshotsAreStable` and `CacheImplementsSelection` say.

Why the bounds are enough:

- *ImageCache*: two threads are the two sides of every race over one run. Two tars, the second with
  one more image of a lower score, give the three cases of a re-upload: an image that is gone, one
  that stays, one that would have come first. `processes` has three members, so that one
  process can be two picks ahead. `Imported = 1` starts some runs with a row that has no file.
  `PrefetchMin = 4` in `live` makes a target that is larger than the tar, the
  case in which the chunk loop needs the cap. The proofs cover all sizes.
- *Completion*: two images tell an index from a count and allow one image beyond the target;
  `Targets` contains 0, the value the code replaces by `DEFAULT_IMAGE_COUNT`. Two workers give
  one overtaking task, and a sync beside a request. `recovers` has three images and targets 1 and 3, so
  that a target can move over verdicts that were given ahead of it. All runs have one machine; that
  two machines write one sheet row matters to `SheetTellsTruth` and `ResolvedRunsAreSkipped`, whose
  theorems are about any number of machines.
- *ReviewQueue*: one sound run behind as many unsound ones as the run limit is the situation where
  the limit could starve it; two listings are enough for a stale answer.
- *SheetRows*: two writers are the two sides of each race; the second run and the second row of the
  first tell a wrong row from a right one; the grid starts as wide as its headers, so every first
  writer has to widen it. The run stops exploring where no result is claimed any more
  (`StillClaimed`: the sheet was spoiled, and so nothing is promised).
- *Pages*: one image, because no definition relates two images except that one request carries
  several and is stored as a whole, and that the run page clears all selections at once, which
  `contested` takes into account. Two listings and two submissions give every order of two answers;
  a second submission of the same draft comes from any answer that enables the button again. One
  fault of each kind meets every interleaving; two faults together are not explored to the end.
- *MergeDbs*: runs do not influence each other except through the transaction, which `Fail` and
  the repeated merges exercise. Two images give two targets, so that the completions of two machines
  can differ. The time of the summary is not changed (`MaxTime = 0`): it decides between two summaries
  as their being completed does, which is changed.

**Fairness.** `ImageCache!FairSpec`: a thread inside its lock goes on, since S3 calls and the
SQLite busy wait return or raise. Nothing is assumed about which thread gets a free lock, or that an
operation ever starts. `ReviewQueue!Running`: timers go off, each request in flight proceeds
(one condition per request), submissions are answered, and the worker thread runs; `FairSpec` adds
that a reviewer who is shown images reviews some, and presses Load on a page that has stopped and
says that runs were skipped. `Pages!FairSpec`: listings and submissions are taken up and answered
(one condition per request), a sync ends, since each of its requests has a timeout, and the reviewer
presses Submit when the button is enabled. There is no condition on clicks, marks, polls or loads.
There is no fairness on `Restart`. `Completion!FairSpec`: work under way ends, perhaps by failing
(background tasks may be lost at any time); an operator keeps on syncing; and of all these syncs, by
whichever worker, some read the sheet into the database and some get from a listed run to the push of
its completion, that is, not each of them fails or misses the run. Nothing is assumed of requests.
`MergeDbs` and `SheetRows` have safety and action properties only.

**Deadlock** is checked, except in `review`: a page that has shown everything stops.

## 4. Findings

Each is a run that TLC ends with a counterexample; `PROJECT.json` quotes code and documentation.

1. `whole`: a process that dies while it re-fetches a deleted file leaves a truncated JPEG under
   the final name, which is served from then on (`image_cache.py:746`).
2. `skip`: a sync whose read of the sheet fails goes on with an empty sheet and overwrites
   `sheet_validation` and `compltd_status`; a resolved run is offered again (`sync.py:27`).
3. `stale`: a prefetch reads the manifest once, and the run's tar key again before every chunk. After
   a sync has found another tar it reads that one at the offsets of the old manifest. The bytes are not
   checked and truncated images are accepted (`image_cache.py:23`), so a row can get the picture of
   another image (`image_cache.py:437`).

Beside these runs, the models show the following. Each is written down in the code itself, or no text
contradicts it, or the text it is at odds with is quoted here:

- A verdict that is submitted again for a completed run sends a progress report, which puts the
  sheet's `compltd_status` back to `in_progress` (`routes.py:582`), although the comment at
  `routes.py:599-600` has the sheet as "a mirror that catches up a moment later (and via
  /sync-remote-dbs)". No task is left to correct it; `SheetRecovers` says that syncs do. The outcome
  column survives, which is why `MirrorFollowsSheet` holds.
- A copy of a remote database that is torn by a checkpoint can have a completion without the
  verdicts it rests on (`merge_remote_dbs.py:44`), and the merge takes it over: not what "Validate all
  {target} active images before completing this run" (`validations.py:41`) asks for. `CompletionIsEarned`
  leaves it out by `torn`.
- A run completed locally between the merge script's SELECT and its UPDATE gets the remote's
  completion (`merge_remote_dbs.py:99`), although "once a run is validated it stays validated" and its
  facts are "never overwritten or wiped" (`merge_remote_dbs.py:63-65`). It stays earned: the remote's
  verdicts come along. `OwnFactsStay` leaves it out by `raced`.
- A client that has measured the grid once does not do so again (`sheet_writeback.py:160`): if people
  insert columns during a sync, a later run's cells can lie outside of the grid, and its write is
  refused though its own read was current. `NeverRefused` leaves it out by `stale`.
- Broken runs at the head of the fixed order use up `REVIEW_BACKGROUND_RUN_LIMIT` at every listing, so
  sound runs behind them are prepared only when nothing at all is ready (`routes.py:810`).
  `EverythingIsReviewed` still holds: the listing itself then prepares them.
- `sync_metadata` keeps its transaction open over requests to the sheet (`routes.py:297`), which
  `db.py:205-210` asks of no one. Submissions fail meanwhile; their drafts stay and are stored
  later (`DecisionsAreStored`).
- Sorting rows, or inserting rows or columns, between a writer's read and its write puts results
  into other cells, those of the `validation` column included. After a sort, another row of a run
  that is listed twice may be the one that is read.
- An edit made while a submission of the same image is in flight (on the run page: of any image) is
  deleted by its answer (`review.js:280`, `app.js:462`). Drafts of images that do not fit the tab that
  was clicked are hidden by the next answer of a submission and dropped by the next load. A poll
  that was listed before a submission and answered after it shows the old verdict; choosing that
  verdict again then makes no draft. These are the exemptions of `NoDecisionLost`.

## 5. Proofs

`tlapm` proves the following for all values of the constants that satisfy the named assumptions of
the modules: any threads, machines, requests, runs, images, rows and bounds. Every invariant and
every action property that a passing run checks is the subject of a theorem; so is the refinement.
No assumption is made beyond those named here, each with the case that it leaves out.

In each module an inductive invariant `IInv` (or `SInv`) is defined by named parts, a lemma per
action says that it keeps them, `InvHolds` puts them together, and each theorem follows from
`InvHolds` in a few lines. What follows says why each invariant is as strong as it is.

**ImageCacheProofs**: `TypeCorrect`, `SnapshotsAreStable`, `ServedFilesMatch`,
`CacheImplementsSelection` and `EnsuresDeliver`, each for any number of threads *in one process*
(`OneProcess`, an assumption of the theorems and the deployment the locking comment in
`image_cache.py` has in mind). The invariant

    IInv == TypeOK /\ SampleInv /\ LockInv /\ SourceInv /\ PlanInv /\ ServedInv

is inductive; none of its parts alone is. `ServedFileIsItsRow` is kept by `Persist`, which sets
paths, only because what the thread has written shows the members it planned (`Written`), and
because the plan still fits the rows (`Fits`); that holds because nobody else persists meanwhile
(`LockInv`: a thread inside the lock's body is the thread the lock names); and `Fits` gives
`SampleInv` after the step. Which picture is read is another matter: it is the planned one if the tar
read from is the manifest's (`SourceInv`), and so `ServedFilesMatch` assumes `ManifestsHold`: no prefetch,
or no sync. Finding 3 is the case without it; types, snapshots and the refinement do not need it.
The refinement follows from `SampleInv`, which is `Selection!IsSample` of the
picked members: every step leaves the picks alone or is a `Persist` that extends them.
`EnsuresDeliver` also needs `DeliverInv`: each index a thread was asked for is in its plan or recorded
and on disk, unless the tar is too short, and what it is done with is on the disk; and `KindInv`, which
says in which labels an operation of a kind can be, since the promise is about the end of a request and
not of a chunk. It assumes `NothingLost`, that no file is deleted and no path cleared during the ensure;
with either, an ensure may end well with nothing to show for an index, in the code as well.

**ImageCacheSampleProofs**: `SamplesAreDeterministic`, `ServedFilesMatchAnywhere` and
`ProcessesImplementSelection`, for any number of processes, which share no lock, while the tar stays
(`TarStays`). Mutual exclusion is gone, so the argument is another one: in `RankInv` rows, plans
and files are numbered by a member's rank among the scores of the tar, and therefore two threads
that know nothing of one another plan the same member for an index and write the same file. That a
plan of the lowest scores not yet taken goes on in rank (`PicksHaveRank`) is the counting argument.

**CompletionProofs**: `TypeCorrect`, `CompletionsAreEarned` and `MirrorsFollowTheSheet`. The
invariant

    IInv == DbInv /\ DraftInv /\ TaskInv /\ SheetInv /\ WriterInv

carries along what open transactions and background tasks hold: a completion someone is about to
note (`TaskInv`), or that a sync has read back (`DraftInv`), has been in the sheet. Lemma
`EarnedCovers` is the counting argument behind `complete_run_validation`: it compares the number of
verdict rows below the target with the target, and because indexes are dense and distinct that
number is reached only if every image has a verdict. `OutcomeStays` is what makes
`MirrorFollowsSheet` survive progress reports.

**CompletionSheetProofs** proves the safety properties of `recovers` from what each of them needs:

- `SheetIsTrue`, if verdicts are final and the tar stays (`Revise = FALSE`, `TarMoves = FALSE`;
  the sheet may fail). `TruthInv` says that every completion in the sheet *and in any task on its way
  there* holds on some machine; verdicts that only grow keep it true. Without the assumptions
  the sheet is out of date until the next report, which is no contradiction.
- `ResolvedAreSkipped`, if the sheet does not fail (`SheetFails = FALSE`): what a sync has made of a
  row follows from the row or from the sheet's validation column (`ValidInv`). Finding 2 is the case
  without the assumption.

**ReviewQueueProofs**: `TypeCorrect`, `KeysAreTracked`, `NobodyIsStranded`. `KeyInv` replaces the
count in `KeyIsTracked` by ownership: the key of a run is held by one place in the queue, by the
worker or by one listing about to queue it, and by nobody else. For `NeverStranded` a page that has
stopped must not have been misinformed: `AnswerInv` says of a listing still on its way that, if it
skipped nothing and counted nothing as pending, then everything is cached *for good* (nothing is taken
back), and `StopInv` that a page which shows nothing and waits for nothing was told so, or has an
answer coming.

**MergeDbsProofs**: `TypeCorrect`, `CompletionsAreEarned`, `MergesDeliver`, `OwnFactsAreKept`,
`OwnVerdictsAreKept`. The invariant is proved twice, for histories with torn copies (`IInv(TRUE)`), in
which completions may come without verdicts, and for those without (`IInv(FALSE)`); `Inv` puts them
together. Inside the transaction a run may have a completion before the verdicts that earn it, which
are merged at its end (`SoundWith`). `SeenInv` is about the SELECT outside of the transaction: what was
read of a row still holds as far as the UPDATE relies on it, because rows do not disappear and
completions are not taken back. `TodoInv` is the loop's invariant. `RacedInv` says that the script has
read of every completion that is not raced, and that the transaction has it unchanged.

**PagesProofs**: `TypeCorrect`, `DecisionsAreNotLost`, `ListingsFitTheTab`. `Agrees` relates, for
each image, the draft, every submission in flight, and what is stored; its last line, that on the
run page every submission in flight contains every draft, is what makes clearing all selections at
an answer harmless, and is exactly what an edit during a submission breaks (`contested`).

**SheetRowsProofs**: `TypeCorrect`, `ResultsAreInPlace`, `HeadersAreOnce`, `ReportsAreRead`,
`NoCellIsRefused`. The type invariant holds always; all else (`Claims`) only until somebody has
spoiled the sheet, as in the properties. For each writer `WriterSound` says what of its first read
can still be relied on if nobody rearranged the sheet (`Fits`): the headers are those it read or
those it will make of them, its rows are the first rows of their runs. The room is a claim of its own
(`Wide`), since a client's width goes back to an earlier read: the grid has room for the completed headers
of now, wherever they came from, until people rearrange it. The
step lemmas go through one relation between grids, `Follows(g, e)`: whatever another writer or
a person does to `g` that keeps it, no result and no sound writer is misled (`FollowsFits`). Two
writers that add headers at once are the interesting case: both write the same `Completed` headers.

**Only model-checked**: liveness (`LockReleased`, `SheetRecovers`, `NoStarvation`,
`EverythingIsReviewed`, `LoadEnds`, `DecisionsAreStored`), which is out of the provers' reach, and the counterexamples of section 4.

## 6. Not modelled

- Reports, the reports and login pages, authentication, configuration, start-up: stateless, or one
  request at a time. Of the reports only the availability rule appears (`Completion!Offered`).
- S3 index, manifest generation and backfill: sequential batch jobs, each of whose items is one
  listing, one read and one write that nobody else makes; a manifest appears in `ImageCache` as
  what a fetch returns, for whichever tar the run has then.
- Inside the database access: the migrations of `init_db`, which run before a process serves.
  Transactions are atomic, writers exclude one another and may give up. The upgrade of a stale
  snapshot that `db.py:14-18` describes is not modelled because no code makes it: writing requests
  begin with `BEGIN IMMEDIATE`, and in the others the first statement of a transaction is a write.
- The Google client's tokens and the title of the tab; blanks around header names.
- Of the pages: rendering, statistics, keyboard and touch, paging, filters other than the tabs.
  Of the merge: `--dry-run`.
- Rows that the merge script inserts beside a running server: `ImageCache` has them as rows it starts
  with (`Imported`), not as a step.
- Names, notes, timestamps, bytes of images, and `selection_version`, which no code changes.

## 7. Plan

Done, in this order: `Selection` and `ImageCache` (everything else relies on them), `Completion`,
`ReviewQueue`, `MergeDbs`, `SheetRows`, `Pages`; proofs of all their invariants and action
properties. Next:

1. Stronger statements, first as properties TLC checks and then as theorems: a merge repeated
   without changes in between changes nothing; a completion that is synced twice is written once.
2. That `ReviewQueue`, `Completion` and `MergeDbs` take the image cache's steps as `Selection`
   allows them, stated as refinements and not as an abstraction in words.
3. Rank of the lowest score not yet taken, and the ownership of a key, as lemmas about the
   operators alone, so that both `ImageCache` proofs share them.
4. The one hazard without a property, drafts hidden by an answer after a click on a tab
   (`review.js:283`).
5. A passing run with prefetch and sync together, which leaves out the rows that finding 3 spoils and no
   others; a run of `Completion` with two machines.
