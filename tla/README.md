# Event Creator: a verification project

Event Creator turns exported chat archives into calendar-like events. A user uploads an archive, or
imports those waiting in a watch folder; each archive becomes a *processing run* of seven steps
(unpack, filter by date, build the prompt, ask the language model, parse, deduplicate and save,
notify), executed in the background by a handler that Cloud Tasks calls. A page shows the progress
of a run, an API edits the events, and settings connect the user's cloud storage.

This directory holds TLA+ models of the parts of that system whose correctness depends on the order
of things, and of its pure rules; TLC configurations that check them; and TLAPS proofs about all of
them: the dispatch, the runner, the progress page, the provider sessions, the events, the storage row, the
watch folder, the settings row and the pure rules. Paths below are relative to `src/`.

## 1. Inventory

| Component | State it keeps | Operations | Hard behaviours | What makes it correct |
|---|---|---|---|---|
| Pipeline dispatch (`app/services/pipeline/dispatch.py`, `app/api/v1/internal_pipeline.py`, `upload.py`, `import_pending_files.py`, `cloud_tasks.py`) | `processing_runs.status`; tasks on the queue; the batch remainder inside each task | create rows, schedule, mark unscheduled runs, push endpoint, claim, advance the chain | at-least-once delivery, retries beside a handler that is still running, process death, attempts that run out, a scheduling error that is only apparent | one executor per run, batch order, no batch dropped, every run ends, one outcome told |
| Pipeline runner (`app/services/pipeline/runner.py`) | step rows, events, count, status, the file's folder | seven steps, deduplication, notification, filing | death between any two commits; two runs of a user saving the same events at once | rows, events, count, notification and status agree; no event twice |
| Progress page and stream (`app/services/pipeline/progress.py`, `app/pages/processing.py`, `app/api/v1/processing_runs.py`) | what the browser shows; what a connection has sent | paint, poll, cap, reconnect | two SELECTs with the runner in between; lost connections | what is shown is a past of the run, never taken back, and final in the end |
| Storage connection (`app/api/v1/storage_config.py`, `storage_google_drive.py`, `storage_dropbox.py`) | one `storage_configs` row per user; grants at the provider | save, switch, authorize, callback, disconnect | sessions that load, wait for the provider, then write; a rollback inside a helper | tokens belong to the provider the row names; cleared tokens stay cleared; "connected" means stored |
| User settings, prompt, onboarding (`app/services/user_settings.py`, `app/core/onboarding.py`) | a settings and a prompt row per user, created lazily | get-or-create, patch, flags, prompt | a lost race rolls back the caller's session; copies read before another's write | nothing saved is lost or undone; flags only go up; no task without its run |
| Events API and dashboard (`app/api/v1/events.py`, `app/pages/dashboard.py`) | `events` rows | list, page, delete, review, in bulk | rows vanish between SELECT and write; count, page and types are three statements; ties in the order | an event changes only as its owner asked; answers are true; a walk through the pages shows everything |
| Run list and logs (`app/api/v1/processing_runs.py`, `app/pages/logs.py`, `app/services/processing_logs.py`) | none of its own | filter, sort, page, summarise, search lines | days against moments, the ties of an import, pages past the end | every run in its place and on its day; a failure says why |
| Storage providers (`app/services/storage/`) | access token of a session; files in folders | list, read, write, move, refresh after 401 | refresh and retry; two-step moves | a retry uses the refreshed token; a file is never lost, and leaves the watch folder in the end |
| Notifications (`app/services/notifications/`) | none | send by channel | a channel fails | the pipeline is unaffected, the other channel is tried |
| Archive, date filter, date parser (`app/core/`) | none | pure functions over bytes and text | boundaries | the window, the date order |
| Language model client, registry, auth, configuration, templates, deployment | none that changes while the service runs | | | |

How they interact: the endpoints commit rows and call the queue; the queue calls the push endpoint
over HTTP; the handler calls the runner in-process; the runner and the progress stream meet only in
the database; the runner's filing and the set-up of a handler read the `storage_configs` row; every
notification and page may create the user's settings row.

## 2. Plan

Done, in this order, the behaviour a user depends on most first:

1. `PipelineDispatch`, its abstract specification `RunLifecycle`, `DispatchRefinement`, and the proofs
   `PipelineDispatchProofs`.
2. `PipelineRunner`, the inside of what `PipelineDispatch` folds into five steps; `RunProgress`,
   composed with it.
3. `StorageConnection`.
4. `Listing`, what the two lists of the program have in common, and on it `EventStore` and `RunListing`.
5. `SettingsRow`: the rows that are made on first use, inside the transactions of their callers, and
   what those callers do next.
6. `ProviderSession` with `ProviderSessionProofs`; `WatchFolder`; `FolderPath`.
7. `ExportReader`; `Rules`, which checks it, `RunListing`, `Listing` and `FolderPath` (both on `Ascending`)
   against reference definitions.
8. `EventStoreProofs`, `StorageConnectionProofs`, `WatchFolderProofs`, `SettingsRowProofs`,
   `PipelineRunnerProofs`.
9. The progress page in `PipelineRunnerProofs`, on the invariant of the runner; the refinement of `RunLifecycle` and `BatchSerial` in
   `PipelineDispatchProofs`; the reader and the bulk answers in `EventStoreProofs`; whose tokens the row holds;
   the saves and the sender of `SettingsRow`.

10. `RulesProofs`, on the lemmas about orders and pages of `EventStoreProofs`: the four properties of `Rules`,
   for inputs of any length.

Worth doing next: `WatchFolder` composed with `PipelineDispatch`, so that the queue decides which of
several runs of one file comes first; the paging of the providers' listings.

## 3. Modules

### PipelineDispatch
Rows (`status`), what users were told (`told`), where files are (`folder`); the requests that create
runs; tasks on the queue; handlers with a program counter (`pc`). A run is `<<batch, position>>`, so
the remainder of the batch that a task's payload carries is implied by the run it names. One action is one
commit, one call to another system, or the read that decides between two of them:

| Action | Code |
|---|---|
| `CreateRuns`, `Schedule`, `ScheduleFails`, `ScheduleLies` | the import endpoint and `CloudTasksPipelineScheduler`; an upload is a batch of one |
| `MarkUnscheduled`, `TellUnscheduled` | the loop of `mark_runs_failed_to_schedule` and the notification of each run |
| `Dispatch`, `Duplicate`, `Overrun`, `Retry` | the queue (`infra/cloud_tasks/provision.sh` sets attempts and concurrency) |
| `Check`, `Build`, `BuildFails`, `GiveUp`, `GiveUpNotify`, `Claim`, `ClaimMisses` | `run_pipeline_dispatch` |
| `Start`, `Process`, `Notify`, `Settle`, `Move` | `run_pipeline`, folded |
| `Advance`, `Respond`, `Abort` | `run_pipeline_push` |

`told` grows when `notifier.send` is called: whether an e-mail arrives is not the service's doing.
`FreshTask` and `IdleHandler` pick *one* unused task and idle handler, which are interchangeable.

### RunLifecycle, DispatchRefinement
`RunLifecycle` is what a reader of the dashboard may rely on: a batch appears at once, its runs are
taken up in turn and once each, one outcome is told before it is written and before the file moves.
`DispatchRefinement` states that `PipelineDispatch` implements it with the obvious mapping of the three
visible variables.

### PipelineRunner
The runs of *one* user, each with its claim won, commit by commit. Steps succeed or fail freely
(`StepOutcome`), the model's answer is any sequence in `Response`. `Lookup` sees committed events and,
through `seen`, those of its own batch; `Flush` waits for another transaction holding the same key and
`Conflict` is the `IntegrityError` or the deadlock victim.

### RunProgress
Extends `PipelineRunner` by the page (`OpenPage`, `PaintPage`) and the stream (`Connect`, `ReadSteps`,
`ReadStatus`, `Wake`, `Close`, `Break`, `BreakBeforeDone`). The two SELECTs of a paint and of a poll are
two actions each, in the code's order. A lost connection delivers any prefix of a poll's events.

### StorageConnection
One row, requests with a session each. `Changed(old, new)` is what an ORM flush does: it writes the
columns that differ from what was *loaded*, over whatever the row is now. `Store` flushes the tokens and
holds the row's lock; `CommitBoth`, `CommitFirst`, `RollBack` are the three ways
`get_or_create_user_settings` can end beneath `mark_storage_onboarding_done`. The Drive and the Dropbox
endpoints share the actions `Authorize`, `BeginCallback` and `BeginDisconnect`; what differs is which token
can be revoked (`Revocable`). `crossed` is a history variable for one property: an OAuth flow was open
while the row, or a save under way, named another provider.

### Listing, EventStore
`Listing` has the pages (`TotalPages`, `Window`), the order of rows (`OrdersOf`: every order that the
ORDER BY allows, as ties are in no order), NULL dates, date bounds and the search pattern.
`EventStore` is the events table. Deleting or reviewing one event is a SELECT and a later write
(`SelectToDelete`, `SelectToUpdate`, then `delete_event`, `update_event`), between which anything may
happen to the row; an UPDATE that finds no row is answered 500, a DELETE 204, as the ORM has it. The bulk
endpoints are one statement each. `SaveEvents` is the sixth step of a run as the table sees it. The
reader (`StartWalk`, `Count`, `ReadWindow`, `Render`, `NextPage`) asks for a list and follows its pages;
count, window and types are three actions because they are three statements. `calm` says whether a row
changed since the walk began, and is there for the properties only.

### RunListing
Operators: the selection, the order and the pages of the run list, where the page of a bookmark leads
(`Landing`), the summary of a failed run, and the search through a step's lines.

### ProviderSession
One provider object and its requests: the token it holds, its expiry, whether it has a refresh token,
and the request's place in `_request`. Tokens are numbered as they are issued. The clock and the
provider may expire or reject a token at any moment. Drive and Dropbox have the same code but for
`MergedHeaders`, the order in which the headers of the retry are put together.

### WatchFolder
The files of one user in the storage, on one of four backends. A file arrives by an upload (in Drive's
case two requests, `CreateEmpty` and `SendBytes`) or is dropped by the user; `Import` makes a run for
each file that is listed, whether or not it has one; a run reads its file and moves it, call by call:
`SeekFolder`/`MakeFolder` on Drive, `EnsureFolder` on Dropbox, `Relocate` for both, `Copy`/`Delete` on S3,
`Forget` in memory. `Handle` is the difference that matters: an id follows its file, an S3 key names
whatever is there.

### SettingsRow
The settings row and the prompt row of one user, and the requests that make, read or change them: looking
(`view`), saving a preference or an onboarding flag (`save`), the prompt (`put`; saving a text and
resetting it), an upload and an import, which add their runs to the session first, and the notification
sender. `Look`, `Insert`, `InsertLoses`, `Reread` are the get-or-create with its rollback; `Save` writes
the columns that differ from what was *read*; `Refresh` and `Schedule` are what an upload and an import do
then; `Try` and `Skip` are the sender's channels. The host application may delete the account at any
moment (`DeleteAccount`), and the rows go with it.

### ExportReader, FolderPath, Rules
`ExportReader` has the choice of the chat among the members of a zip (`ExtractZip`), the date order and
window of the filter (`InferDateOrder`, `Resolve`, `KeptLines`) and `ParseEarliestDate`. Bytes, texts and
patterns are abstracted to what the choices look at: a member is a kind of name with a size and what
reading it gives; a line is two numbers, a year and whether it is an ISO line. `FolderPath` has the three
forms that the providers give a configured folder. `Ascending` is a set of places in order: the elements that
a Python comprehension keeps of a list, such as the lines of a log that are searched for or the names between the
slashes of a path. A state of `Rules` is an input: a topic and a sequence
of items, grown one item at a time; its invariants compare the operators with what they should compute. Runs are given
in the order they were made, at the same tick if one import makes them. The folder that a literal prefix spells
(`FoldersOf`, what each of its slashes ends) is defined beside Drive's (`DriveSegments`, the names that it walks
through), which knows no empty names.

Each component module also holds *mutated forms* of some actions. No specification uses them; they
record which bug each property would notice. The modules named `...Proofs` are the subject of section 5.

## 4. Runs

| Run | Checks | Instance |
|---|---|---|
| `dispatch_safety` | `DispatchConsistent OneExecutor BatchOrder HandedOn FiledAfterVerdict SuccessIsTold BatchSerial NeverPendingAgain` | a two-file import, two handlers, 2 attempts, 2 dispatches at a time, each fault once and any two of them |
| `dispatch_progress` | `RefinesLifecycle AcceptedRunsStart RunsEndUnlessOneDies` | the same with 3 attempts, one dispatch at a time, no `vanish`, no `lie` |
| `dispatch_stuck` | violates `AcceptedRunsEnd` | one death |
| `runner_rows` | `RunsConsistent SavedAsCounted StoredExactlyOnce ToldTheTruth RunsStop` | two runs, two event keys in both orders, one death |
| `progress_page` | `PageConsistent StaticPageIsComplete ShownNeverRegresses PageLearnsTheEnd` | one run, one death, two page loads, two lost connections, a cap of one poll |
| `storage_row` | `RowConsistent ProvidersAgree ClearedStaysCleared` | two concurrent requests, two grants |
| `event_store` | `AnswersConsistent WalkShowsAll OnlyAsAsked ReviewAnswerWasTrue` | two users, three ids, three keys of which two have no date, pages of two, one single request beside bulk ones, two runs that save, one walk |
| `session_token` | `DropboxRetryUsesRefreshed NewTokenIsKept` | both backends, five tokens |
| `session_retry` | violates `RetryUsesRefreshed` | three tokens |
| `watch_folder` | `FolderConsistent NothingLost Filed` | four backends, two files of one name or two, two runs at a time, two faults |
| `settings_row` | `RequestsConsistent UploadTaskHasRun NothingUndone SavedOrSeen` | three requests, of any operation |
| `rules` | `ExportReadRight SearchIsSubstring FoldersAgree RunsListedRight` | every input of up to 3 members, 5 lines, 3 dates, 3 characters, 5 path characters, 3 runs, 3 steps, 4 log lines |

Some of these are conjunctions of parts that are stated one by one in their modules. Where a theorem of
section 5 needs more than a property says, the parts it needs are among them, so that TLC has checked the
induction hypothesis before it was proved:

| Property | Parts |
|---|---|
| `DispatchConsistent` | `IInv` (with `TypeOK` first), `FaultsLeft`, `QueueLimit`, `AllAwaited`, `TasksAccepted`, `OneOpenTask`, `UntakenUntold`, `EndpointOwns`, `ExecutorOwns` |
| `RunsConsistent` | `TypeOK`, `StepsTellTheStory`, `RunFacts`, `KeysApart` |
| `PageConsistent` | `ViewTypeOK`, `ShownInOrder`, `DoneMeansOver`, `ShownIsPast`, `ViewKnows` |
| `RowConsistent` | `TypeOK`, `RowStays`, `TokensNew`, `ColumnsOnlyLose`, `RevokedIsForgotten` |
| `ProvidersAgree` | `TokensOfProviderUnlessCrossed`, `TokensOwn`, `KeptIsNamed`, and that a crossing is noted |
| `AnswersConsistent` | `TypeOK`, `RequestsHoldOwn`, `BulkAnswersTrue`, `SeenSoFar`, `EmptyFromTheWindow`, `WelcomedLast`, `EmptyMeansNone`, `NoFalseWelcome` |
| `OnlyAsAsked` | `NothingComesBack`, `ReviewedStays`, `OthersUntouched` |
| `FolderConsistent` | `TypeOK`, `ArrivedOnly`, `JobsKnow`, `OwnContent` |
| `NothingLost` | `NeverLost`, `NameNeverLost` |
| `RequestsConsistent` | `TypeOK`, `InPlace` and `SendsInOrder` of each request, `OldUserKeepsRuns`, `EveryChannelTried` |
| `NothingUndone` | `FlagsOnlyRise`, `OthersKept` |
| `ExportReadRight` | `OneChatWhateverTheOrder`, `NothingElseLeaks`, `RightWindow`, `SomethingKept`, `EarliestOfNamed` |
| `FoldersAgree` | `SameFolderEverywhere`, `OnlyDirectChildren` |
| `RunsListedRight` | `EachRunInItsPlace`, `TiesMove`, `RunsOnTheirDays`, `LandsOnRows`, `FailureExplained`, `SearchPagesComplete` |

### What the violations show
* **A run can stay `in_progress` for ever** (`dispatch_stuck`). `dispatch.py:251-254` calls the queue's
  retry the safety net for crashes. A retry that follows a crash after the claim meets a row that is
  neither terminal nor pending, is answered 200, and nobody ever finishes the run.
* **Drive's retry after a 401 repeats the refused token** (`session_retry`). `google_drive.py:112` puts the
  old headers over the refreshed ones, against the docstring of `_request`; `dropbox.py:121-124` has the
  other order and says why. `session_token` and the theorems show what remains: Dropbox's retry is
  right, and with either backend the *next* request sends the new token.

### Behaviours that the passing runs allow
The models have these behaviours because the code has them; the properties are those that hold with them.
* The next file of a batch may start before the one before has ended: the retry of a delivery that was
  answered late loses its claim and advances the chain (`internal_pipeline.py:159`;
  `import_pending_files.py:8` says otherwise). A death *after* the chain was advanced repeats the hand-over:
  on a queue that dispatched several tasks at once, a batch of three could then have two runs under way. With
  the `max-concurrent-dispatches=1` of `provision.sh` it cannot. `BatchSerial` says what remains true.
* A run may be told twice with different outcomes: `_fail_run_without_storage` looks at no status and
  comes before the claim (`dispatch.py:128`).
* Two runs of a user that save at once may meet the UNIQUE constraint, or deadlock, and one then stays
  `in_progress` (`runner.py:143`, against `runner.py:136-138`).
* The progress stream may close with step 7 last shown in progress, when both commits fall between the
  two SELECTs of a poll (`progress.py:125`, against `runner.py:255-257`).
* An OAuth callback stores its tokens on a row that was switched to the other provider meanwhile
  (`storage_google_drive.py:265`), and is answered "connected" though the rollback of a lost race for the
  settings row took its tokens along (`user_settings.py:43`).
* An import whose runs such a rollback discards still creates a task for them (`import_pending_files.py:108`
  needs no refresh); the upload's `db.refresh` makes it fail instead, which is `UploadTaskHasRun`.
* A review whose event is deleted in between is a 500, not a 404; a deletion is a 204 (`events.py:212-240`). A review
  that changes nothing, of an event that was reviewed when it was loaded, makes no UPDATE and is answered
  200 though the event is gone: `ReviewAnswerWasTrue` asks of an answer to be true of the row as it was loaded, or now.
* Rows that tie in the order may change places between two pages: `WalkShowsAll` promises the number of
  rows always, which rows only when no two tie. Events of one run have one `created_at`.
* So have the runs of one import, which are inserted in one transaction (`import_pending_files.py:97-108`,
  `processing_run.py:52-54`). The comment on the order of the run list calls `created_at` "a stable tiebreaker"
  (`processing_runs.py:159-161`); between such runs it breaks no tie. `EachRunInItsPlace` says what is left: a page is
  full and in order, and a run is on one of the pages of the runs that it ties with, for certain if they
  share one page. `TiesMove` says that no more is: where they lie on several, a run may be on the first on one load
  and on the last on another, so that a reader of both sees it twice or never.
* A slash that is doubled inside the configured folder makes another folder of S3 than of Drive, whose walk
  skips empty names; two slashes before it stay in Dropbox's path and not in S3's prefix (`dropbox.py:47-50`,
  `s3.py:37-38`). `SameFolderEverywhere` says that these are the only settings for which the forms differ.
* On S3 an upload replaces a file of its name in the watch folder, and a move one in `processed/` or
  `failed/`. At this commit no request reaches an S3 provider: the endpoints ask for an OAuth token.

### Bounds, and why they are enough
Dispatch: two files are the least with a chain and a last run; a second batch adds nothing to any
property, all of which speak of one run or of one batch, and batches share only the queue's slots. Two
handlers are what a claim race needs. Each fault may strike once and two in all (four in
`dispatch_progress`): every violation and every mutated form needs two at most, and the theorems cover
any number. A batch of two has no file after the next, so `dispatch_safety` cannot show what a repeated
hand-over does to the third; `OneFileAtATime` is proved for every size. Five tasks are never used up: the first plus one for each
delivery of the first run (at most 3 attempts and one duplicate); TLC would report the deadlock.
With two attempts tasks do get dropped, by a death and a late answer of the same task; with three they
do not, as each of these strikes once, and the liveness properties need that.
`MaxFaults` and the faults of `EachFault` are the only bounds of `Next`.

Runner: two runs and two keys are what a ring of two waiting transactions needs. Progress: one run, as
runs are only read there; two loads make one reload, two breaks let a reconnection break again, one poll
per connection reaches the cap. Storage: two overlapping requests and two grants, the second of which
replaces the first; requests are symmetric, and no property tells them apart.

Events: an order, a tie and a page boundary need two pages of two rows, so three events; two of the keys
have no date and tie unless they were saved by different runs. One request that reads and writes later is
enough for a race, as bulk requests, runs and the other user's requests come in between; ids are given out
in any order. A walk ends on the last page or is given up; it asks for the dashboard as it opens, for the meetings of one
day, and, as a client of the JSON endpoint, for everything with the oldest first.

Sessions: a request meets four tokens at most (the row's, one if that is not fresh, one for the 401, one if
that is not fresh when the retry is built); five let a second request refresh again; the theorems cover any
number.

Watch folder: two files are what a shared name, and two runs what a shared file, need. `MaxJobs` counts
the runs under way, not those that ever were: an import may be repeated for ever. Two faults let a run die beside one whose download fails.

Settings: a lost race needs two requests, and a third to change the row between its INSERT and the loser's
re-reading; requests are symmetric. Switching SMS on is left out as switching email on stands for it.
An operation is one request; every sequence of requests of one user is one of these interleavings.

Rules: the ladder of archives has three rungs, the window two ends and a vote that three lines decide; days
are at the turn of a year, at a window's length and on a day above 12. A path of five characters has a
leading, a doubled and a trailing slash. Three runs are one more than a page, and the three, or two of them, may
tie across it.

### Fairness
`PipelineDispatch`: weak fairness of every running request and handler, and of the queue's dispatch
(Cloud Tasks dispatches what is due). Nothing makes anybody upload, and no fault is fair: deaths,
duplicates and overruns may strike but need not. `PipelineRunner`: a running handler keeps running; an
`INSERT` that waits is woken by the database. `RunProgress`: besides, the server and the browser's
EventSource keep going; opening the page and breaking connections are not fair. `WatchFolder`: the run of a file goes through
each of its stages if it can (the queue delivers its task, the handler keeps running), and the user imports
again while files are shown; uploads, drops and failures are not fair, and one more run of the same file is
as good as the first, so the fairness is one per file and stage. The other modules state no liveness. `RunsStop` and `PageLearnsTheEnd` count a death as an end; `AcceptedRunsStart`
holds across deaths because a retry finds the chain where it was.

## 5. Proofs

`PipelineDispatchProofs` proves, for any set of batches of any size, any number of handlers and tasks,
any queue settings and any numbers of faults, from `DispatchAssumption` alone:

| Theorem | Statement |
|---|---|
| `Invariance` | `Spec => []IInv` |
| `TypeCorrect`, `ExecutedByOne`, `TakenUpInOrder`, `ChainHandedOn`, `FiledLast`, `ToldOfSuccess` | `Spec => []P` for `TypeOK`, `OneExecutor`, `BatchOrder`, `HandedOn`, `FiledAfterVerdict`, `SuccessIsTold` |
| `NeverTakenBack` | `Spec => NeverPendingAgain` |
| `Consistency` | `Spec => []DispatchConsistent` |
| `OneFileAtATime` | `Spec => []BatchSerial` |
| `LifecycleImplemented` | if no set-up fails and no scheduler lies (`MaxFaults["vanish"] = MaxFaults["lie"] = 0`): `Spec => RefinesLifecycle` |

None of these is inductive by itself. `OneExecutor` needs that a handler which has passed the claim has
a run that is no longer pending, also through `GiveUp` and the endpoint's marking, which write a status
without asking (`HandlerKnows`). `HandedOn` needs to know at the answer that the chain was advanced
(`HandlerFacts`, its last conjunct). `BatchOrder` needs that a task exists only for a run whose
predecessor was taken up (`TasksFollowTheChain`), which in turn needs that the endpoint marks in order
(`MarkedInOrder`) and that rows exist before tasks (`RowsOfRequest`). `FiledAfterVerdict` needs the
handler's verdict told and settled before `Move`, and that nobody writes a running status over it: only
`Start` could, and `OneExecutor` says the mover is the run's only executor. A file not yet taken up is
still in the watch folder (`UntakenUnfiled`).

`Consistency` adds to `IInv` what holds until faults of a kind strike (`UntilFaults`); `Unspent` names the
kinds. While every delivery is answered in time and none is repeated, the queue waits for every handler that
runs (`AllAwaited`), so its limit of one dispatch is a limit of one handler (`QueueLimit`). On a queue with more,
it is the chain: while besides no handler dies and no scheduler lies, a batch has one task that has yet to hand
it on (`OneOpenTask`), which starts with the endpoint, because the request that created the task is no
longer at work (`TasksAccepted`). `BatchSerial` follows in both cases.

`LifecycleImplemented` maps `status`, `told` and `folder` to themselves. That a claim is an abstract `TakeUp` is
`BatchOrder`; that telling, settling and filing are abstract steps needs one writer per run: the handler
whose claim won (`ExecutorOwns`) or the endpoint that is marking (`EndpointOwns`). Its two hypotheses are the
two faults by which the code writes and tells without a claim (`_fail_run_without_storage`, and a
`create_task` that raises after the fact); with either, a run may be told of twice and the refinement is
false. Deaths, late answers, duplicates and refused schedules stay in. They are also the hypotheses of
`dispatch_progress`, which checks the same refinement.

The proof has one lemma per action, on top of a few shared ones: `StatusWrite` (a write of a non-pending
status keeps everything that only grows), `HandlersPersist` (a handler that does not move keeps what it
knows), `RequestsKeep`, `RunsStay`, `QueueStays`, and `EnqueueStep`/`RequeueStep` for the queue.

`ProviderSessionProofs` proves, for any number of tokens, from `SessionAssumption` alone:

| Theorem | Statement |
|---|---|
| `SessionInvariance` | `Spec => []IInv` (of `ProviderSession`) |
| `SessionTypeCorrect` | `Spec => []TypeOK` |
| `DropboxRetries` | `Spec => []DropboxRetryUsesRefreshed` |
| `TokenKept` | `Spec => []NewTokenIsKept` |

The two safety properties speak of the end of a request and are not inductive: the invariant says that from
the refresh after the 401 on, the object holds a token newer than all that were issued before the request
began (`HasNewToken`), which `RefreshRefused` establishes whatever the clock says and a second refresh
only improves (`RefreshedIsNew`); and that Dropbox's retry carries such a token, which is `MergedHeaders`.
That a request is first sent without headers of an earlier one (`pc = "auth" => header = None`) makes the
first attempt use the object's token.

`PipelineRunnerProofs` proves, for any runs of a user, any answers of the language model and any number of
deaths, from `RunnerAssumption`:

| Theorem | Statement |
|---|---|
| `RunsAreConsistent` | `Spec => []RunsConsistent` |
| `CountIsTrue` | `Spec => []SavedAsCounted` |
| `EventsStoredOnce` | `Spec => []StoredExactlyOnce` |
| `TruthTold` | `Spec => []ToldTheTruth` |

What the rows show follows from where the run stands (`RowsOfRun`, `RunKnows`): `StepsTellTheStory` and
`ToldTheTruth` speak of finished runs, and need to know what was written and told on the way there. That no
event is stored twice is not inductive either: a save stores what its open transaction has inserted, so the
invariant says that those keys are nobody's (`SaveKnows`) and that two open transactions have none in common
(`KeysApart`), which is what the `INSERT` that waits establishes. Everything looked at is either stored,
inserted or about to be, so the commit of step 6 stores it all. `RunFacts` and `KeysApart` are checked in
`runner_rows`; with `EventsOnce`, the first half of `StoredExactlyOnce`, they are inductive.

About the progress page it proves, for any runs beside the watched one, any number of polls, page loads and lost
connections, from `RunnerAssumption` and `ProgressAssumption`:

| Theorem | Statement |
|---|---|
| `PageIsConsistent` | `WatchedSpec => []PageConsistent` |
| `StaticPageTellsAll` | `WatchedSpec => []StaticPageIsComplete` |
| `NothingShownIsLost` | `WatchedSpec => ShownNeverRegresses` |

The invariant of the runner gives that rows only advance (`RunAdvances`). On top of it the page's invariant is
`PageConsistent` itself: what is shown is a past of the rows and in order (`ShownIsPast`), and a connection
believes to have sent only what the page has got (`ViewKnows`), which is why a new connection repairs what
a broken one lost. A delivery of any prefix of a poll's events to such a page is again a past in
order (`Delivery`). A static page is complete because the status is read before the steps, and a run whose
status is final has all its rows.

`EventStoreProofs` proves, for any users, ids, events, requests, lists and sizes of a page, from
`PageSizeAssumption`, `StoreAssumption`, `NoneIsNoEvent` and `QuestionsAssumption`:

| Theorem | Statement |
|---|---|
| `StoreInvariance` | `Spec => []IInv` (of `EventStore`) |
| `ChangedAsAsked` | `Spec => OnlyAsAsked` |
| `ReviewsAnsweredTruly` | `Spec => ReviewAnswerWasTrue` |
| `AnswersTrue` | `Spec => []AnswersConsistent` |
| `WalkComplete` | `Spec => []WalkShowsAll` |

The two action properties compare the row a request loaded with the row its write meets. The invariant is what makes
that comparison safe: a loaded row belongs to the user who asked, and so does whatever its id stands for by
now, because an id in the table is a used one and used ids are never given out again (`RequestsHoldOwn`).

The reader's invariant is `SeenSoFar`: while nothing has changed, what it has seen is the beginning of the list,
as long as its pages up to here. Each window continues it (`OnePageMore`), which takes three facts about
`Listing`: the length of a window (`WindowHolds`), the least number of pages that hold a list
(`TotalPagesHold`), and that a list in which no two tie has *one* order (`OneOrder`), as the place
of an element is the number of those before it (`PlaceIsRank`). The database may choose another order for every
page, so without the last fact two windows need not fit together, which is what happens to ties.
`WalkComplete` is `SeenSoFar` on the last page. An empty page is one that is not beyond the last, thanks to the
redirect, so nothing matched (`EmptyWindow`). Counting needs that lists are finite: a run extracts finitely many events
(`StoreAssumption`). The answer of a bulk endpoint is true of any body: the first mention of each id is one
place (`FirstMentions`).

`StorageConnectionProofs` proves, for any number of requests and grants, from `ConnectionAssumption` and
`NoneIsNoRow`:

| Theorem | Statement |
|---|---|
| `RowIsConsistent` | `Spec => []RowConsistent` |
| `RevokedForgotten` | `Spec => []RevokedIsForgotten` |
| `ClearedForGood` | `Spec => ClearedStaysCleared` |
| `TokensOfTheProvider` | `Spec => []ProvidersAgree` |

`RevokedIsForgotten` alone is not inductive: that the disconnect about to clear the row will clear the
revoked grant needs that the row has not regained it since the disconnect loaded it. Hence
`ColumnsOnlyLose`, a column that did not have a grant when a session loaded the row does not get it, which
in turn needs that the one way into the row, a callback's commit, brings a grant that no row and no session
holds (`TokensNew`), and that a row once there stays (`RowStays`). Their conjunction is inductive, and is
what `storage_row` checks.

That the tokens are the named provider's needs to look at the writes to come. A callback under way has a grant of
the provider it is about (`TokensOwn`). A save clears the columns that it loaded, and leaves alone a column that
it loaded empty and a callback has filled since: that column must be of the provider the save names
(`KeptIsNamed`), which it is, as the flow that filled it would else have crossed the save.

`WatchFolderProofs` proves, for any files, names, numbers of runs and of faults, from `NamingsAssumption`:

| Theorem | Statement |
|---|---|
| `FolderIsConsistent` | `Spec => []FolderConsistent` |
| `NoFileLost` | `Spec => []NothingLost` |

A file could only vanish by the deletion of its key, so the invariant says that whoever is about to delete
one has an object of the name in another folder (`JobsKnow`); that the object found under a name is the file
itself when no other has the name (`ArrivedOnly`, as what is in the storage has arrived); and that what a run
reads is whole, because a run of one's own begins after the last byte (`ArrivedOnly`, `JobsKnow`).

`SettingsRowProofs` proves, for any number of requests of any of the operations, from
`OperationsAssumption` and `NoneIsNoRow`:

| Theorem | Statement |
|---|---|
| `NoChangeUndone` | `Spec => NothingUndone` |
| `UploadHasItsRun` | `Spec => []UploadTaskHasRun` |
| `RunsOfOldUsersKept` | `Spec => []OldUserKeepsRuns` |
| `RequestsAreConsistent` | `Spec => []RequestsConsistent` |
| `AnsweredSavesStored` | `Spec => SavedOrSeen` |

Its invariant (`IInv`, in the proof module) has the types that the argument needs (`Sorts`), that a request
of a user who had the row never gets as far as the `INSERT` that could lose a race (`OldUserKeepsRow`), and
that an upload on its way to the queue has its run in the table (`UploadHasRun`), which is what the upload's
refresh between the commit and the task establishes. `NothingUndone` needs no more than what operations set:
flags to true only, and columns of their own table. For the saves and the sender the invariant also says what a
session holds at each place (`InPlace`: a request that saves has read a row, after the rollback of a lost race
too) and what the sender has tried on its way (`SendsInOrder`); `Settled` is both, of one request.

`RulesProofs` proves, for inputs of any length, a window of any number of days, days of any number of ticks, and
archives, chats, dates, searches, paths, runs, steps and lines from any sets of items that `ItemsAssumption`
allows, from that, `RulesAssumption`, `PageSizeAssumption`, `DayAssumption` and `WindowAssumption`:

| Theorem | Statement |
|---|---|
| `WhatIsReadIsRight` | `RulesSpec => []ExportReadRight` |
| `WhatIsListedIsRight` | `RulesSpec => []RunsListedRight` |
| `FoldersAreOne` | `RulesSpec => []FoldersAgree` |
| `SearchFindsWhatIsTyped` | `RulesSpec => []SearchIsSubstring` |

The invariant of `RulesSpec` says only what an input is (`RulesInv`: items of the topic); each property then follows
from what its operators compute. *Archives*: where one member decides, the ladder finds it at whatever place
(`ReadAnywhere`), and a permutation of the members permutes what it finds; without any condition, only a readable
member is found, and none exactly if there is none (`NoLeak`). *Chats*: a line written in the true order is read as
its day (`ReadAsWritten`), an honest vote decides for the true order (`VoteDecides`), so the day of each line is
that of the last message before it. Some line is always within the window of the newest, right or wrong, because the
newest is one of them. *Runs*: the column and the tiebreaker make a weak order (`RunsOrdered`), in which a run
stands after those before it and no further than those it ties with reach (`PlaceOfTied`), and at any of these
places in some order (`MayStandAt`, from an order of the rest, `WeakOrderExists`). The `k`-th run is on page `(k -
1) div PageSize + 1` and on no other (`OnItsPage`, `OnOnePage`). *Lines and names*: `Ascending` has every element of
a finite set at its rank (`AscendingHolds`), and is the only increasing sequence of them (`AscendingIs`). *Folders*:
stripping slashes from the ends moves the names of a path and changes none (`SameNames`). The last slash of a prefix
adds the folder that it ends (`FolderAdded`), for Drive only if there is a name before it (`NameAdded`): name by
name, a prefix without doubled slashes spells what Drive walks through (`SpelledAsWalked`), and one with them an
empty name that Drive never has (`GapSpellsNothing`). Two prefixes of the same folders are one sequence of
characters (`OnePrefix`), and what comes after the last slash of a key is no folder (`LastNameIsNone`), so that a
sibling whose name begins alike is not taken for the folder. *Search*: the three replacements, one over the result
of the other, go through the text character by character (`ReplaceAppend`) and together give each character its own
block (`EscapedAppend`), which LIKE takes for that character and nothing else (`OneCharacter`); backwards from the
last `%`, a place of the pattern matches where the rest of the search is found (`RestOfSearch`), and the first `%`
lets it begin anywhere (`FirstAny`).

Two of the operators are recursive functions, the flattening behind `Replace` and the match of `Like`. Nothing is known
of a recursive function before its equation is shown to have a solution: `FlattenExists` and `MatchExists` build one
from the solutions on fewer places, by induction (`InEveryNumber`, which is about a *set* of numbers, as
the induction rules of the library take an operator and cannot be cited here; it rests on the well-foundedness of `<`).

`RulesProofs` extends `EventStoreProofs` for its lemmas, so its theorems are stated beside that module's constants and
assumptions too; they share `PageSize` and `None` with the rules, contradict none of them, and no proof about the rules uses
the others. `rules` and `event_store` evaluate all of them.

Only model-checked: all liveness (`AcceptedRunsStart`, `RunsEndUnlessOneDies`, `RunsStop`, `PageLearnsTheEnd`,
`Filed`), since TLAPS has no rule for fairness and `ENABLED`. Every other property of a passing run is a theorem.

## 6. Not modelled

Deliberately: wording, templates, logging, authentication, CSRF cookies, encryption, the computations of the
steps that `ExportReader` does not name, what the e-mail and SMS services answer. `POST`ed task identities
(OIDC) change no state. A run's file is its own in `PipelineDispatch`; several runs of one file are in
`WatchFolder`. The folder name, S3 keys and token expiry are left out of `StorageConnection` (`FolderPath`
and `ProviderSession` have them), as is the log-in that a callback may be sent to. The database's isolation is
READ COMMITTED: a statement sees what is committed when it starts. A first `PUT /storage-config` racing
another is a request that fails, without effect.

Of the providers: the paging of a listing (Drive's first page only, Dropbox's and S3's cursors), two
destination folders of one name that concurrent runs make on Drive (`WatchFolder` takes them together), what a
request does with an error of S3 (none reaches an S3 provider at this commit), and the fake provider of the tests. Of the archives: gzip, magic
bytes and text decoding, which are functions of bytes without a choice. Of the events: the links to calendars
and tasks. The host application's tables appear as the account that may be deleted. Registry, configuration,
templates, migrations and deployment keep no state that changes while the service runs.
