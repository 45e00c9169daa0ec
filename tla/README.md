# Verification of the applicant-tracking system

TLA+ specifications of this repository's logic where it is concurrent, retried
or stale, the TLC configurations that check them on small instances, and TLAPS
proofs of their main safety properties. Paths below are relative to the repository root.

The system is a set of processes over one Postgres database and one Redis:
API servers (`server/`) that run request handlers concurrently, a relay process
and four queue workers (`workers/`), and two browser front ends (`web/`). The
logic is in `packages/core/src`. Nothing is locked in memory: correctness rests
on transactions, unique and foreign keys, guarded updates and job ids.

## Reading the models

One convention holds for every module. A prisma call outside `$transaction` is
one atomic step (`lib/prisma.ts` wraps it in a transaction of its own), and a
`$transaction(callback)` is one atomic step at its commit. What a handler read
in one step it still holds, possibly stale, in the next. A call that loads
relations runs several statements at READ COMMITTED; the models read them
together, which only a change that is undone in between could tell apart.

A request refused at its first read changes nothing and is no step.

A handler is a process: its record `req[q]` holds what it has read, and one slot
serves one request after another. `Abandon`, where it exists, is a failed
statement or the end of the process between two of them. A comment "Mutant: ..."
stands over a variant of the definition that follows it, with a plausible bug in
it; no specification uses a variant, and the run of the property it would break
finds it broken once it is put in the definition's place. A variable marked
"history" exists for the properties only and no guard of the code's depends on
it. PostgreSQL, Redis, BullMQ, TanStack Query and the browser are modelled as
this code uses them.

## Inventory

| Component | State | Operations | Hard behaviour | Correct when |
|---|---|---|---|---|
| Application pipeline (`modules/applications`, `domain/pipeline`) | `applications`, `stage_events` | create, transition | reads before the transaction are stale at its commit; concurrent moves | the trail is a chain ending in the current stage; one winner per race; one outcome |
| Jobs and stages (`modules/jobs`) | `jobs`, `job_stages` | create, update, publish, close, add, edit, remove, reorder stages | counts before a delete; publish against close; unique positions | no dangling stage; a closed job stays closed; positions distinct |
| Outbox and relay (`events/`) | `outbox_events` | write with the change, fast path, claim, dispatch, mark, back off | crash between steps; expired lease; two dispatchers | no event lost; SENT means queued; rows settle |
| Queues (`queues/definitions.ts`) | Redis jobs | add, run, retry, evict | ids forgotten; retries | each job runs at least once |
| Workers (`queues/processors`, `workers/`) | effects: mails, notifications, resume status | one processor per job | retry after a partial effect; stale rows | effects at least once; statuses truthful |
| Candidates (`modules/candidates`, `modules/public`) | `candidates`, `resumes` | create-or-get, update, upload, merge, public apply | concurrent merges; arrivals during a merge | the merge graph is acyclic; nothing lands on a tombstone |
| Duplicates (`domain/dedupe`, `modules/duplicates`) | `duplicate_candidate_links` | scan, confirm, dismiss | read-then-write of a link; a decision overwritten | signals kept; decisions kept; confidence monotone |
| Interviews (`modules/interviews`) | `interviews`, `scorecards` | schedule, cancel, submit scorecard, remind | check before update | a cancelled interview stays so; one card per author |
| Staff sessions (`modules/auth`, `lib/jwt.ts`) | `users.tokenVersion`, tokens | register, invite, login, refresh, logout | refresh against logout | nothing refreshes a revoked token |
| Candidate accounts (`modules/candidateAuth`) | accounts, reset tokens | register, login, refresh, logout, forgot, reset, purge | two redemptions of one token | a reset token is used once |
| Candidate portal (`modules/candidatePortal`) | viewed watermark | lists, unread count, mark viewed | events that commit after the watermark | no update goes unseen |
| Notifications and live events (`modules/notifications`, `lib/pubsub.ts`, `realtime`) | `notifications`, SSE connections | publish, subscribe, read, remove | lost events, reconnects | the client catches up |
| Rate limiter (`middleware/rateLimit.ts`) | Redis counter | count | failure between INCR and EXPIRE | nobody is blocked for good |
| Process lifecycle (`server/src/index.ts`, `workers/src/shared.ts`) | connections, work in flight | start, drain, exit | signal during work; streams that never end | a clean exit cuts no work short |
| Web client: sign-in (`web/src/lib/api.ts`, `hooks/useAuth.tsx`) | token pair in localStorage, user per tab | call, refresh and retry, mount, login, logout | tabs that refresh and sign out at once | no usable pair after a logout; expiry signs nobody out |
| Web client: pages (`web/src/pages`, `hooks/useRealtime.ts`) | cached queries, optimistic board | fetch, poll, write, invalidate, roll back | lost pushes, answers older than an invalidation, overlapping moves | pages show their own writes and catch up with those of others |
| Tenant isolation (`lib/prisma.ts`) | `app.org_id` per transaction | scope a call | context across awaits | a query sees one organization |
| Analytics, admin | none of their own | reads, nightly rollup | | |
| Resume extraction, storage, mail | files | parse, store, send | external services | |
| HTTP layer, validation, views | none of their own | | | |

"Correct when" is what one would ask of the part. Where the code gives less, the
properties state what it does give and Findings states the rest.

## Modules

| Module | Models | Kind |
|---|---|---|
| `Pipeline` | applications, stages, audit trail and their outbox rows | detailed |
| `HiringPolicy` | what ARCHITECTURE.md promises of a move | abstract, implemented by `Pipeline` |
| `Outbox` | outbox rows, fast path, relays, job ids | detailed |
| `AtLeastOnce` | what ARCHITECTURE.md promises of an event | abstract, implemented by `Outbox` |
| `CandidateMerge` | create-or-get, uploads, public apply, merges, scans, duplicate links | detailed |
| `JobLifecycle` | a job's status and the orders of its stages | detailed |
| `NotificationJobs` | the notifications queue, interviews and scorecards | detailed |
| `ResumeParse` | the resume-parse job, the passes of a scan, one link and its reviews | detailed |
| `Accounts` | an account, its sessions and its reset tokens, on the server | detailed |
| `BrowserSession` | a token pair in the browser, the tabs that share it, calls and refreshes | detailed |
| `LiveUpdates` | what the pages query, poll, write, invalidate and are pushed | detailed |
| `KanbanBoard` | the board with optimistic moves | detailed |
| `PortalBadge` | the candidate's unread count and its watermark | detailed |
| `Shutdown` | the end of an API, worker or relay process | detailed |
| `MCPipeline`, `MCOutbox` | instances of one module each | TLC |
| `MCCandidateMerge` | instances of `CandidateMerge`, a behaviour without links or without resumes and applications | TLC |
| `MCRecruiting` | an instance of `NotificationJobs` | TLC |
| `MCAccounts` (`Accounts`, `BrowserSession`), `MCPages` (`JobLifecycle`, `LiveUpdates`, `PortalBadge`), `MCOperations` (`ResumeParse`, `KanbanBoard`, `Shutdown`) | instances of modules that share no state | TLC |
| `PipelineProofs`, `OutboxProofs`, `CandidateMergeProofs`, `NotificationJobsProofs`, `ResumeParseProofs` | theorems about one module each | TLAPS |
| `AccountsProofs`, `JobLifecycleProofs`, `OperationsProofs` | theorems about the modules that `MCAccounts`, `MCPages` and `MCOperations` put side by side | TLAPS |

In the last three MC modules a variable `side` says, from the first state on,
which of the modules a behaviour follows; the state of the others never changes.
The run of such a module is therefore the sum of its parts' runs, not their
product, and a property is checked on exactly the states of the part it is
about. `MCCandidateMerge` has such a `side` too: either requests interleave and no
scan finds anything, or links are made, reviewed and merged, of candidates that
send nothing; links meet applications and resumes in nothing but the commit of a
merge, which moves both. In `MCRecruiting` a behaviour follows an application's moves or its
interview, whose jobs meet in nothing but the workers that run them.

How the parts meet: `Pipeline` writes an outbox row with each change, and
`Outbox` says what becomes of such a row; the `Enqueue` of `NotificationJobs` and
the `Upload` of `ResumeParse` start from the job that `Outbox` queued.
`JobLifecycle` has the stages' orders where `Pipeline` has their kinds and the
references to them. `ResumeParse` has the statements of a scan and of
`upsertLink` where `CandidateMerge` has the links of many candidates under
merges. `BrowserSession` has in one number, `version`, what `Accounts` does to
revoke sessions. `KanbanBoard` and `LiveUpdates` take a transition as the one
step that `HiringPolicy` allows.

### Pipeline

State: `live`, `kind`, `used` are the `job_stages` of one job; `cur` and
`status` two columns of `applications`; `trail[a]` the `stage_events` of an
application and `outbox[a]` its `outbox_events`, both in commit order; `req[r]`
what a request handler has read. An application stands for its unique key
(candidate, job). Each handler is a sequence of actions:

| Handler | Actions |
|---|---|
| `createApplication` | `ApplyRead` (job and stages), `ApplyCheck` (existing?), `ApplyCommit` or `ApplyRollback` (unique or foreign key) |
| `transitionApplication` | `MoveRead` (application, stages, `validateTransition`), `MoveCommit` or `MoveRollback` (guarded update found no row, or the target is gone) |
| `removeStage` | `RemoveFind`, `RemoveCountInUse`, `RemoveCountHistory`, `RemoveDelete` or `RemoveRefused` (RESTRICT) |
| `addStage`, `updateStage` | `AddStage`, `UpdateStage` |

Left out: a stage's name, SLA and position (`isBackwardMove` is not kept, the
first stage is any stage when none is of kind APPLIED), timestamps and
`durationInPrevStageSec`, the live-update event, and other jobs (a handler looks
a target stage up among its job's stages). Merging candidates rewrites the
candidate of an application and belongs to its own module.

### Outbox

State: `status`, `due` (availableAt has passed), `attempts` per row; `fast[r]`
the fast path of the row; `todo`, `snap`, `sent`, `failing`, `fresh` the tick of
each relay: rows still to handle, attempts as claimed, calls made for the
present row, whether they threw, whether it is the first of the claim; `redis`
and `added` the job ids held and how often each was created; `fails` a history
of recorded failures. `Commit` is the transaction that wrote the row,
`FastAdd`/`FastMark`/`FastGiveUp` are `dispatchNowBestEffort`, `Claim` the
claiming transaction, `RelayAdd`/`RelayMark`/`RelayFail`/`RelayRecordFailure`
the loop of `relayOnce`, `RelayCrash` the end of the process or of the tick,
`Elapse` the passing of a lease or of a backoff, `Evict` what `removeOnComplete`
and `removeOnFail` do. Time itself is not modelled.

### CandidateMerge

State: `exists` and `merged` are the rows of `candidates` and `mergedIntoId`;
`applicant[<<c, j>>]` says whose application the row (candidate, job) of
`applications` is, `resumes[c]` whose resumes a candidate holds; `link` and
`certain` are the status of `duplicate_candidate_links` and whether the
confidence reaches the threshold; `submitted` is a history of what was accepted,
`stray` one of the applications inserted at a candidate that was merged already;
`req[r]` what a handler or worker holds. A candidate is its normalized email,
unique in the organization, and so stands for a person as well.

| Handler | Actions |
|---|---|
| `createOrGetCandidate` | `Find`, `Create` with its inline scan (`ScanLink`, `ScanEnd`) or `CreateLost`, `Follow` for each turn of `resolveLiveCandidate`, `Resolved` |
| `apply` | the above, then `Check`, `AddResume`, `Check`, `ApplyCommit` or `ApplyRollback` |
| `POST /candidates`, `/candidates/:id/resumes`, `/applications` | `Find` without a job; `Open`, which enters at `AddResume` or at the second `Check` |
| `mergeCandidates` | `MergeStart`, `MergeRead` twice, `MergeCommit` |
| scans, `confirmDuplicate`, `dismissDuplicate` | `ScanFind`, `ScanLink`, `ScanEnd`; `Review` |
| any | `Abandon`: the process dies or a statement fails |

Left out: contact fields, so what a scan finds alike is a free choice; the
application's stages, which are `Pipeline`'s; the audit log entry of a merge.
`upsertLink`'s read and write are one step here, which `ResumeParse` has apart, and
so is a merge's transaction.

### JobLifecycle

State: `status` of the job, `order[s]` of each of its stages (`None`: no such
row), `req` the requests; `tidy` is a history: no stage was removed, and none
added but by the web form.

| Handler | Actions |
|---|---|
| `publishJob`, `closeJob` | `PublishCheck`, `PublishCommit`; `CloseCheck`, `CloseCommit`: the status is not asked for again |
| `addStage` | `AddCheck` with any order, or, from the web form, the number of stages some page once showed; `AddCommit`, where the unique index decides |
| `removeStage` | `RemoveCheck`, `RemoveCommit` |
| `reorderStages` | `ReorderCheck` with any list of as many ids as there are stages; `ReorderCommit`, both passes of the transaction, undone if the second meets the unique index or a row is gone |
| any | `Abandon` |

### NotificationJobs

State: `moves` the kinds one application was moved to, `interview` and `cards`
one interview and its scorecards' authors, `req` the requests about it, `job` the
BullMQ jobs with their attempts, lost workers and, while active, the next
recipient and what the job read; `told`, `notices`, `named` are histories of
what the jobs did. `Workers` is the number of jobs run at once.

| Code | Actions |
|---|---|
| `transitionApplication`, `scheduleInterview` | `Move`, `Schedule`, once committed |
| `cancelInterview` | `CancelCheck`, `CancelCommit` |
| `submitScorecard` | `ScoreCheck`, `ScoreCommit` (the unique index refuses a second card and the status with it) |
| the outbox's dispatch | `Enqueue`, in any order |
| `processNotification`, `processInterviewReminder` | `Start` (the read), `Tell` (the next email, or the recruiters' notifications), `Throw`, `Complete` |
| BullMQ | `Throw` leads to the next attempt or to `failed`, `Stall` is a lost worker |

### ResumeParse

State: `shared` the weight at which each signal would fire for a pair of
candidates now, `resume` and `job` the resume and its job, `scan[s]` the scans
under way, `link` the pair's row of `duplicate_candidate_links` with a weight for
each signal it lists, `told` whether the recruiters were told; `clean` and
`foundBy` are histories: the scans that overlapped no other, and the signals these
wrote with the greatest weights.

Weights are ranks. A phone (0.9) is 5 and a resume (0.85) is 4. A name weighs by
how alike the names are and whether employers are, from 0.49 below the threshold
of a review (1) to at most 0.75 (2 or 3); edits and a parsed resume change it, so
that a later scan may find it weaker.

| Code | Actions |
|---|---|
| `addResume` | `Upload` |
| `processResumeParse` | `Parse`, `Parsed`, `Count`, the passes, `Recount`, `Complete`; `Throw` (caught, recorded, rethrown), `ThrowUnrecorded` (outside `try` or in `catch`), `Stall` |
| `scanFullDuplicatesForCandidate`, `scanExactMatchesForCandidate` | `Rescan` or `Count` to begin, `Pass` (find matches and read the link), `Upsert` (write what it made of it), `Abort` |
| `updateCandidate` | `Edit`, of a phone or a name |
| `confirmDuplicate`, `dismissDuplicate` | `Review` |

`Confidence` is `scoreDuplicate`: the strongest signal, in the order of the
weights. `exact_email` cannot occur between two rows of one organization.

### Accounts

State: `account` the password and `tokenVersion` of a row, `issued` the refresh
tokens with their versions, `row`, `expired`, `mailed` the reset tokens, `req` the
requests. A password stands for its hash. In `issued` each token also carries
the password its session began with, a history.

| Handler | Actions |
|---|---|
| `register`, `inviteUser` | `RegisterCheck`, `Create` or `CreateLost` |
| `login` | `LoginRead`, `LoginAnswer` after bcrypt, with what was read |
| `refresh`, `logout` | `Refresh`, `Logout` |
| `forgotPassword` | `ForgotRow`, `ForgotMail` |
| `resetPassword` | `ResetCheck`, `ResetCommit` or `ResetRollback` (the purge took the row) |
| `purgeExpiredPasswordResetTokens`, time | `Purge`, `Expire` |
| any | `Abandon` |

### BrowserSession

State: `stored` the pair in localStorage, `user` the tabs that show a user, `call`
the call in flight of each tab, `version` the account's; `ended`, `signedIn`, `out`
are histories. `request()` is `Start` or `Mount` (read the tokens, fetch),
`Receive` (return, throw, or go and refresh) and `AfterRefresh` (store the pair
and retry, or forget it). `ServeRead`, `ServeLogin`, `ServeMistyped`,
`ServeLogout` and `ServeRefresh` are the server's handlers, `Fail` a call that
fails, `RevokeElsewhere` a logout or a reset on another device, `Expire` the end
of an access token, which is assumed to outlive the retry it was fetched for.

### LiveUpdates

State: `server[k]` the version of the data behind query `k`, `cache[k]` what the
page has and fetches of it, `own` the write of this page, `pushes` events on
their way, `parsing` the versions that show an unparsed resume; `due` is a
history of the page's successful writes. The catalogue at the top of the module
is read from the pages: for each write what it changes, invalidates and has
published, for each view what it queries and polls, for each event what
`useRealtime` invalidates.

`Read`, `Land`, `FetchFails`, `Fetch` and `Poll` are the life of a fetch;
`Submit`, `Served`, `WriteFails`, `onSuccess` and `onError` that of a mutation;
`ChangeElsewhere` and `ParseEnds` are everybody else, `Deliver` and `Lose` an
event.

### KanbanBoard

State: `at` where the applications are, `board` the cached list, `fetch`, `drag`
the moves in flight with the list each would put back; `behind` is a history:
something was lost that no fetch has made up for. `Drop` is `onDrop` and
`onMutate`, `Settle` is `onError` and `onSettled`, `Serve` the server's answer,
`MoveElsewhere` another recruiter, `Deliver` and `Lose` the pushed event, `Read`,
`Land`, `Poll` and `Fail` the list's fetch.

### PortalBadge

State: `clock`, `open` and `updates` the stage events by the time their
transactions began, `viewedAt` the watermark, `fetch` and `unread` the page's
count, `timer` its three seconds, `mark` the mark-viewed requests; `disturbed` is
a history. `Begin` and `Commit` are a transition, `ReadAccount` and `Count` are
`getUnreadUpdateCount`, `MarkViewed` is `markUpdatesViewed`; `Land`, `Poll`,
`TimerFires`, `OpenBell` and `Marked` are the page.

### Shutdown

State: the process's `role`, the `phase` of its end, its `work` in flight,
whether `prisma` is connected, the exit `code`. `Begin` and `Finish` are a
request, a job or a tick; `Stream` a request that turns out to be a live-event
stream; `Disconnect` a client that goes away, which ends a stream and makes any
other request an `orphan`, a handler that runs on without a connection; `Signal`
the first signal; `Close` what is waited for: `server.close` waits for
connections, `Worker.close` for jobs, `stopRelay` for nothing (`Drained`); `Exit`
and `ForceExit` the two ends.

## Runs

| Run | Checks | Bounds, and why they suffice |
|---|---|---|
| `pipeline_races` | `TypeOK`, `AuditTrail`, `StageReferences`, `OutboxMirrorsTrail`, `StatusMatchesOutbox` | one application, two requests, three stages, kinds edited at any time, moves begin while there are fewer than 3 events: two requests are enough for every pair of handlers to interleave at every statement, and applications only meet through stages |
| `pipeline_policy` | `OneOutcome`, `ImplementsPolicy` | the same with three requests, five stages and no kind edited |
| `pipeline_kind_edits` | `ClosedNeverMoves`, violated | finding below |
| `outbox_two_relays` | `TypeOK`, `SentMeansQueued`, `FailedMeansExhausted` | one row of two calls, two relays, 3 attempts, 2 crashes, expiry and eviction at any time: rows do not influence one another except through batches |
| `outbox_one_relay` | `AttemptsExact`, `EveryRowSettles`, `ImplementsPromise` | two rows in one batch, 2 attempts, one crash, under fairness |
| `merge` | `TypeOK`, `MergeForest`, `NothingLost`, `SurvivorShowsJob`, `MergedLinks` | three candidates (a chain of merges, and a third in the middle of one), one job, two requests, recruiters' own requests included, merges one at a time; either one resume and no link, or scans, reviews and merges alone |
| `merge_two_at_once` | `MergeForest`, violated | finding below |
| `accounts` | `TypesOK`, `LiveSessionsKnowPassword`, `LogoutRevokes`, `NoSpuriousSignOut`, `CallsEnd` | server: two requests, two passwords, two reset tokens, two revocations, so that a reset meets a login, another reset, a logout or the purge at every statement; browser: two tabs, two revocations, one failed call, any number of sign-ins and expiries, under fairness |
| `recruiting` | `TypeOK`, `DoneMeansTold`, `NoticeOncePerStall`, `LastStageIsNamed`, `CompletedMeansScored` | two moves whose jobs and the confirmation run on two workers, or an interview with two panelists, two requests and one worker; 2 attempts, one lost worker: enough for each job to fail after, before and between any of its recipients, and for the later move's job to run first |
| `pages` | `TypesOK`, `OrdersAreDense`, `ReorderIsPermutation`, `OwnWritesShown`, `PolledCatchUp`, `BadgeClears` | stages: a template of two, a third to add, orders up to 3, two requests; pages: each view with 3 versions of its data, a write of its own and one failure, any number of pushes, losses and polls; badge: two updates, three times, two mark requests, one bell, one failure; the last two under fairness |
| `operations` | `TypesOK`, `LinkIsConsistent`, `AloneIsKept`, `OutcomeIsTrue`, `BoardIsTrue`, `CleanExit` | scans: the one at creation, the parse job's and a rescan overlap, one edit, reviews at any time, 2 attempts, one lost worker, but no edit beside a failed attempt or a lost worker, since an edit meets the scans alone and a creation, a parse and a rescan overlap without a second attempt; board: two applications, three stages, two drags of up to three moves with those of others, one failure; process: three pieces of work, so that one ends, one hangs or loses its client and one begins |
| `scan_weaker_later` | `StrongestKept`, violated | finding below; one rescan, one edit, one attempt |

`ConcurrentMerges` is an assumption about the users, not a bound: the code does
nothing to keep two merges apart. `Manual` (recruiters enter candidates, resumes
and applications) and `Alike` (scans may find something) switch parts of the model
off; `merge` has both on, and the theorems assume nothing of either. `MaxStored`
bounds the resumes of `merge` at one: no guard reads them and each is moved
by merges on its own, so several show nothing that one does not. In `Outbox`,
`LeaseCoversDispatch` and `EvictsJobs` are two such switches, set in the runs to
what the code does except that `outbox_one_relay` evicts nothing.

Histories in a property say under which circumstances it is claimed, and each is
part of the claim. `OrdersAreDense` speaks of gaps only while `tidy`: with a
removal from the middle, or an order chosen through the API, there are gaps.
`AloneIsKept` speaks of scans without an overlap, `OutcomeIsTrue` excepts a job
that was `lost`, `NoSpuriousSignOut` a session that `ended`, `BoardIsTrue` a
board that is `behind`, and `BadgeClears` a badge that was `disturbed`, by an
update that arrived while it was shown or by a request that failed.
`SurvivorShowsJob` excepts the applications in `stray`; `CleanExit` speaks of
requests whose client still waits, not of an `orphan`.

Deadlock is not checked where the system may stop: a pipeline whose stages were
all removed, or whose moves have reached the bound; an outbox whose rows, and
queues whose jobs, are all settled; a process that has ended; a page whose
versions or marks are used up.

### Fairness

* `outbox_one_relay`: `WF` of a relay's `Claim` (`setInterval` fires again and a
  tick always clears `inFlight` in `finally`), of its dispatch loop (a call of
  Redis or Postgres answers or throws) and of `Elapse` (time passes). Nothing is
  assumed of the fast path, and a dispatch may fail every time. The run bounds
  the crashes, since a relay that crashes in every tick settles nothing.
* `accounts`: `WF` of `Proceed(t)`: a call in flight is answered or fails, and
  the tab takes the answer. No tab has to begin anything.
* `pages`: `WF` of `Read` and `Land` (a fetch is answered; a failure counts as a
  fault), of `Poll` where the code sets `refetchInterval`, and of `ParseEnds` (the
  job of a resume ends, `OutcomeIsTrue`'s exceptions aside); nothing of pushes.
  For the badge `WF` of the fetch, its interval and the mark requests, and `SF` of
  `TimerFires`: the browser runs a timer that is not cleared, whereas in the model
  the action is disabled for a while when both mark slots are taken, which is a
  bound and not in the code; and a timer that is cleared again and again is
  cleared by a count of 0, which is what `BadgeClears` asks for.

The deployment runs one relay (`workers/src/relay.ts`). With two, the attempt
counter is not exact: it is written from the value read at the claim. What
remains true, and is checked and proved, is that it never counts a failure that
was not recorded.

## Findings

Three runs end in a counterexample to what the repository says:

* `pipeline_kind_edits`: "nothing moves once an application is in a terminal
  stage" (`domain/pipeline/transitions.ts:15`, `docs/ARCHITECTURE.md:133`) is
  judged by the stage's kind now; `updateStage` may change it under an
  application that was closed, which then moves with its status still HIRED.
  Without such edits the property is a theorem.
* `merge_two_at_once`: merges chain "never by a cycle"
  (`candidates/service.ts:44`) because a merged candidate is refused, but both
  candidates are read before the transaction and not again in it. Two merges in
  opposite directions make a cycle of two, in which nobody is live.
* `scan_weaker_later`: signals are merged by name "so a later, weaker call can't
  clobber an earlier, stronger one" (`domain/dedupe/scan.ts:13-14`), but
  `mergeSignals` keeps the incoming one of two signals with a name. A rescan after
  a name was edited lowers the weight of `name_similarity`; the confidence stays
  the maximum (`scan.ts:31`), so the link claims more than any signal it lists.
  No overlap is needed. `LinkIsConsistent` says that nothing else can differ.

The modules show more of them, which no run keeps. The properties named here are
in the modules; TLC refutes each in seconds on the instance given.

* `NoDuplicateJob` (`Outbox`; `Outbox_one_relay.cfg` with `Row = {1}`,
  `BatchSize = 1`, `EvictsJobs = TRUE`, `MaxCrashes = 0`, and `Spec`): "never a
  duplicate job" (`events/relay.ts:43`) holds only while Redis keeps the finished
  job (`queues/definitions.ts:31`).
* `NoDoubleClaim` (`Outbox`; `Outbox_two_relays.cfg` with `Row = {1, 2}`,
  `BatchSize = 2`, `EvictsJobs = FALSE`): a second relay does claim the same row
  (`events/relay.ts:86` says never), since the 60 s lease is set once for a batch
  of up to 20 dispatches made one after the other.
* `NoStray` (`CandidateMerge`; `Merge.cfg`): new activity goes to the survivor and
  not to the tombstone, which would hide it from the recruiter who looks at the
  survivor (`candidates/service.ts:40-43`). But a merge may commit between
  the lookup and the insert, and a recruiter's own request for a candidate
  resolves nothing. `SurvivorShowsJob` says that the rest stays in sight.
* `ReviewQueueLive` (`CandidateMerge`; `Merge.cfg`): scans leave merged
  candidates out of what they find (`domain/dedupe/scan.ts:68`), not out of what
  they scan; a rescan that was queued before a merge brings the tombstone back
  into the review queue.
* `NoRequestCut` (`Shutdown`; `Spec` with `Work = {w1}`): "nothing here disconnects
  Prisma out from under a request that's still running"
  (`server/src/index.ts:42-43`). `server.close` waits for connections, and a
  handler runs on after its client or a proxy dropped its connection: it loses
  the database, and the process exits with code 0 in the middle of it.
* `PublishCommit` (`JobLifecycle`): `publishJob` asks for the status before its
  transaction (`jobs/service.ts:89`), so a close that commits in between is
  undone and the closed job is public.
* `Upsert` (`ResumeParse`): the comment on `upsertLink`
  (`domain/dedupe/scan.ts:24-26`) says that scans of a candidate do not run
  concurrently. Those of one pair do: inside the request that created a
  candidate, in its parse job and in rescans of either of the two. The comment
  adds that at worst a signal is lost; which ones are safe by name, if not at
  their weight, is `AloneIsKept`. A scan that reaches the threshold also
  overrides a recruiter's DISMISSED.
* `ResetCheck`, `ResetCommit` (`Accounts`): reset tokens are "single-use"
  (`docs/ARCHITECTURE.md:403`, `docs/ASSUMPTIONS.md:526`), but `resetPassword` reads
  `usedAt`, hashes the new password, and marks the token without asking again
  (`candidateAuth/service.ts:149-164`). Two requests redeem one token and both
  succeed; the later password stands. `LiveSessionsKnowPassword` does not say
  otherwise: only that the sessions of the earlier password end.
* `CancelCommit`, `ScoreCommit` (`NotificationJobs`): "Only a scheduled interview can
  be cancelled" (`interviews/service.ts:127`), which is asked before the update
  and not in it, so a scorecard in between makes a COMPLETED interview with a
  scorecard CANCELLED. The reverse needs no overlap: `submitScorecard` asks for no
  status (`interviews/service.ts:161`) and makes a cancelled interview COMPLETED.
  `CompletedMeansScored` allows both.
* `Tell` (`NotificationJobs`): a retry mails those again whom the failed attempt had
  mailed, and the notice of an earlier move may name a later stage.
* `Begin`, `Commit` (`PortalBadge`): "Unread" is every stage event "newer than the
  last time I looked" (`candidatePortal/service.ts:113-114`), but an event carries
  the time its transaction began. One that began before the candidate looked and
  commits after is never unread (`candidatePortal/service.ts:132`).
* `Effect` (`PortalBadge`): "simply having the page open counts as having seen it"
  (`CandidateDashboard.tsx:280`), but the effect sees only whether there is a badge
  (`CandidateDashboard.tsx:287`): an update that arrives while there is one starts
  no timer, and if the mark of the first came too early the badge stays until the
  bell is opened.
* `ThrowUnrecorded`, `Stall` (`ResumeParse`): a resume whose last attempt could not
  write its failure, or whose worker was lost once too often, stays PENDING,
  PARSING or even PARSED for good, and a retry of a job that had added the link counts
  no new one and tells nobody (`queues/processors/resumeParse.ts:15`, `:33`).
* `Drained` (`Shutdown`): `workers/src/relay.ts:13-16` speaks of waiting for the
  current tick, but `stopRelay` stops the interval and waits for nothing. A tick
  may lose the database in the middle; `Outbox`'s `RelayCrash` is that case, and
  `EveryRowSettles` says that the lease repairs it.

## Proofs

Every invariant and every action property that a passing run checks is also a
theorem, and so is the refinement of `HiringPolicy`; of `AtLeastOnce` the safety part is.

The modules of `Pipeline`, `Outbox` and `CandidateMerge` state their assumptions
as `ConstantsAssumption`, the others' proofs modules as `ConstantsOK`,
`SessionConstantsOK`, `PageConstantsOK`, `BadgeConstantsOK` and
`BoardConstantsOK`: bounds are numbers, tabs and stages are finitely many, marks
for "nothing" are no values. Beyond those every theorem is for every value of the
constants: any number of requests, relays, scans, panelists, stages, tabs, drags,
attempts and lost workers. `OneRelay`, `EditKinds = {}` and `~ConcurrentMerges` are
assumptions of the theorems that name them.

A theorem about a module that an MC module puts beside others is about `MCSpec`.
A step of the composition is a step of one side and a stutter of the others
(`MCAccountsSteps`, `MCPagesSteps`, `OperationsNext`), so an invariant of one side
that its own `Next` keeps is an invariant of the composition.

* `PipelineProofs`: `TypeOK`, `AuditTrail`, `StageReferences`,
  `OutboxMirrorsTrail` and `StatusMatchesOutbox`, from one inductive invariant.
  The four need each other: the guarded update extends a chain only because its
  last event ends in the current stage, and the deletion of a stage keeps
  chains because no chain names it. `RequestOK` is the strengthening: what a
  handler holds in each of its steps.
  Assuming `EditKinds = {}`, also `OneOutcome`, `ClosedNeverMoves` and the
  refinement of `HiringPolicy`. The strengthening is `SnapshotValid`: a move that was valid when it was read is still valid if the
  application has not moved, since kinds do not change.
* `OutboxProofs`: `TypeOK`, `SentMeansQueued` and `FailedMeansExhausted`.
  `CallsCounted` says that whoever counts calls has made them, `CountersHonest`
  that no counter, in the table or in a relay's memory, exceeds the failures
  recorded. Assuming `OneRelay`, also `AttemptsExact`, by `SnapExact` (what the
  relay read at its claim is still so, as nobody else writes attempts), and
  `OutboxKeepsPromise`, that every step maps to a step of `AtLeastOnce` or to
  none: `Untouched` and `Released` say that nobody works on a row that is not
  there or was given up, so that a queued event never becomes owed again. The
  fairness that `ImplementsPromise` has on top stays with TLC.
* `CandidateMergeProofs`: `TypeOK`; and, assuming `~ConcurrentMerges`,
  `MergeForest` and `NothingLost`. `MergeHolds` says that the candidates a merge
  has read were live and still are, since no other merge runs: so its commit
  hangs a live root under another, and no cycle arises. `Reaches` says that
  every handler works on a candidate its person's leads to, which later merges
  keep true because chains only grow (`ChainGrows`). `MergedLinks` follows, as
  only the commit of a merge writes MERGED, and writes it for the two candidates
  it joins. `SurvivorShowsJob` follows from `StrayIsMerged`: what is stray is at a
  candidate that was merged, and a merged one takes part in no later merge, so
  that no row moves into or out of `stray`. An application that is not stray either
  is at a live candidate, or was left behind by a merge because the
  survivor had one to the same job; the next merge of that survivor moves that
  one up or finds another (`Shown`).
* `JobLifecycleProofs`: `TypeOK`, `OrdersAreDense` and `ReorderIsPermutation`.
  `Pending` is the strengthening: while no stage is removed, what a request has
  read - the number of stages it asks for, or the length of its list - can only
  have become too small, and then the unique index refuses it. That a list with
  one id twice fails is a pigeonhole argument (`ListsTheLowest`): a list of n
  existing ids that no stage outside of it clashes with names all n stages with
  orders below n, and n ids that name n stages are distinct.
* `NotificationJobsProofs`: `TypeOK`, `DoneMeansTold`, `NoticeOncePerStall`,
  `LastStageIsNamed` and `CompletedMeansScored`. `JobOK` is what an active job at
  position i has behind it: it has told the first i; if its move is still the
  last one, the stage it read is the current one; and - the recruiters come last -
  its notices exceed its lost workers only if it is `Through`, where nothing is
  left to throw.
* `ResumeParseProofs`: `TypeOK`, `LinkIsConsistent`, `AloneIsKept` and
  `OutcomeIsTrue`. `Meaning` says what decides a confidence: the phone, then the
  resume, then the name, whose weight alone varies. `ReadConsistent` says that what
  a scan read of the link is `Consistent` in the sense of `LinkIsConsistent`,
  whatever was written since, and `MergeConsistent` that the merge keeps it so; `CleanAlone` and `ReadersKnow` that a
  scan in `clean` is the only one, and that whoever has read the link has read the
  signals of `foundBy`; `JobAndResume` ties the job's step to the resume's status,
  and `Suspicion` follows the only attempt of a job from its first count on.
* `AccountsProofs`, the server's side: `TypeOK` and `LiveSessionsKnowPassword`. No
  token is ahead of the account's version, a login that compares one was given a
  row whose version is the account's only if its password is too, and a reset
  raises the version in the statement that changes the password.
  The browser's side: `LogoutRevokes`, `NoSpuriousSignOut` and `B!TypeOK`, from
  `SessionInv`. `InPlay` is every pair that is stored, that a call was made with or
  that an answer brings: after a logout all of them are behind the account
  (`PairsRevoked`), not the stored one alone, or a late refresh would bring one
  back. `CallOK` says what a replay may rely on: it was made with a good pair, so
  that it is not refused, and a mount asks only with a pair. As long as nothing
  was revoked, signed out or failed (`FirstVersion`), every refresh brings a pair.
  `RoomLeft` keeps the version within its bound: every logout under way has its
  place below it. `CallsShrink` is the safety part of `CallsEnd`: a call has at
  most six steps of its own left (`StepsLeft`), each takes one away, and no step
  of another tab, of the server or of time gives one back.
* `JobLifecycleProofs`, for `MCPages`, besides the theorems on stages above:
  `OwnWritesShown`, from `PageInv`. A query whose result is older than what the
  page was told of is marked, and a fetch that has read for it has read no less
  (`Shows`); what a write made is not ahead of the server (`OwnWrite`); and by the
  catalogue (`WritesInvalidate`) a page invalidates every query of its own that its
  write changes, the scorecard's excepted. And `PagesTyped`: the count that
  `PortalBadge` shows is bounded because the updates are, those included whose
  transactions are still open (`FewUpdates`).
* `OperationsProofs`, for `MCOperations`: `BoardIsTrue`, by `DragsOnData` (a drag
  that is under way has a board to return to) and `AnswerIsTrue` (an answer that
  is on its way while nothing is under way and nothing was missed is right
  already: whatever happens after the server read cancels the fetch, or leaves a
  drag, a push or a loss behind); and `CleanExit`, by `ShutdownInv`: once the
  database is disconnected the process accepts nothing, and what is left of it, the
  relay aside, has lost its client.

Model-checked only: liveness, which the provers do not do (`EveryRowSettles`, the
fairness of `ImplementsPromise`, `CallsEnd`, `PolledCatchUp`, `BadgeClears`), and
the three violations, which are runs of TLC that end in a counterexample.

## Not modelled

* Rate limiter: one INCR, one EXPIRE and a comparison. A counter whose EXPIRE was
  lost never ends, as a model of the two statements would restate.
* Tenant isolation: the row-level policies are configuration of the database;
  the models have one organization, and take from `lib/prisma.ts` only which
  statements share a transaction.
* Analytics, rollup and admin: reads, and one upsert per job and night that a
  rerun repeats.
* Resume extraction, structuring, storage and mail: external services; that they
  throw is `Throw` in `ResumeParse` and `NotificationJobs`.
* HTTP routes, validation, API description, views: parsing and layout; what
  they refuse is a guard where a model needs it.
* A queue worker that lost its lock and goes on, beside the one that took its job
  over: the code has no say in it, and every effect it could repeat is one that
  `Stall` repeats too, later.
* Seeding, migrations and deployment files.

## Plan

What is left, in the order of its worth: what `CallsShrink` is to `CallsEnd` for
`EveryRowSettles`, a measure of each row that no crash and no late relay raises
without end; a composition of `Outbox` with `NotificationJobs` in which an evicted
job id leads to a second email; and a model of the workers' locks.
