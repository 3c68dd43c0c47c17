# file-forge: TLA+ specifications

file-forge takes uploads, runs jobs over them (image and CSV pipelines) in worker
processes, and tells whoever asks how far a job is. This directory models its job
machinery, its event streams, its rate limiters, the files from upload to sweep, the
two CSV operations row by row and the browser page. All of it is checked with TLC on
small instances; its safety properties, and that the workers implement the
lifecycle of a job, are proved with TLAPS for every value of the constants.

Paths below are relative to the repository's `src/` unless they start with `README.md`,
`frontend/` or `docker-compose.yml`.

## 1. The system

| Component | Code | State | Operations |
|---|---|---|---|
| API: jobs | `jobs/routes.ts` | none of its own | `POST /jobs`, `GET /jobs/:id` |
| API: event stream | `jobs/sse.ts`, `jobs/events.ts` | per request `closed`, `unsubscribe`, timers, a listener on the shared subscriber | `GET /jobs/:id/events`, `cleanup` |
| API: files | `files/*.ts`, `storage.ts` | bytes on a volume, a record per upload in Redis with a TTL | upload, lookup, signed link, download |
| API: rate limiters | `ratelimit.ts`, mounted by `app.ts` | a counter per client, bucket and window in Redis | `INCR`, `EXPIRE`, refuse or pass on |
| API: metrics, status | `metrics.ts` | job counters in Redis | count, format |
| API lifecycle | `server.ts` | three Redis connections, the HTTP server | start, graceful shutdown, forced exit |
| Queue | BullMQ as `jobs/queue.ts` configures it | state, attempts, stalls, lock and progress of each job | add, fetch, settle, retry with backoff, stalled check, retention |
| Worker process | `jobs/worker.ts`, `jobs/processors.ts`, `jobs/errors.ts` | `highWater` map, jobs in flight | handler, listeners, scheduled sweep, shutdown |
| Processors | `jobs/image.ts`, `jobs/csv.ts` | none | read, transform, report progress, classify errors |
| Sweep | `jobs/cleanup.ts`, scheduled by `queue.ts` | a maintenance job; what one sweep has removed | delete what is older than the retention, count it |
| Browser | `frontend/src/App.tsx`, `useJobProgress.ts`, `components/*`, `api.ts` | the file and the job shown, the operation selected, an `EventSource`, the progress, the links | drop a file, select, run, watch, show the links |

How they interact. The API puts a job in the queue and counts it. A worker slot takes it,
publishes `processing 0` on the job's Redis channel, runs the processor, whose percentages
go to the job record and, through a clamping listener, to the channel, then publishes and
counts the verdict, and only then returns to BullMQ, which records it. A watching browser
holds an event stream: the API subscribes its one shared subscriber connection to the
channel, sends a snapshot of the job's state, and relays what arrives until a verdict, a
ten-minute cap or the client's departure. Bytes are on one disk that the API writes
uploads to and streams downloads from, workers read inputs from and write outputs to, and
the sweep deletes from by age; what names an upload's bytes is a record in Redis with a TTL
of its own. None of these parties locks a file. All of that is asynchronous, over several processes that may
stop at any await.

What is hard there: a verdict is announced before it is recorded; a worker that dies leaves
an active job that is run again; retries and stalls are counted apart; the handler guesses
whether its failure is the last one; the clamp lives in a process while a job moves between
processes; subscribing, asking for the state and leaving interleave on a connection all
watchers share; several API processes count one client's requests; the sweep may take a
file between any two looks at it; React effects run after the changes they depend on, with
events and answers in between. `PROJECT.json` lists
every such hazard at its line with the property that covers it.

What makes each component correct, in a sentence each:

- worker and queue: what is announced and counted agrees with what is recorded; a job is run
  a bounded number of times and settles;
- event stream: the verdict a page is told is the job's, as long as no run of the job is lost; a request
  with its channel to itself misses none announced after it subscribed (one beside others may: see below);
  a page that stays learns the verdict; a request that ends leaves nothing behind (it may: see below);
- rate limiters: no more than the allowance of a window gets in, and nobody is refused early;
- files: a record names bytes that exist as long as neither is over its time, unless they took longer
  than that to be written; results and downloads are whole; what is stored is swept in the end, when it was found old;
- processors: a job is decided however its input and the disk behave, each run writes an output of
  its own, and an error that a retry could cure is not classified as permanent (it is: see below);
- CSV operations: the report says what the rows are, the transform drops only what it may, and
  each predicts the other;
- browser: file, operation, job, progress and links on the screen belong together as long as an upload and a
  creation do not overlap, and the page waits for ever only for a job whose stream was refused for good.

## 2. Modules

| Module | Models | Refers to |
|---|---|---|
| `JobLifecycle` | what a job promises outside the worker: public state, recorded percentage, published events, runs left | `routes.ts` `publicState`, `queue.ts` options, `shared/contract.ts` `JobEvent` |
| `JobWorker` | worker processes, the queue they share, counters, channel | `worker.ts`, `processors.ts`, `errors.ts`, `queue.ts`, `metrics.ts` |
| `JobWorkerProofs` | the invariant of `JobWorker` and what follows from it | |
| `JobWorkerCounters` (over `JobWorkerProofs`) | theorems about the counters of `/metrics` | |
| `JobWorkerRefinement` (over `JobWorkerProofs`) | `JobWorker` implements `JobLifecycle` | |
| `EventStream` | `GET /jobs/:id/events` and pub/sub in an API process that stops and starts, over the jobs of `JobLifecycle` | `sse.ts`, `events.ts`, `server.ts`, `useJobProgress.ts` |
| `EventStreamProofs` | theorems about `EventStream` | |
| `RateLimit` | the four limiters as `app.ts` mounts them | `ratelimit.ts`, `app.ts` |
| `RateLimitProofs` | theorems about `RateLimit` | |
| `Storage` | files on the disk, the sweep, time | `storage.ts`, `jobs/cleanup.ts`, `worker.ts`, `metrics.ts` |
| `Uploads` (over `Storage`) | `POST /uploads` and the records | `files/upload.ts`, `files/routes.ts`, `files/repository.ts` |
| `Processors` (over `Uploads`) | the five operations, await by await | `image.ts`, `csv.ts`, `processors.ts`, `errors.ts` |
| `Downloads` (over `Storage`) | links and `GET /files/*` | `files/download.ts`, `files/signing.ts` |
| `Files` | the composition of the four above | |
| `FilesProofs` | theorems about `Files` and the four modules under it | |
| `CsvRows` | what the CSV operations do with each row | `csv.ts` |
| `CsvRowsProofs` | theorems about `CsvRows` | |
| `Page` | the browser page | `App.tsx`, `useJobProgress.ts`, `OperationPicker.tsx`, `ResultCard.tsx`, ... |
| `PageProofs` | theorems about `Page` | |
| `MCJobWorker`, `MCEventStream`, `MCRateLimit`, `MCFiles`, `MCCsvRows`, `MCPage` | instances for TLC | |

`JobWorker` implements `JobLifecycle` (a refinement mapping, checked as the property
`ImplementsLifecycle` and proved in `JobWorkerRefinement`), and `EventStream` EXTENDS `JobLifecycle`: the stream is checked
against every behaviour the lifecycle allows, so its results carry over to the workers
without multiplying the two state spaces. `Files` shares with them only what a job sees of its
queue (how often it is run, and which errors are final), and `Page` only what a page sees
of its stream, for the same reason.

### JobLifecycle

A job's `phase` is `publicState` of the queue's state, plus `new` and `removed`, which a
client sees as 404. `said` is what the latest run has announced, `lost` whether a run of the
job ever ended with its process, `runsLeft` how often it can still be started. The key
conditions are in the guards: a run that announced a verdict can only settle with it
(`Settle`), be lost (`Lose`) or be given up (`GiveUp`); one that announced none can be retried.

### JobWorker

Slots are pairs of a process and an index up to CONCURRENCY. `run[s]` is the handler of slot
`s`: the await it is at, its job, `job.attemptsMade` as it was when it was taken up, how many
of the processor's percentages it has reported, and the error being thrown.

- `Fetch` is BullMQ's moveToActive and the lock; `AnnounceStart`, `UpdateProgress`,
  `ForwardProgress`, `Succeed`, `PublishCompleted`, `CountCompleted`, `Fail`,
  `PublishFailed`, `CountFailed` are the handler's awaits and the progress listener;
  `Complete`, `RecordFailure`, `Reject` are BullMQ taking the outcome, with the `completed`
  listener in the same step as the record it follows.
- `Stall` is BullMQ's check for active jobs whose lock lapsed, run by any live worker.
  `maxStalledCount` is BullMQ's default, 1; the module takes any value.
- `Crash` and `Shutdown`/`CloseDone` are the ends of a process; a process loses its
  `highWater` and its slots.
- `LocksCanLapse` says whether a live slot may lose its lock (an event loop blocked by a
  long synchronous computation, a Redis outage). The queue then hands the job to another
  slot while the first is at work.

`said` and `failureTold` are history variables: the code does not keep them, and no guard
reads them.

Simplifications. `queue.add` and its counter are one step. Publishing and counting never
fail: `worker.ts`, `events.ts` and `metrics.ts` treat both as best effort and swallow their
errors, so a Redis outage may suppress an announcement, and what the properties say of
announcements is said of a reachable Redis. A processor is the percentages it reports, in
order, and the errors it may raise. A job is kept (24 hours, 7 days) for longer than any run
of it, so `Remove` waits for its slots. The scheduled sweep is a job of another queue: `Storage`.

### EventStream

A watcher is a page, and `conn[r]` a request of its, with the handler's variables under their names; `By`
says whose it is. The two ends of a connection learn of its end apart. `Drop` and `Leave` are the
page's end: `link` is `cut`, and the page, if it stays, may `Ask` again at once. `HangUp` is the server's
`'close'`, any time later or never, and `HangUpUnheard` the one that comes while getJob is still
awaited, when nobody listens for it yet: that request lives on until a verdict or its cap. So a page may have several
requests in flight, of which it hears one. The cleanup of the others
unsubscribes a channel they share with it, since `subscribed` is all that Redis knows.

`Ask` is the request, `Connect` what follows getJob up to SUBSCRIBE, `NotFound` the 404. `wire` is the
commands on the subscriber connection and `inbox` the messages on it: both are FIFO, as one connection is.
`Redis` executes a command and its reply resumes the handler; `GetState` and `Answer` are the snapshot, whose
percentage and result are those of the job fetched two awaits before (`seen`); `Deliver` calls the listeners of a channel;
`Timeout` is the connection's ten-minute cap. `Shutdown`, `Closed`, `ForceExit`, `Crash` and `Start` are
the API process: a shutdown lets responses come to their end until the deadline, and whatever
end the process comes to takes requests, commands, messages and the subscription with it. `verdict`, the last
verdict the response told, `inTime` and `alone` are history; `alone` says that no other request was on the
channel when this one came, half-open ones included, and that none has come since.

Left out: keep-alive comments, writes to a closed response (no-ops), a Redis that refuses
SUBSCRIBE, a request that is refused before it comes to the handler, by a limiter or by a proxy whose API is down (after which
`EventSource` gives up: `Page` has that). That the cap is
far longer than the handler's awaits is the one timing assumption (`Timeout` requires `Open`).

### RateLimit

One client; keys of different clients differ. `Limiters` is the chain a request passes: the
limiters are mounted with `app.use` and no path, each in front of its router, so the request
meets every limiter of the routers before its own. Requests no route matches pass the whole
chain of their method too, and are refused in the same way; they are not a kind of their own
here. `Incr` is Redis executing the command, `IncrUnanswered` the same with its answer lost
(the API's connection sends a command up to three times more), `Expire` the second command,
`FailOpen` the catch block, `Die` a process that stops, `Lapse` Redis removing a key whose
time is over. `spent` and `admitted` are history. API processes are assumed to have one
clock: with skewed clocks a client has a window per clock.

### Storage, Uploads, Processors, Downloads, Files

A file is `none`, `partial`, `whole` or `gone`, and has an age in ticks since its last write
(`mtimeMs`); a tick is an interval of the scheduled sweep. An action is what happens between two
awaits that touch the disk, Redis or the queue:

- `Receive` and `Staged` are the filter (`Accepts`) and the staging file of multer; `Adopt` is the rename into
  storage, or the copy that replaces it when that fails with EXDEV (two filesystems, as in
  `docker-compose.yml`), which `Copied` ends; `SaveRecord`, `CountUpload` and `Created` follow, so that a
  process may die between the count and the 201. `HandlerFails` is any of the awaits up to the record rejecting, and
  `CatchRemoves` the catch: it removes the staging file and nothing else, or fails to and swallows that error
  (`stranded`).
- `IncrementCounter` counts once, or, at a fault, not at all, once or twice: the error is swallowed whether INCRBY was
  executed or not, and ioredis may have sent it again.
- `Stages(op)` is the table of an operation's awaits: what each does, which error its failure is
  reported as, and the percentage reported when it is done. `Take` starts a run, one action
  per kind of stage carries it on, `Rejects` ends it, and `RunEnds` is the queue's decision.
  `DiskFails` is a momentary error in any stage that touches the disk; `RunDies` the process
  stopping, to which belongs a read error under `source.pipe(...)` in `image.ts`, since no
  listener has it. `OpenInput` is the stat of `storage.open`; the stream opens its file later (`StreamOpens`), and
  if the sweep came in between (`StreamBroken`), a pipeline rejects and a process with a hand-piped stream dies. `MarksAscend` is what `JobWorker` assumes of percentages.
- `MintLink` signs; `Get` verifies whichever link the client presents, of the file asked for
  or of another, with its expiry or a later one; `CheckExists`, `ReadSize`, `Open`, `Opened`
  and `Served` are the awaits of a download. `Opened` is the stream opening its file, after the answer has begun:
  `StreamBreaks` is its failure there, which has no listener and takes the API process with it (`ApiDies`).
- `SweepStart` and `SweepEnd` are the sweep over the files it listed; `SweepLook` is the stat that finds a file young or
  old, and `SweepRemove` the rm an await later, whatever has become of the file meanwhile; `SweepError` is either failing, and the
  file skipped; `SweepDies` a worker that dies under it. `stalled` remembers the files whose write once stopped for longer than the
  retention (a process stopped, a machine asleep): those are what a sweep may have found old and remove when they are young again.

An open file stays readable after it is unlinked, as on POSIX. Key generation is abstracted to `Output` and the
upload's own name, both injective. Each upload is given one job. The two directories of a
sweep are one set of files, and only one sweep runs at a time, which is what BullMQ's
scheduler and a concurrency of 1 give unless a lock lapses.

### CsvRows

`InspectHeader`, `InspectRow` and `ValidateEnds` are `inspect` on a stream of arrays; `SkipLine`,
`TakeHeader`, `Ragged`, `TooManyRows`, `PassArray`, `NoSuchColumn`, `Reshape` and `TransformEnds`
are csv-parse as the transform configures it, `reshape`, and the stringifier. One file is
validated, then transformed with any options and the same `hasHeader`. A cell is a string, and `trim` a
constant: any function on strings that leaves the empty one alone. `Rank` and `Entries` are the
filters of `reshape`, a sequence cut to some of its places. `Object.keys` is taken to list the columns in
their order, which JavaScript does for names that are not integers. The library parts (parsing, header rows as
objects, width checks, writing columns by name) are modelled from the options `csv.ts` gives them.

### Page

React state is a variable; a handler is one action up to its `await` and another one from the
answer on; an effect (`WatchEffect`, `LinksEffect`) is an action that may run any time after the
change it depends on. `posts` are the `createJob` calls under way: `Run` is not disabled
while one is, so there may be two. A file comes by `DropFile` or through the file dialog (`OpenDialog`, `ChooseFile`,
`LeaveDialog`), which does not look again at whether the zone is disabled. `sources` are the `EventSource`s not closed. `Message` is
`onmessage`, with any event except a wrong verdict (`EventStream` says when a verdict told is the job's); `Refused` is `onerror` with
a source that the browser has closed, which sets a message (`lost`) beside a state that stays as it was. `asked` are the link requests, each with its `cancelled` flag. `Reload` is
the user's.

## 3. What is checked

Properties of the passing runs:

| Run | Instance | Properties |
|---|---|---|
| `worker` | 2 processes with 1 slot, 1 job, 3 attempts, 1 stall, percentages 50 and 100, a permanent and a transient error, no lapsing locks | `TypeOK`, `SettledIsAnnounced`, `FailureIsFinal`, `RunsAreBounded`, `CountersAreExact`, `VerdictsAreCounted`, `ProgressRestartsOnly`, `ImplementsLifecycle` |
| `worker_lapse` | 1 process with 2 slots, 1 job, 2 attempts, 1 stall, locks may lapse, fairness | `WorkerInv`, `EverySubmissionSettles` |
| `stream` | 1 page with 1 request at a time, 1 job of 2 runs, 1 percentage, 2 messages in flight, 1 fault (a dropped connection, a shutdown or a crash of the API) | `StreamTypeOK`, `VerdictIsTrue`, `VerdictIsLast` |
| `stream_overlap` | 1 page with up to 2 requests in flight, 1 job of 1 run, 1 message in flight, 1 fault as above, fairness | `VerdictReachesEarlyWatcher`, `LoneRequestIsSubscribed`, `SettledJobIsTold` |
| `rate` | 2 downloads at once, upload allowance 2 and the others 1, 2 windows, 1 INCR over an allowance | `TypeOK`, `AllowanceIsKept`, `RefusalsAreEarned` |
| `files` | 1 upload, 1 job of 2 runs, an image resized or a CSV transformed, 1 download at a time, retention, record and link of 1 tick, signing on, 1 fault, fairness | `FilesTypeOK`, `RecordHasBytes`, `AnsweredLeavesNoStaging`, `ResultIsWhole`, `ServedIsWhole`, `FileCountersHold`, `OnlyGranted`, `WrittenOnce`, `StoredIsSwept`, `JobIsDecided` |
| `csv` | every file of 1 to 4 lines made of 5 first lines and 12 rows, 2 rows at most, 1 example, 5 choices of columns | `ReportIsExact`, `OutputIsProjection`, `ReportPredictsTransform`, `CleanFileIsKeptWhole` |
| `page` | 2 files of different kinds, 2 jobs, fairness | `PageTypeOK`, `ProgressIsOfJobShown`, `JobIsOfFileShown`, `OperationFitsFile`, `LateLinksAreNotShown`, `VerdictStays`, `OnlyRefusalStrands` |

What they show, and what they do not:

- `SettledIsAnnounced`, `VerdictsAreCounted`: what the queue records was announced and counted
  before, except for a job given up because its processes kept dying: BullMQ fails that one
  without the handler, so no event is published and no failure counted. A watcher learns it from the
  snapshot of its next request.
- `FailureIsFinal` holds while no run is lost. After a crash between the announcement and the
  record the job runs again and may succeed: watchers were told a failure that did not last.
- `CountersAreExact`: without lost runs nothing is counted twice; with them, a verdict may be, and no property
  speaks of it. Of the worker's counters an INCRBY that is lost or sent again is not modelled (of those of files it is).
- `ProgressRestartsOnly`: a percentage a subscriber sees goes back only at a run's `processing 0`
  and at a failure's 0. The clamp is not reset by a retry, so a retried run in the same
  process is silent until it passes the old mark.
- `VerdictIsTrue`: the verdict a request has told, by message or by snapshot, is the one the job announced, and the
  queue records it or will. It is said of jobs that lost no run: after a crash between the announcement and the record
  a page may have been told what did not last.
- `VerdictReachesEarlyWatcher`, `LoneRequestIsSubscribed`: subscribing before asking leaves no gap for a request whose
  subscription precedes the announcement and that has had its channel to itself. A request beside another one loses its
  subscription when that one leaves, be it another page's or an older one of the same page
  (`stream_deaf`): one page alone is not always told at once.
- `SettledJobIsTold`: but it is told. A page that is deaf, or that subscribed between the announcement and the record and gets
  neither the event nor a settled snapshot, learns the verdict by reconnecting when the ten-minute cap closes its request;
  so does one whose API was restarted. This takes a browser that keeps asking while the API is away: a
  refused TCP connection it retries, a proxy's 502 or a limiter's 429 ends its `EventSource`, which `Page` models. The property was also checked with two pages of one request each and no
  faults, one of which makes the other deaf.
- `VerdictIsLast`: after a verdict only the snapshot still being computed may be written. That snapshot may step
  back, in its percentage too; the properties speak of verdicts only.
- `AllowanceIsKept`, `RefusalsAreEarned`: no limiter lets more through in a window than its
  allowance, requests it lets through for want of Redis aside, and it refuses only what exceeds
  the INCRs of the current window. An INCR sent again counts again; the property speaks of INCRs, and a client refused
  for a request it did not make satisfies it.
- `RecordHasBytes`: bytes before record, and a sweep that keeps what is not older than the
  retention. An age counts from the write, the record's TTL from its later save; with the
  defaults, 24 hours for both, the sweep may come first for a moment, so the property is stated
  within the retention. It also leaves out a file whose write once stopped for longer than the retention: the sweep may have
  found that one old, and remove it after the write went on to its end and the record was saved. `JobIsDecided` covers the job that then finds no bytes.
- `AnsweredLeavesNoStaging` is about answered requests whose catch, if they came to it, could remove the file. One that could
  not, and a process that dies, leave staging files in the temporary directory, where no sweep goes.
- `ResultIsWhole`, `WrittenOnce`: because each run writes under a key of its own, a retry never
  truncates a result, and a completed job's output is whole until it is swept, for its age or because its write had
  stopped when the sweep looked at it. The runs of a job follow one another here; two at
  once, which a lapsed lock allows, write different keys and are not modelled.
- `ServedIsWhole`: a download that delivers a body was told the size of the whole file, the sweep and writers
  notwithstanding. What the sweep can do is end it: an error before the headers, or, in the
  gap between `open` and the stream's own opening, an unhandled stream error that ends the API
  process. The model has that step; no property claims it away.
- `FileCountersHold`: counters are best effort. An error makes the uploads' counter miss one or count one twice, and a
  process may die after counting an upload it then does not answer; no removal is counted more than twice; without faults
  both are exact.
- `OnlyGranted`: with a secret set, a look-up follows a minted link of that very file that has not
  lapsed, whatever link is presented with whatever expiry.
- `ReportIsExact`, `OutputIsProjection`: after every row the counters, the capped list of examples
  and the empty cells by column agree with their definitions over the lines read; the output is
  the body rows read so far in their order, minus those that are empty in every column wanted. With a header each row has
  the columns asked for, those the file lacks included and empty, as the header line names them; without one a row is
  the file's, or the beginning of it if columns were asked for (see below).
- `ReportPredictsTransform`: with `trim`, a transform is refused only for what the report showed.
  Without it, names with blanks around them, which the report shows trimmed, are not found. And when the
  first line is blank the report takes it for a header of one column named `""`, which the transform,
  skipping that line, does not have: a client that asks for that column is refused all the same.
  `TransformOptionsSchema` admits the name, so the property leaves this case out.
- `CleanFileIsKeptWhole` needs a first line that is not blank: the validation takes a blank first line for
  the header while the transform skips it, so that the first row becomes the header there.
- `ProgressIsOfJobShown`, `VerdictStays`, `LateLinksAreNotShown`: overlapping streams and answers never leave
  another job's progress or links, and no verdict is taken back.
- `JobIsOfFileShown` holds unless a file is dropped while `createJob` is under way (or Run clicked while
  an upload is): then the answer sets `jobId` again, and the old file's job is shown with the
  new file. `crossed` remembers that this happened; nothing but `OperationFitsFile` is claimed of file and job then.
- `OnlyRefusalStrands`: one thing only leaves a page showing a job as running for ever, a stream refused for good (404, 429,
  502). The hook knows of it and sets a message, but `ProgressCard` renders that for a failed job only: the page
  shows the job as running, says nothing, and keeps its controls disabled until it is reloaded. Without `Reload` the model
  deadlocks there.
- `EverySubmissionSettles`, `SettledJobIsTold`, `StoredIsSwept`, `JobIsDecided`, `OnlyRefusalStrands`: liveness,
  under the fairness below.

Four places where a comment or the README says more than the code does are stated as
properties of their own and checked to fail:

| Run | Property | What happens |
|---|---|---|
| `stream_deaf` | `NoVerdictIsMissed` | one page: it reconnects before the server hears its old connection close; the old request's cleanup unsubscribes the channel, and the new one misses the verdict. With two pages the first to leave does it to the other, without any fault (`LoneRequestIsSubscribed` and `VerdictReachesEarlyWatcher` are what is left) |
| `stream_result` | `CompletedCarriesResult` | a job that completes between getJob and getState is reported completed without its result |
| `rate_own` | `OwnAllowance` | a download spends an upload allowance and is refused by the upload limiter; job polling likewise |
| `files_hiccup` | `PermanentIsHopeless` | a momentary disk error while a CSV is opened, read or written is reported as `InvalidCsvError` and never retried (`image.ts` does the same at its first opening) |

Others need no run of their own, because the models have them in one action or a guard:

- a client that hangs up while SUBSCRIBE is on its way leaves its listener behind for the life of the process: `HangUp` while `at` is
  `subscribe` finds no `unsubscribe` to call, although `sse.ts:18` says that every exit path unsubscribes;
- a CSV without headers is cut to as many cells as columns were asked for (`Cut`), although `csv.ts:271-272` says that
  its rows pass as they are: `OutputIsProjection` claims only that they begin as the file's rows do;
- a connection that has definitively closed is recorded by the hook (`Refused`, `lost`), as `useJobProgress.ts:78-79` wants it
  reported, and rendered by no component while the job shows as running (`ProgressCard.tsx:51-52`);
- a file dropped while a job is being created does not reset it, although `App.tsx:5-7` says that an upload resets any
  previous job: `JobCreated` comes after `JobAfterDrop` (`crossed`);
- a failed job keeps its entry in `highWater` for ever: only the `completed` listener deletes it, although `worker.ts:179` speaks
  of settling.

### Bounds

Model-checking bounds are the constants above; the modules have two kinds of bounds in their
guards: `MaxInFlight`, `MaxDrops` in `EventStream`, `MaxWindow`, `MaxExcess` in `RateLimit`,
`MaxFaults` in `Storage` and `MaxJobs` in `Page` (`MaxAttempts`, `MaxStalls`, `MaxRows`,
`MaxExamples` are the program's own, as is `MaxRuns`, attempts and stalls together). Why they suffice for the interesting
cases: three attempts make a first, a middle and a last one, of which only the last may be
announced; one stall makes a lost run and, the second time, a job given up; two processes let a job change
process, two slots with lapsing locks let it be run twice at once; two percentages are a step
forward that a retry repeats below the mark. Jobs share only counters and slots in the worker, and
nothing in the stream but the connection, so one job with all its runs shows the
interleavings; the proofs are for any number. Two messages in flight let one wait behind
another, and two runs lose one and tell the verdict of the next; one end of the API process loses everything a second could lose.
`Request` is finite too: `stream` gives the page one request at a time, so that it asks again when the last is cleaned up, and
`stream_overlap` two, an old one nobody hears beside the new one, which is what one dropped connection makes. The proofs are for
any number of them; the inductive invariant was also checked with two pages. Two downloads pass two limiters, one of which allows a second request.

`files`: uploads share no file and no record, so one upload with its staging file, its bytes
and two outputs has every conflict there is; one download at a time may follow another. The two runs show a retry
after a partial output. A retention of one tick makes a file young, just as old as
it may be, and old; record and link lapse within a run. One fault is any single error or death,
at any step. A resize has every stage an image operation has, reading back included; a
transform has those of `csv.validate` in one pipeline. The other three operations are in the `files_hiccup`
instance, and in the proofs. `csv`: four lines are a header, two rows allowed and one too many, or three rows without a header;
two of them may be uneven where one is named; names are repeated, equal only once trimmed, missing
or asked for in another order; cells are empty, blank, padded or plain. `MaxRows` is 2 there for 5 000 000 and
`MaxExamples` 1 for 5. `page`: two files of different kinds remount the picker, and two jobs
are the last and the next, or a double click; longer histories repeat these through `Reload`, `DropFile` and `ChooseFile`.

### Deadlock

`JobWorker`, `RateLimit` and `Page` are checked for deadlock. `EventStream` is not: when the job is
settled and removed and the pages are gone, nothing is left to do. `CsvRows` is not: both operations end. `Files`
is not: time always passes there, so a deadlock check would find nothing, and that a job or a file gets stuck
is for the liveness properties to say.

### Fairness

`JobWorker`: every await of a live slot resolves (weak, per slot); a process that is down is
started again (`docker-compose.yml`: `restart: unless-stopped`); a closing process exits,
on its own or at its deadline. Taking up a waiting job, ending a backoff and noticing a lapsed
lock need a live process; since processes may come and go for ever these are enabled again and
again only: strong fairness. Nothing requires that a live slot loses its lock, that a processor
succeeds or fails, or that jobs are submitted.

`EventStream`: Redis answers, messages arrive, a handler resumes, the cap fires, and a browser
whose connection ended asks again, as `EventSource` does (while the API is down, it keeps trying). Nothing is assumed of when, or
whether, a server hears that a connection is gone. A closing API process exits at its
deadline and is started again (`docker-compose.yml`). The job itself, the network and the people
are not fair: the property is about jobs that did settle and pages that stay.

`Files`: time passes, the sweep that is due runs (the schedule in `queue.ts`, a worker restarted by
`docker-compose.yml`), and a run's awaits resolve, with success or an error. Clients need not do anything, and
faults need not happen. `Page`: React runs an effect whose dependency changed; jobs settle
(`EverySubmissionSettles`), and a page that keeps its `EventSource` is told (`SettledJobIsTold`).

## 4. What is proved

Every safety property of the passing runs is a theorem, under the assumptions the modules
state about their constants (two of them also need a hypothesis, `~LocksCanLapse`,
explained below), for any number of jobs, processes, requests, files and lines. Each proof has the same shape: an inductive invariant, stated in the
component's module under *Why it holds* (for the counters in `JobWorkerCounters`) and checked by TLC
first; that `Init` implies it; one lemma for each action, or group of actions alike, that it is kept;
and the property as a consequence. Below is, per component, what the invariant has to know beyond the properties.

What the assumptions demand is what the deployments have: limits that are natural numbers (at
least 1 where 0 would switch the component off), finitely many requests and keys, distinct names
for the staging files and for the outputs (`upload.ts` and `outputKey` make them unique), some
operation and some public key, percentages that do not go down (`MarksAscend` of `Processors` is
that very condition), files that are sequences of rows of at least one cell, which
is what csv-parse delivers, and a `trim` that leaves the empty string empty.

### JobWorker

`JobWorkerProofs`, with or without lapsing locks: `WorkerInvInductive` (`Spec => []WorkerInv`), and its parts
`TypeCorrect`, `AnnouncedFailureIsFinal`, `VerdictsAreAnnounced`, `RunsBounded`. `SettledIsAnnounced` is not
inductive: a step that records a verdict must know that this slot announced it, that nobody took
the job up since, and that the handler's guess agrees with the queue's rule. So `WorkerInv` adds

- `LocksAreCurrent` and `BusyHasJob`: a lock names a slot whose `made` is the job's attempts, so
  `LastAttempt`, computed from a copy taken at the fetch, agrees with `Retries`;
- `RunnerHoldsLock`: while no live slot lost its lock (`Exclusive`), the slot running a job holds
  its lock, so two slots never run the same job, and `said` is that slot's;
- `RunnerHasSaid`, `AnnouncedIsLast`: what has been announced at each await, and that a failure is
  announced only when it is final;
- `RunnerIsHeard`: what the slot that runs a job has announced is what its await says, and the
  percentage its watchers see is no higher than what it reports next;
- `RunsAreLeft`: an unsettled job has an attempt and a stall left, which makes `RunsAreBounded`
  inductive: the two counts are bounded separately, and each grows only on an active job;
- `ForwardsAMark`: the index a listener uses is in range, for `TypeOK`.

`JobWorkerCounters`: `RecordedIsCounted` and `NothingCountsTwice`. A verdict is counted between its
announcement and its record, so the accounts are two sets each, the jobs recorded and the slots on
their way there (`Completed` and `Returning`, `Failed` and `Throwing`), and every step of the module does one of
four things to an account: it counts a slot, it records a job for a slot, it leaves the account alone, or it
loses members. The counters never fall short of the two sets; they equal them until something is lost or removed.

`JobWorkerRefinement`, for `~LocksCanLapse`: `WorkerImplementsLifecycle` (`Spec => ImplementsLifecycle`) and
`PercentagesGoOn` (`Spec => ProgressRestartsOnly`). Every action maps to an action of `JobLifecycle` for
the job it is about, or to a stutter; most of the work is that the steps of a slot find
the job in the phase, with the announcement and the runs left, that the lifecycle's guard requires, which is what
`RunnerHasSaid`, `RunnerHoldsLock` and `RunsAreLeft` say. Where locks lapse neither holds: two slots at one job
announce over each other, which is not a life of a job that `JobLifecycle` has. Everything else about
`JobWorker` is proved with lapsing locks included.

### EventStream

`EventStreamProofs`: `StreamInvHolds` (`Spec => []StreamInv`), `StreamTypes`, `ToldVerdictsAreTrue`,
`NothingFollowsAVerdict`, `EarlyWatchersAreTold` and `LoneRequestsAreSubscribed`, for any number of pages, requests
of each, jobs and restarts. The last two speak of requests that had their channel to themselves (`alone`); `stream_deaf`
shows both fail of others, since a cleanup unsubscribes for everyone. `StreamInv` adds

- `VerdictsStand`: wherever a verdict is, in the inbox, in a state that was read and not yet written, or told, it
  is the one announced and recorded, unless a run was lost; `SettledAsSaid` is the lifecycle's side of it;
- `RequestsAreSound`: a verdict closes its request, an open request listens, and one that still waits for
  SUBSCRIBE cannot unsubscribe;
- `WireIsAwaited`: each command on the connection is the one its request awaits, and there is one of a
  request at most, so a reply resumes whom it is for;
- `LoneIsAlone`: beside a request that is `alone` every other one on its channel is at rest. With `WireIsAwaited`, no
  UNSUBSCRIBE of another can be on its way to overtake its SUBSCRIBE;
- `SubscribedIsKept`: from the reply on, such a request stays subscribed until it is cleaned up, and a
  verdict announced meanwhile is in the inbox.

### RateLimit

`RateLimitProofs`: `LimitInvInductive` (`Spec => []LimitInv`), `LimitTypes`, `AllowancesHold`, `RefusalsEarned`.
What they need beyond their own statement is `KeysCount`: a key never exceeds what
was spent in its window, and until the window is over it counts all that was admitted (a
key disappears only afterwards). `AtALimiter` says that a pending request is at an
existing limiter of its chain.

### Files

`FilesProofs`, for any uploads, jobs, downloads and faults, over all four modules at once: `FilesInvHolds`
(`Spec => []FilesInv`), `FilesTypes`, `RecordsHaveBytes`, `AnsweredLeaveNoStaging`, `ResultsAreWhole`, `ServedAreWhole`,
`FileCountersAreRight`, and the action properties `FilesAreWrittenOnce` and `OnlyGrantedAreServed`. The invariant says
where the bytes are, as a function of how far each party has come:

- `UploadIsWhere`: the staging file and the stored file for each state of a request; `RecordIsLast`: there is a
  record only once the bytes are whole;
- `OutputIsWhere`: which of a run's stages are behind it decides whether its output does not exist, is partial or
  is whole; outputs of later runs do not exist, so a retry writes a file nobody was told of;
- `GoneIsOld`: only the sweep removes what is stored, and what it has found old and not yet removed is still old, or was
  written after its write had stopped for that long (`stalled`). It is what turns `UploadIsWhere` into `RecordHasBytes`;
- `DownloadIsOfResult`: what a download has opened is the output of a completed job, which is why no writer can be
  at work on it;
- `JobsAreCounted`, with `FileCountersHold`, over the cardinalities of the uploads counted and the files swept.

### CsvRows

`CsvRowsProofs`: `ReportsAreExact`, from `ReportInv`: the width and the names of the report are those of the
first line, the columns it counts blanks for are those names, and while there is room for examples every uneven row is
one. Each counter is the cardinality of a set of rows, or of cells, that the next row extends by at most one
row, so no induction over the file is needed: the steps of the specification are the induction.

And `TransformInvHolds` (`Spec => []TransformInv`), `OutputsAreProjections`, `ReportsPredictTransforms` and
`CleanFilesAreKeptWhole`. The output is a sequence cut from another, which a recursive filter would define; here the
row of line `i` is at place `Rank(i, Keeps)`, the number of lines kept up to it, so a line read
adds a place at the end and moves none (`RankGrows`). That ranks run from 1 without a gap (`RankIs`) is an
injection between sets of one size, and that there is a first line (`LeastNat`) is well-foundedness.
`TransformInv` adds

- `ParserSoFar`: the parser's header is the first line it does not skip, all lines it let through are as wide, and
  the columns are decided exactly when a row has come to `reshape`, so what decides whether an earlier row is
  kept does not change under a later one;
- `ReportIsOfAll`: what a finished report says of the whole file, which outlives `ReportInv` when the transform
  starts to read from the beginning. A ragged row would be uneven, and one row too many for
  `reshape` would be one too many for `inspect`, because the transform's rows are among the report's;
- that a transform is at work only after the report has ended or was refused, and begins with nothing.

### Page

`PageProofs`: `PageInvHolds` (`Spec => []PageInv`), `PageTypes`, `ProgressShownIsOfJob`, `JobShownIsOfFile`,
`OperationsFit`, and the action properties `LateLinksDropped` and `VerdictsStay`. The invariant adds

- `HookFollowsOne`: what the hook shows and listens to is the job its effect last ran for, not yet the job
  shown: between a render and its effect the two differ, and `ProgressIsOfJobShown` is about the rest;
- `NothingCrosses`: as long as no upload and creation have overlapped (`crossed`), pending creations and the job
  shown are of the file shown, and there are none while a file is uploaded;
- `CardAwaitsItsOwn`: a link request that is not cancelled is for the outputs the card was last given;
- `PickerFits`: the picker is there when a file is, keyed by its kind.

### Only model-checked

- The liveness properties: `EverySubmissionSettles`, `SettledJobIsTold`, `StoredIsSwept`, `JobIsDecided`,
  `OnlyRefusalStrands`. Fairness is defined with ENABLED, which is outside the prover's reach.
- The four properties the code does not have (section 3), each by its counterexample.

## 5. Plan

The parts of the system that keep state are modelled, and their safety properties proved. What is left:

1. What `EventStream` keeps for requests that share a channel, in place of `SubscribedIsKept`.
2. The abstract promise of a watched job, `JobLifecycle` without the stream, from `JobWorker` where locks lapse:
   what remains of a job's life when two slots run it at once.

## 6. Not modelled

- Pixel processing (`sharp`) and the bytes of CSV and of HTTP bodies; `Processors` and `CsvRows`
  model what is done with the outcome.
- Configuration (`config.ts`) and logging (`logger.ts`): read once or written only.
- `GET /jobs/:id`, `/status` and `/metrics`: reads that change nothing. The race of the first
  is that of the stream's snapshot.
- File names, MIME types beyond accepted or not, content disposition, cache headers, CORS, error bodies.
- Two sweeps at once, and a job of one upload next to another job of the same upload: neither writes a file the
  other writes, and a file is removed once (`rm` with `force`).
- The API's order of closing its Redis connections at the end of a shutdown.
- The frontend's option fields, drag highlighting and layout.

BullMQ, Redis, multer, csv-parse, csv-stringify, React and the browser's `EventSource` are external: they are modelled as
this code uses them.
