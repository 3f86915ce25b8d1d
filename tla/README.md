# Eventify: a TLA+ verification project

Eventify is one NestJS process. Clients stream events to it over gRPC; it answers each
event at once and does everything else behind the client's back: the event is batched
into a BullMQ queue and from there into MongoDB, counted against the quota of its API
key, pushed to the browsers of its owner, and added to the dashboard's metrics. Almost
nothing of that is awaited. This directory models what happens between the answer and
the effects, checks it with TLC, and proves part of it with TLAPS.

Paths like `src/events/...` are relative to the repository's own `src/` directory.

1. [The system](#1-the-system)
2. [The modules](#2-the-modules)
3. [The runs](#3-the-runs)
4. [Fairness](#4-fairness)
5. [What is proved](#5-what-is-proved)
6. [Where the code differs from what is said of it](#6-where-the-code-differs-from-what-is-said-of-it)
7. [What is not modelled](#7-what-is-not-modelled)
8. [The plan](#8-the-plan)

## 1. The system

### How the parts interact

`EventsService.eventStream` (`src/events/events.service.ts`) receives an event and, in one
synchronous turn, hands it to four parts and acknowledges it:

```
gRPC stream --event--> eventStream --> "received"
                          |
                          |-- StreamEventBatcher.addStreamEvent --> queue event-process --> insertMany
                          |-- ApiKeyUsageService.incrementUsage --> Redis hash --> updateApiKeyUsage
                          |-- StreamWebSocketBatcher.addEvent -----> queue --> room of the owner
                          '-- metricsAggregationQueue.add ---------> buckets in Redis --> reports
```

The four share one process, one Redis and one MongoDB, and their settings decide most of
what can go wrong:

- **Redis** runs with 128 MB, `noeviction` and no persistence (`start-railway.sh`). It takes
  the write that crosses its limit and refuses those that come after, those of BullMQ's own
  scripts among them: a queue whose Redis is full can neither be added to nor worked off. When
  it restarts it is empty. ioredis sends what was not answered again when its connection breaks
  (`src/integrations/redis/redis.module.ts:14-18`), also what had been executed.
- **MongoDB** is written with `w: 0` (`src/app.module.ts:45`): a write that fails on the
  server is reported to nobody, a unique index refuses in silence, and a document arrives
  after the code has gone on.
- **The process** exits on an unhandled rejection in production and survives it otherwise
  (`src/common/services/unhandled-exception.service.ts`). `cleanup()` flushes nothing.
  `start-railway.sh` starts it once; nothing in the repository starts it again.

### Components, their state and what makes them correct

| component | state | operations | what is hard | what makes it correct |
|---|---|---|---|---|
| event ingestion | buffer; BullMQ job states in Redis; documents | accept, flush by size or by time, add, take, process, finish, stalled, insert | un-awaited `queue.add` and `insertMany`, redelivery, exits, a full or emptied Redis | each acknowledged event is in one place; lost only to a fault; duplicates bounded by stalls |
| API keys and usage | document; Redis hash; sync counter; commands on the connection | open a stream (validate, initialise), count, sync every 1000, (de)activate, delete | `initializeApiKeyUsage` is not awaited and races with increments; updates over a pool arrive in any order; an increment may be executed twice | nobody is charged for more than was executed; the document lags behind Redis for a reason: by the sync counter, an update on its way, or one that failed or came late |
| dashboard metrics | minute and hour buckets with a time to live; live feed; reports in progress | count an event, report to a room, report on the interval | buckets are read one at a time while others count and keys expire; EXPIRE waits for its command's reply; Redis may refuse some of an event's counters, or lose them all; two counters share a hash | a report and its chart show their windows as they were while they were read; parts and total explain each other |
| live fan-out | buffer per owner; queue; sockets and rooms | add, flush all, process, broadcast, connect, disconnect | batches cut by size and by time, one malformed payload, redelivery, a full Redis | each connection gets its owner's batches, once, in order |
| refresh tokens | `user-<id>` in Redis; cookies | sign-in, refresh (GET, DEL, SET) | check and act are separate awaits | a replaced token is never accepted again; a session survives its own refreshes |
| accounts and verification | document; `otp:<email>` | sign-up, resend, verify | requests race; `w: 0` hides the unique index | the account is stable; an account that waits can be verified |
| event query API | the collection | page of a query, delete | items and total are two commands; batches land between pages | no document is hidden by the paging; documents that sort alike are at worst exchanged |
| access guards | none | verify a bearer token | - | a predicate over the token |
| notifications | BullMQ queue | send a mail | the mail client swallows the errors of the mail server | a code that is stored reaches its user |
| error filters, logging, health, debug routes | none | - | - | read-only |
| usage tracker queue | none | - | nothing adds a job to it | never runs |

## 2. The modules

| module | what it is |
|---|---|
| `EventLedger` | abstract specification: what ingestion promises for each event |
| `EventPipeline` | the way from "received" to MongoDB, with process, Redis and MongoDB |
| `EventPipelineProofs` | theorems about it; it implements `EventLedger` |
| `ApiKeyUsage`, `ApiKeyUsageProofs` | counting the events of one key; theorems |
| `Ingestion`, `IngestionProofs` | pipeline and counting in one process over one Redis; it implements both |
| `MetricsWindow`, `MetricsWindowProofs` | the buckets of the dashboard and the reports over them; theorems |
| `DashboardReport` | the fields that are counted, and the figures of a report |
| `LiveFeed` | abstract specification: the log a connection is shown |
| `LiveFanout`, `LiveFanoutProofs` | batches, rooms and sockets; theorems; it implements `LiveFeed` |
| `TokenLifecycle` | abstract specification: the stages a refresh token goes through |
| `RefreshTokens`, `RefreshTokensProofs` | the one entry of a user in Redis; theorems; it implements `TokenLifecycle` |
| `EmailVerification`, `EmailVerificationProofs` | one address: account, one-time code and mail; theorems |
| `EventsQuery` | reading the pages of a query while documents come and go |
| `ReadSideProofs` | theorems about what users read: `EventsQuery` and `DashboardReport` |
| `MC...` | the model values, assignments and symmetry of the instances TLC checks |

Every module starts with a comment on its abstraction. Operators marked `Mutant of X` are
plausible bugs of `X`: put in its place, each makes a property of a run fail, which shows
that the property can fail.

### EventPipeline

`buffer` is `StreamEventBatcher.buffer`, `adding` the `queue.add` calls nobody awaits,
`wait/active/completed/failed` the states of a BullMQ job, `fetched/returned/threw` the
worker's memory, `inserting` the `insertMany` calls nobody awaits, `copies` the documents.
A batch is the set of its events: batches never share an event (an invariant, and a
theorem), so the set is also the identity of the job.

`AcceptEvent` is one turn of `eventStream` including the flush when the size is reached;
`FlushInterval` the 500 ms timer; `AddJob`/`AddJobRejected` the answer to `queue.add`;
`TakeJob`, `FinishJob` and `StalledJob` are BullMQ as the code configures it (no
`attempts`, nothing removed); `ProcessJob` is `EventHttpProcessor` with
`EventHttpRepository.insertBatch`, which starts the insert and returns; `InsertLands`,
`InsertUnacknowledged` and `InsertRejected` are what may become of it.
`GracefulShutdown` is what is left after `process.exit`.

`StalledJob` needs a job no live worker holds: BullMQ renews the locks of running jobs, and
an event loop blocked longer than the lock is not modelled.

`redisFull` says that Redis is over its limit. `MemoryChanges` turns it on and off at any
moment, because the other parts write to the same Redis and their keys expire. While it holds,
Redis refuses what begins by writing: `queue.add` (`AddJobRejected`), the worker's move of a
job (`TakeJob`) and the stalled check (`StalledJob`), so that a job which was accepted may
wait for ever with the process up. `Drains` says exactly that: everything but the queue empties
whatever the memory does, and the queue does too unless Redis is full for good or again and
again. `FinishJob` is not refused: the script that reports a job deletes its lock first, and
takes the next job in the same script even while memory is full. The model has that as
`MemoryChanges`, `TakeJob`, `MemoryChanges`: as if memory had been free for a moment.

`ImplementsLedger` maps the pipeline to `EventLedger` (`unsent`, `pending`, `stored`,
`buried`, `lost`). It says at once that nothing is lost without a fault or a refusal by
the schema, that nothing lost or buried comes back, and that nothing stored is taken back.

### ApiKeyUsage

One key, because keys share neither document nor hash. ioredis sends the commands of the
process over one connection, so `commands` is a FIFO; updates of the document go over
MongoDB's pool, so `updates` is a set. The reply of the increment script is handled in the
step that executes it, because nothing else looks at the counters in between; the reply of
EXISTS is a step of its own, because increments are sent before HSET answers to it. A restart
of Redis forgets the script (`NOSCRIPT`), and `onModuleInit` loads it only when the
process starts. When Redis is full it refuses increments (`IncrRejected`) and HSET (`HsetRejected`).

When the connection breaks between an increment and its reply, ioredis sends the increment again:
`ExecuteIncrUnanswered` counts and leaves the command where it is. Only the oldest command is taken
to have been executed by then; that a whole run of them was is left out, as each of them would add
to `resent` in the same way. Commands that are sent again and count nothing (EXISTS, HSET with the
same values) are the same to the model whether they were executed once or twice.

`missed` is a history variable: an update was rejected, or landed on a count that was higher than
its own. Before that, and before an exit, `LagExplained` compares Redis with the *document*.

### Ingestion

`P` and `U` are instances of `EventPipeline` and `ApiKeyUsage` that share `up`. `Offered` is
the turn of `eventStream` in which an event is both buffered and counted; every other action is
that of one component, and when it ends the process (a `NOSCRIPT` answer, a refused job) the
other's `Exit` is part of the same step (`PipelineFollows`, `UsageFollows`). `RedisRestart`
takes the jobs, the hash and the script together, again and again, and `redisFull` is one: while it
holds it refuses the jobs, the increments and HSET. The fairness is that of the components, stated
again for the composed actions.

### MetricsWindow

A bucket is the set of runs counted in it and the minute it dies. Sets of runs, rather than
counters, let a property say *which* events a report shows; that ioredis may send an HINCRBY twice
is not visible in them. `Count(taken)` is the batch of commands `Promise.all` sends at once, of which
Redis takes any subset, because memory may be freed and filled between them. The EXPIRE that waits
for the reply to HINCRBY follows in `HincrbyReply`, whether or not the job still exists.
A null payload fails the job after its counters were sent; the job is `over` when BullMQ has been
told so (`JobOver`), and an exit before that makes it run again. `RedisRestart(again)` empties Redis
under a running process: waiting jobs and buckets are gone, a job that is running goes on without
being known (`held`), and those HINCRBYs in flight that are sent again (`again`) make new keys. The
pipeline of the volumes is taken to be answered. `erased` remembers what was lost, `refused` what was
refused, and the properties excuse no more than these. `BeginReport` and `ReadNext` read one bucket
at a time, the minutes of both windows and then the hours of the chart, for which
the time is taken again (`ChartTime`); the job's report and that of the 10 s interval overlap.
`InTime` is a timing assumption: writes and reports that have begun finish within `MaxLag`
minutes, and `MetricsAssumption` asks for `MaxLag <= Extra`, without which no time to live helps.
The keys are those of the code, shared by all owners.

### DashboardReport

The same hashes with their fields and numbers, each event counted in one step: `volume` holds
`total_events` beside the names of events, `users` is a set, `times` the newest processing times.
`Report(start)` is `generateDashboardMetrics` over them: merging minutes, sorting, filtering and
cutting lists, `Math.round` in integers (hundredths of a percent). A sort leaves fields with equal
counts in whatever order Redis returned them, so `Ranked` is the *set* of lists that may come out,
and a property of `top` or `distribution` holds of each of them. `SumOf` counts the units of its
numbers, which makes it a definition that can be reasoned about; TLC evaluates it as it stands.
`log` is a history variable: the events in the order they were processed.

`Kinds` are the payloads a client may send: complete, empty, null, and one whose event is called
`total_events`. Not among them are names that every JavaScript object inherits (`constructor`:
`target[key]` finds them and the count becomes NaN) and timestamps that are no date, which make
the average NaN. Two details of the figures are worth knowing: an event called `total_events`
counts twice in the total, and a change of less than half a hundredth of a percent is shown as 0,
which takes 20000 events in the window before (`RoundedHonest` says both exactly).

### LiveFanout

`handleConnection` and the worker's `process()` only await promises that are already
settled, so each is one step. The queue is a sequence, its worker runs one job at a time.
`redisFull` and `MemoryChanges` are those of `EventPipeline`. `IntervalBroadcast` names the room
the code names.

The gateway has two messages, and they differ in whose events they show. `events` carries a batch
of one owner (`BatchesKeepOwner`). `metrics` carries, among the figures, `liveEvents`: a copy of
`liveEventsBuffer`, which holds the latest events of *all* owners
(`metrics-aggregation.service.ts:177-198`, 249). `Shows(user)` says so: a connection's metrics may
show others' events as soon as any have been received, and no property claims otherwise.

`ImplementsFeed` maps it to `LiveFeed`, where there are no buffers, jobs or workers: the room of
a connection is its owner (`Rooms`), its log is its inbox (`Logs`), and something has failed once
a process has ended or Redis has refused a batch. Pushing, flushing, enqueueing and taking a job
are invisible there; the worker's emit is a `Deliver` to everyone in the room, an exit a `Fault`
that empties the rooms.

### RefreshTokens

The entry of one user, the cookies of the user's browsers, and requests whose GET, DEL
and SET interleave. Tokens are numbered in the order their random ids are made; ids are
assumed distinct. The password comparison and the verification of the JWT are guards.

`ImplementsLifecycle` maps it to `TokenLifecycle`: a token is `unmade`, `pending` until its SET,
`live` while the entry holds it, `dead` after. It says what remains true when requests race: a token
is stored once and never revived, `accepted` grows for the live one only, and whoever gets a token
without a password has had one accepted, which is spent. What does *not* remain true is that a token
is accepted once (`RotatesOnce`, section 6), so `Accept` may happen again before `Exchange`.

### EmailVerification

One address. `inserts` and `updating` are writes MongoDB has not acknowledged and never
will. A request may spell the address differently from the stored document (`same`), which
the code's Redis keys distinguish and the account lookup does not. `mailing` is the notification
queue: `SendEmail` is its worker with a mail server that takes the mail (twice, if the worker ends
before the job does), `SendFails` one that does not, which `GmailNotificationClient` logs before
the job completes.

### EventsQuery

`Find` and `CountDocuments` are the two commands of `Promise.all`; `AnswerPage` the reply
after which the reader asks for the next page while there is one. `PageItems` allows every
order MongoDB may give documents that sort alike. One lower bound on the sort key stands
for all filters of a query.

## 3. The runs

Most runs take seconds to a minute on two cores; `usage_safety`, `fanout_safety` and
`ingestion_composed` check liveness over some hundred thousand states and take two to three minutes.
`metrics_safety` has the most states, 2.8 million.

| run | result | what it shows |
|---|---|---|
| `pipeline_safety` | passes | job states, batching, duplicates, loss accounting, refinement of `EventLedger`, and what drains while Redis may be full, where the process survives rejections and the schema refuses an event |
| `pipeline_at_least_once` | violation | a completed job whose documents never reach MongoDB |
| `usage_safety` | passes | no overcharging, a lag that is explained, closing window, and that the initialisation completes, also when an increment is executed twice |
| `ingestion_composed` | passes | pipeline and counting behave in each other's company as they do alone, in production mode, and charges are covered |
| `metrics_safety` | passes | reports, chart, times to live, redelivery, that an event shows in its own report; a Redis that refuses any of the writes or loses them |
| `metrics_previous` | violation | the previous window is read after its buckets have expired |
| `dashboard_figures` | passes | parts and totals, top list, rounding, for every mixture of payloads |
| `tokens_safety` | passes | rotation under races and faults, and the refinement of `TokenLifecycle` |
| `email_safety` | passes | sign-up, resend and verification under races and one fault |
| `fanout_safety` | passes | which batches a connection is sent, how often, in which order, and that it is sent them; the refinement of `LiveFeed` |
| `fanout_refreshed` | violation | the 10 s broadcast reaches nobody |
| `query_safety` | passes | paging against concurrent writes, and what ties do to it |

### Bounds, and why they are enough

- **Pipeline**: three events, batches of two, one of them malformed and one refused by the
  schema. Two events make a full batch and leave one for a second, partly filled batch, so
  size and interval flushes, poisoned neighbours and two jobs at once all happen.
  Redis becomes full and has room again at any moment, without a bound. `MaxStalled = 1` is BullMQ's default: one redelivery and
  one failure by stalling. Exits, restarts and losses of Redis are unbounded.
- **Usage**: two stream openings (two initialisations race), four events with a sync every
  two (updates race), a limit of two, one increment that is executed twice (`MaxResent`).
  `MaxReceived` and `MaxResent` are the bounds of the model; exits, restarts and deletions are unbounded.
- **Ingestion**: two events in one stream with a sync after each, so that a batch waits in memory
  while an increment of its own event can end the process, and the other way round; no increment is
  executed twice and the first stall fails a job (`MaxResent = 0`, `MaxStalled = 0`), as both happen in the
  components' own runs.
- **Metrics**: `metrics_safety` shrinks 5 and 2 minutes to a window of 2 and 1 extra, hours to 2
  minutes of which 2 are shown, over 4 minutes of clock: an hour turns while it is read, and
  the bucket at the far end of the window expires one lag after it is needed, which is what the extra
  time is for. Two events, one with a null payload; the job's report and one interval's; one fault: an
  exit, a loss of Redis, or a run of which a write is refused (`MaxFaults` bounds their sum).
  `metrics_previous` uses the code's 5 and 2.
- **Figures**: five kinds of events, up to four of them in any order over four minutes, with lists of
  two and windows of two: ties at the cut, empty windows on either side, halves that are rounded up and down.
- **Tokens**: two browsers, three requests at once, four tokens, one exit: enough for one
  request to delete what a second has stored while a third still holds the old token.
- **Email**: three requests at once, two sign-ups, three codes, one fault of any kind.
- **Fan-out**: two owners, three events of one and one of the other, batches of two, one
  connection that comes and goes between rooms, one fault, an exit or a refused job (`MaxFaults`), redelivery.
  Redis may be full again and again until the fault has happened, and after it until it has room. `fanout_rooms.cfg`
  checks the invariants, `TypeOK`, `RoomsAgree` and the refinement with two connections under
  symmetry, for three events that all parse; it is there to be run by hand, as the theorems cover any number.
- **Query**: five documents, two of which sort alike and one of which belongs to another owner, pages of 1 and 2, both directions,
  every lower bound, every initial collection, any inserts and deletes.

`tokens_safety`, `email_safety`, `dashboard_figures` and `ingestion_composed` turn deadlock checking
off: the instances really stop when the tokens, codes, minutes, streams or events of the bound are used up. Symmetry is used in runs that check safety only.

## 4. Fairness

Safety needs none. The liveness properties assume weak fairness of steps the runtime
owes, never of clients, faults, exits or restarts:

- `Drains`: the timer, the answers of Redis, the worker, the report of a result,
  BullMQ's stalled check, and the driver's answer to an insert. The property itself
  assumes that from some time on the process stays up: nothing in the repository restarts it.
  Fairness of `TakeJob` and `StalledJob` is weak and they are disabled while Redis is full, so a
  Redis that is full again and again may starve them. Nothing obliges Redis to have room again,
  so the second half of the property assumes it.
- `KeyEventuallyTracked`: Redis executes what it was sent, replies are handled, MongoDB
  answers.
- `ImplementsComponents`: the fairness of both components, of the composed actions; the run shows
  that it gives each component its own.
- `LiveDelivery` and `ClientsRefreshed`: timers, answers of Redis, the worker. `LiveDelivery` assumes,
  as `Drains` does, that Redis is not full for good or again and again.
  `ClientsRefreshed` is violated *with* that fairness: the interval fires for ever and
  still reaches no one.

## 5. What is proved

All theorems hold for every value of the constants that satisfies the module's named
assumption (`PipelineAssumption`, `UsageAssumption`, `IngestionAssumption`, `MetricsAssumption`,
`FanoutAssumption`, `TokensAssumption`, `AccountAssumption`, `QueryAssumption`, `ReportAssumption`): any
finite set of events, any batch size, concurrency, stall limit, window, time to live, length of
a list or page, bound on refused or re-sent commands, number of streams, sockets, browsers, documents and requests. Every safety property a
run checks is the statement of a theorem, but for `ReportShowsItsEvent`.
The type invariant of every module that has steps is a theorem too (`TypeCorrect`,
`ReportTypeCorrect`; `Ingestion` has those of its two parts); of these only that of
`usage_safety` is also in a standing run.

**EventPipeline.** `PipelineInvariant` is the inductive invariant, checked by TLC in
`pipeline_safety` before it was proved. The properties alone are not inductive: that a job
leaves at most one document per run needs to know that a run which has not written yet is
still *owed* by the stall count (`RunOwed`: `copies <= stalls` while a job waits, runs or
writes), that events of a batch stall together (`StallsShared`), that what has not been
batched has neither stalled nor been written (`FreshUntouched`), that batches contain
acknowledged events only (`BatchesAcked`, or a new event could collide with one), that a
process that is down holds nothing (`DownHoldsNothing`, or a restarted worker could meet its
old self), and that only parsed batches are written (`Parsed`). From it follow
`BatchesApart`, `JobsInOnePlace`, `AtMostOneCopyPerRun`, `FailuresHaveCause` and
`PoisonTakesTheBatch`; `SizesBounded` has an argument of its own.
The proof has one lemma per action.

**Refinement.** `LedgerBalances`: without a fault every acknowledged event is pending,
stored, buried or refused by the schema. `PipelineImplementsLedger`: each step of the
pipeline is an `Accept`, a `Progress` or a stutter of the ledger; the invariant supplies
that an event which is buried or lost is in no batch that could still be written, and
`FaultFree` that loss implies a fault.

**ApiKeyUsage.** `NoEventChargedTwice` counts the increments still on the connection as
already taken; its lemmas `OfAppend` and `OfTail` say how that count moves with the
queue; an increment that is sent again moves `resent` with the count. `LagHasReason` is about the
document: `OnItsWay` says that, until something was missed, the document or an update in flight
carries the last count that was handed on, and the sync counter covers what Redis has counted since. HSET
writes the count of a document read earlier, which is not above that of the document now (`SnapshotsBehind`).
`InitialisationWindowCloses` is an action property: with the hash there and no HSET due, no
step makes one due or lowers the count.

**RefreshTokens.** `ReplacedTokenStaysReplaced` rests on `stored \notin replaced`, which is
inductive because a token on its way to SET is known to nobody else (`OnItsWay`).
`SerialRequestsKeepSession` rests on `SerialInv`: while no requests have overlapped and nothing has failed, at
most one request is active, and between its DEL and its reply the token is its own.
`ExchangeImplementsLifecycle` takes each action to one of the lifecycle: SET is `Store`, DEL with the
new id is `Exchange`, an exit loses every pending token. It needs `OnItsWay`, so that no two requests
carry one token, and `PassedBefore`: only a request that GET let pass reaches DEL. `DeadTokensStayDead`
and `SpentTokensAreDead` are properties of the lifecycle that the code inherits.

**Ingestion.** `ComponentsImplemented`: every step of the composition is a step of each component
or leaves it alone, so every safety theorem about the two holds of it. `ChargesAccounted` then adds
`NoEventChargedTwice` to `LedgerBalances`; its own invariant is that counting has received exactly
as many events as the pipeline has acknowledged.

**MetricsWindow.** `IndInv` was checked with TLC, part by part, before it was proved.
`CountsInv`: a job that waits again has had an exit for every attempt, and the run in progress
has not been counted yet; without it a redelivered job could count under the number of an earlier
run. `FeedInv`: the feed holds started runs only, and not the one being counted. All
that was started is `Timely`; a bucket holds what was counted in its minute and not erased, for
`BucketTTL` minutes, and its counters agree but for runs that were refused or erased
(`BucketsWhole`); where it has no time to live, its EXPIRE is on the way (`ExpireComes`), also for a
key that a re-sent HINCRBY has made; and reports in progress are right (`ReportsRight`): what was due
and is not erased is in what has been read or in a minute that has not been reached. The step that
matters is `ReadNext`: the minute it reads began less than `Window + MaxLag` minutes ago, so by
`MaxLag <= Extra` its bucket cannot have expired. `HoursWhole` and `ChartsRight` are the same argument
over hours, with the second reading of the clock in the middle. From them follow `ReportsBracketed`,
`DistributionSound`, `ChartStaysRecent`, `KeysAllExpire` and `EventsNotRecounted`. `FeedStaysFresh`
(`LiveFeedFresh`: the feed holds the newest runs, each once, within its length) is proved and not in a run.

**LiveFanout.** `OwnersKept` (every buffer and batch is of one owner) gives `BatchesNeverMix`, which is
about the batches of `events` and says nothing of the live feed inside the metrics.
`OnePlace` gives `SentOnce`: an event that was received and not sent is in one buffer or one batch,
a batch is in one place, and what was sent is in no batch that could still be sent.
`OneLine` gives `SentInOrder`: as long as nothing has ended or been refused, what a connection
was sent, the jobs of its owner and the owner's buffer are, one behind the other, in the order of arrival.
`FanoutImplementsFeed` needs all three: an emit is a `Deliver` only if the batch is its owner's
(`OwnersKept`), new to all in the room (`OnePlace`) and behind what they have (`OneLine`, through
`OrderedUntilStall` of the state after the step). `RoomsSeeTheSame` (`RoomsAgree`) is then proved of
`LiveFeed`, where a log changes by joining, leaving and by what the whole room is sent, and inherited.

**EmailVerification.** `CodeInv`: until something fails an account that waits has a code, or a
request that will set one, or an update on its way that will verify it, and a stored code has been
mailed or a request is about to mail it. The part that is not obvious is `ResendMail` before `ResendSet`, hence
`MailFirst`. `SignUpInv` follows one sign-up at a time from its insert to its reply.
`AccountKept` needs no invariant.

**EventsQuery** (`ReadSideProofs`). A document's place in the order is known only up to the documents that
sort like it: `Rank` counts those before it, `Like` is its group. What is inductive is counted, not
placed (`StillInv`): while nothing is written, a group of which nothing has been repeated has been
seen in as many documents as the pages so far have covered places of it (`Slots`). At the last page
all places are covered, so a document that was missed has a like that came twice (`TiesSwap`),
and a group of one is complete (`PagesPartitionMatches`). `GrowingInv` gives `NothingIsHidden`: while batches land
and no documents sort alike, those of the first moment whose rank is below `skip()` have been
seen, because inserts only push ranks up.

**DashboardReport** (`ReadSideProofs`). `ReportInv` speaks of *every* set of minutes, not of the two windows
shown, because a step changes one minute and the windows move with the clock: merged
buckets add up to the number of events processed in those minutes, by field, in total, with a
payload, and converting; users are those of the events; and the time at place `k` of a minute
is that of the event with `k - 1` newer ones (`Place`). A step adds one to one field of one
bucket, and `MergedAdds` says that this adds one to that field of whatever is merged with it. Sums do
not depend on the order of their terms (`SumReindexed`, by a bijection between units), which is
what makes `PartsExplained` independent of ties; `Listed`, that a strict order on a finite set can be listed, shows
that there always is a list to show, so that no property of the lists holds for want of one.
`FiguresHonest` is arithmetic over `RoundBracket` and, for the average, a bijection between the newest events
and the places of the times.

**Only model-checked**: `ReportShowsItsEvent` and liveness (`Drains`, `KeyEventuallyTracked`, `LiveDelivery`, and the
fairness half of `ImplementsComponents`). Liveness under fairness and ENABLED are out of the prover's
reach. Nothing else needs induction over data: sums are cardinalities and lists are bijections.

## 6. Where the code differs from what is said of it

Standing runs, each a counterexample to one property:

- `pipeline_at_least_once` / `CompletedIsStored`. `insertBatch` does not await `insertMany`, so
  the job completes first; an exit in between loses the batch. "At-least-once delivery
  guarantees" (`README.md:82`) and "Let BullMQ handle retries"
  (`event-http.repository.ts:58`) do not hold.
- `metrics_previous` / `PreviousWindowComplete`. Buckets live 7 minutes after their last write;
  the "previous 5-minute window" (`metrics-aggregation.service.ts:312`) is 5 to 9 minutes
  back, so percentage changes compare with part of a window.
- `fanout_refreshed` / `ClientsRefreshed`. The interval emits to the room `user_all`, which
  nobody joins; "broadcast metrics every 10 seconds to all connected clients"
  (`metrics-aggregation.service.ts:498`) does not happen.

The modules also state these expectations, each with a configuration beside it under which TLC
finds it violated; they are not among the standing runs:

| configuration | property | what TLC shows |
|---|---|---|
| `pipeline_retries.cfg` | `OpenInsertHasOpenJob` | a write is open while its job is already complete: nothing can retry it |
| `usage_limit.cfg` | `LimitEnforced` | an open stream is served past its limit: `limitExceeded` is ignored |
| `usage_counted.cfg` | `EveryEventCounted` | an increment between EXISTS and HSET is overwritten |
| `usage_restart.cfg` | `HashKnowsItsKey` | an exit between the first HINCRBY and HSET leaves a hash nobody completes |
| `metrics_hourly.cfg` | `HourlyVolumeKept` | hour buckets live one hour; of 24 hours shown at most two are not zero |
| `metrics_ttl.cfg` | `EveryKeyExpires` | an exit before EXPIRE leaves a key for ever |
| `tokens_rotation.cfg` | `RotatesOnce` | two refreshes with one token both pass GET |
| `tokens_lapse.cfg` | `EntryLapses` | the entry outlives its token: SET has no time to live |
| `email_conflict.cfg` | `OnlyStoredAnswered` | two racing sign-ups are both answered with a new user |

## 7. What is not modelled

- BullMQ, Redis, MongoDB, Socket.IO, the mail server and JWT themselves: their steps are written from
  how the code uses them. Access guards, filters, logging, health and debug routes, generated code
  and wiring: no state, or pure I/O.
- Day buckets and sets of sessions, which are written and never read; the labels and times of day
  in a report.
- Events named like a property every JavaScript object inherits.
- What a re-sent command does beyond the oldest increment of `ApiKeyUsage` and the HINCRBYs in flight
  when Redis restarts: a re-sent HINCRBY without a loss of data counts an event twice in a figure, and
  a re-sent `queue.add` leaves a second job with the same batch.
- Code nobody calls: the usage tracker's queue, `registerApiKey`, `getUsage`, `resetUsage`,
  `deleteApiKeyUsage`, `aggregateEvents`, `insertEvent`, the repository's `getEvents`.
- Metrics and fan-out are not in the composition: they share neither keys nor jobs with the other
  two, and their own exits, at any moment, cover those caused by their neighbours.

## 8. The plan

Done, in this order: `EventLedger` and `EventPipeline` with proofs and refinement;
`ApiKeyUsage` with proofs; `MetricsWindow`; `RefreshTokens` with proofs; `EmailVerification`;
`LiveFanout`; `EventsQuery`; full Redis in `ApiKeyUsage` and `MetricsWindow`; mails in
`EmailVerification`; `DashboardReport`; `Ingestion` with proofs; the proofs of
`EmailVerification`, `LiveFanout`, `MetricsWindow`, `EventsQuery` and `DashboardReport`;
`TokenLifecycle` and `LiveFeed` with the proofs of their refinements.

Next:

1. Metrics and fan-out as further components of `Ingestion`, so that one turn of `eventStream`
   feeds all four.
2. The decision of the access guards over header, token and route as a predicate.
