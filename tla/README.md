# Verification of the DAQ simulator pipeline

TLA+ models, model-checking runs and proofs for the DAQ simulator: for its
streaming pipeline and for the parts of its API whose requests share state. They
say what the components promise each other, and what becomes of that when tasks
and requests interleave, commands fail, messages come twice and processes restart.
Paths are relative to the repository root; `app/` stands for `src/src/app/`.

## 1. The system

A simulated acquisition is a *sweep*. It travels through four processes that
share nothing but Kafka topics, Redis and MongoDB:

```
DAQ producer --raw-electrical-data--> correlation service --correlation-data--> conversion service
      |  (two messages per sweep:            |                                        |
      |   type=raw, type=elec)               | laser metadata (MongoDB)               | conversion-data
      +------------------------------------> +------------- writer service <----------+
                                                    (MongoDB documents, S3 objects)
```

Beside it stands a FastAPI back end (users, posts, tiers, rate limits, tokens, S3
access, an admin interface) that has no part in the stream except that the writer
service uploads files through it.

### Inventory

| Component | State | Operations | What makes it correct | Status |
|---|---|---|---|---|
| DAQ producer (`app/core/worker/daq/`) | position in the source files, the two answers it waits for | make or grow the topic, read a pair of arrays, send a raw and an elec message with one new `sweeps_id`, wait for both | a sweep gets both messages unless a failure hits it; sweeps do not overlap | modelled, checked, proved |
| Correlation service (`correlation_service.py`) | one growing array in a global | append a raw sweep, read the laser metadata, publish the correlation | correlations extend one another; every sweep but the first gets one; nothing is lost by a restart | modelled, checked, proved |
| Conversion service (`conversion_service.py`) | two asyncio queues, Redis keys with a life of 300 s, the list `pending_correlations` | store electrical data, join it with a correlation, publish, delete; retry what is pending; expire it; start and clean up | the join pairs the right arrays, restarts included; data is released only after publication; nothing complete is left waiting; bounded duplication; clients are closed | modelled, checked, proved |
| Writer service (`writer_service.py`) and MongoDB access (`mongo_db.py`) | three queues, a temporary file per raw array, upload tasks; documents and objects | insert documents, write a file, upload it | one laser document, there before the data; trace and electrical documents in step; whole objects; one failure costs one message | modelled, checked, proved but for liveness |
| Kafka helper (`kafka_helper.py`) | topics and their partitions | create clients, create or grow a topic | a topic exists with enough partitions whoever comes first | modelled with the producer, checked, proved |
| Signal calculations (`maths.py`) | none | numerical functions | outliers are replaced from ordinary points, other points are left alone, what unwritten memory can spoil is bounded; the points of a pair match; a parabola has its points | cumulative shift, sensor grid, peak window checked; proved but for the conversion formulas |
| Endpoint cache (`cache.py`) and posts (`posts.py`) | Redis keys; the table of posts | get, fill, invalidate around a handler; six operations on posts | a wrong entry does not outlive the request that made it wrong, or goes at the end of its life; every key has a life | modelled, checked, proved |
| Rate limiter (`rate_limit.py`, `dependencies.py`) | Redis counters per window | count a request | at most `limit` requests pass in a window, none is refused before | modelled, checked, proved |
| Tiers and rate limits (`tiers.py`, `rate_limits.py`, `patch_user_tier`) | tables | CRUD | references resolve | modelled with the rate limiter |
| Tokens (`security.py`, `login.py`, `logout.py`) | blacklist table; tokens in the hands of clients | issue, refresh, verify, blacklist | a session that was closed stays closed, and only that one | modelled, checked, proved |
| Accounts (`users.py`, `create_first_superuser.py`) | table | register, change, erase, erase for good; make the first superuser | names and addresses are unique; a request changes the account it was made for | modelled, checked, proved |
| Set-up, tasks, S3 router, admin, middleware, schemas, migrations, `create_first_tier` | configuration | single library calls | - | not modelled (see `PROJECT.json`) |

The hard behaviours: two asyncio tasks that share a list across awaits
(conversion); five places where a check and its use are separate commands; Kafka's
at-least-once delivery without an order between 50 partitions; offsets that are
committed while messages wait in memory; keys that expire between two reads;
sends and inserts whose effect is unknown; uploads nobody waits for; requests that
read a table, await, and then fill a cache, delete from it, count themselves or change
the table; clean-up that fails half way. Each is
listed at its line, with the properties that watch it, in `PROJECT.json` under
"hazards".

## 2. Modules

| Module | Models |
|---|---|
| `ConversionService`, instances in `MCConversionService`, theorems in `ConversionServiceProofs` | the conversion service |
| `StreamJoin` | what the conversion service promises: its abstract specification |
| `ConversionRestart`, instance in `MCConversionRestart`, theorems in `ConversionRestartProofs` | the conversion service with the end of its process, the clean-up and the next start |
| `CorrelationService`, theorems in `AcquisitionProofs` | the loop of the correlation service |
| `Acquisition`, theorems in `AcquisitionProofs` | the producer and the topic it makes and fills, composed with `CorrelationService` |
| `CumulativeShift`, instance in `MCCumulativeShift`, theorems in `CumulativeProofs` | the array it computes for each message |
| `SensorGrid`, `PeakWindow`, checked in `MCCumulativeShift`, theorems in `CumulativeProofs` | the points of the two fibres and the conversion formulas; the window of the peak search |
| `WriterService`, instances in `MCWriterService`, theorems in `WriterProofs` | the writer service with MongoDB and the uploads |
| `PostCache`, instances in `MCPostCache`, theorems in `PostCacheProofs` | the endpoint cache with the posts behind it |
| `RateLimiter`, instance in `MCRateLimiter`, theorems in `RateLimiterProofs` | the rate limiter with tiers and limits |
| `Accounts`, instance in `MCAccounts`, theorems in `AccountsProofs` | accounts, tokens and sessions |

In each module the properties come last, and a mutant stands in front of the
definition it changes.

A definition marked "Mutant of ..." is a plausible wrong version of the definition
after it. No specification uses it: putting it in the place of the original makes
one of the properties fail, which shows that the property depends on that code.

### ConversionService

One event loop runs two tasks, so an action is everything a task does from one
await to the next, and every Redis command is an await.

| Code | Model |
|---|---|
| `_blocking_consumer_loop` (raw, correlation) | `SkipRaw`, `ConsumeRaw`, `ConsumeCorr`, `DropMessage` |
| body of `run_conversion_service` | `TakeRaw`, `StoreRaw`/`StoreFails`, `ScanPending`, `MainReturnsRaw`, `TakeCorr`, `MainReturnsCorr` |
| `periodic_retry_correlations` | `RetryPass`, `RetryReturns` |
| `process_correlation_pair`, run by either task | `CheckAvailability`, `FetchRaw`, `FetchGone`, `CombineFails`, `ConvertAndPublish`, `DeleteRaw` and their failures |
| `pending_correlations.pop(i)` for `i` in reversed order | `CanPop`, `Without` |
| Redis `SET ... EX 300` | `redis[s]`, a value and a `ttl` that `Tick` counts down |

`frame[t]` holds the locals of a task's call of `process_correlation_pair`, `at`
and `done` the position of its `enumerate` and its `processed_indices`. These are
positions in a list that the other task may change: the model keeps them as the
code does, stale or not. An `IndexError` of `pop` sends the main loop to its
`except Exception` and ends the retry task (`Raise`).

Abstractions. An array is its message. A failed command that the server carried out
behaves like the successful step for the task, so only failures without effect are
separate actions, except for the publication (`PublishUnacknowledged`). The thread never
waits for the put it schedules; while it waits for room, its message is counted as still
in the topic, which is what the other tasks can tell, and it dies with the process
(`Forget`, below). An exception of a consumer itself ends its thread for good (lines
91-92): here that is a thread that takes no further step, which nothing forbids, since no
fairness is assumed of the threads. A tick of time is about a minute: a key lives
`REDIS_TTL` ticks and a correlation is dropped `EXPIRY_MARGIN` ticks earlier. The header
`first_sweeps_id` is read by the consumer loop and sent by nobody in the repository; the
instances `OnePair` show what the code does with it, `SingleIds` is what the correlation
service sends. With several ids per correlation the scan, which advances by position over
a list that shrinks, may pass over a complete correlation; that is why `NoMissedMatch` is
checked with `SingleIds` only, and proved under that hypothesis.

### StreamJoin and the refinement

`StreamJoin` has no tasks, queues, lists or commands. Data of a sweep arrives and has a
life; `Pair` makes the one result a correlation has, from data that has arrived;
`Free` ends the life of data that was used; an arrival may be used twice, once more for
each mishap. `ConversionService` maps to it with `life` as the `ttl` of the Redis key,
`arrived` and `used` as the two histories `stored` and `published`, and `mishaps` as
`faults` (`ImplementsStreamJoin`); `StoreRaw` is `Arrive`, a publication is `Pair`,
`DeleteRaw` is `Free`, `Tick` is `Elapse`, and whatever happens in the queues, in the
list and between the commands is a stutter. The same promise is checked again with
restarts, each of which counts as two mishaps, one for each task that may have
published and not yet deleted (`ImplementsStreamJoinAcrossStops`).

### ConversionRestart

`Crash` and `Interrupt` end the process between any two steps of `ConversionService`;
`CloseProducer`, `CloseConsumers` and `CloseRedis` are the tries of the `finally` of
`run_conversion_service`, each of which closes its clients or raises; `Start` begins
again. `Forget` is what is gone with the process: the queues, the pending list, the
locals, and the puts that were scheduled and still waited (line 107; any of the messages
counted in a topic may be one, `MayWait`). Redis and the topics stay. The consumers commit
on their own (`get_consumer` leaves `enable_auto_commit` on), whatever became of the
messages, so any part of what was consumed may come again after a crash, and nothing
after its consumer was closed (`Again`). `OnlyStopsForget` follows each delivery of
electrical data through topic, put, queue and main loop: nothing but a failure or the end
of the process makes the service forget it. What a stop forgets of the committed messages
is lost in this code; no property says otherwise.
`await retry_task` raises what had killed that task, and the clean-up is then over.

### Acquisition

The module extends `CorrelationService` and adds the other end of its topic.

| Code | Model |
|---|---|
| `update_topic_partition` | `ListTopics`, `DescribeTopics`, `CreatePartitions`, `CreateTopics`, `AdminFails` |
| `stream_raw_data`, one pair of lines | `NextPair` |
| `produce_raw`: two `send`, two `future.get` | `SendRaw`, `SendElec`, `RawAnswer`, `ElecAnswer`, `SendRaises`, `NoAnswer` |
| end of the files, end of the process | `ProducerStops` |
| the sending thread of the Kafka client | `Deliver` |
| the broker making a topic that a consumer asks for | `AutoCreate` |

`future.get` that times out leaves the message on its way, or it is lost. The laser
metadata need an electrical message on the topic (`Downstream`). `CorrelationService`
starts with every message on its topic; `ImplementsCorrelationService` shows that this
is no loss: with a real producer it behaves as if what is still to come were there
already, so every property checked or proved of it holds of the composition.

### CorrelationService

The loop is sequential; `accumulated_data` is the sequence of the sweeps in the
array. The actions are the ways a message is handled: `SkipElec`, `DropMessage`,
`FirstChunk`, `Accumulate`, then `GetAcquisitionCharacteristics` or
`NoCharacteristics`, then `Send`, with `CallFails` and `SendUnacknowledged`.
Around it: `InsertLaserMetadata` by the writer service, `CommitOffsets`,
`Redeliver`, `Crash`. The consumer commits on its own when it polls for more
messages; this loop polls only between two messages, so a message in hand is never
committed. `Crash` puts uncommitted messages back on the topic and empties the
array.

### WriterService

Three queues without a maximum, a task for each (`Get` and what follows), the
inserts of `mongo_db.py` with each of their outcomes: stored, swallowed
(`InsertSwallowed`), stored but unanswered (`InsertUnacknowledged`), raised
(`InsertRaises`). `OpenFile` and `WriteFile` are the executor thread; `UploadRead`
and `UploadPost` the upload task, which may read a file that is being rewritten.
Here offsets are committed by a thread that does not know what became of the
messages, so `CommitOffsets` is possible at any time. An exception of the consumer
itself ends its thread (`ConsumerEnds`; lines 68-75): the consumer is closed, with or
without a last commit, and until the next `Crash` nobody reads that topic (`ended`).
The files survive a `Crash`.

### CumulativeShift

For each message the correlation service computes all rows again from the sweeps it holds:
`NewSweep` adds a pair and takes a new array from `np.empty`, `Advance` is one iteration
of `moving_cumulative_calculation`. `Substituted` is `simple_time_analysis` with
`substitute_outliers`, `Corrected` calls it for both fibres as `error_detect_and_replace`
does. `Before` is the row at `time - 1`, which for the first row is index -1: the last row
of the array, unwritten unless the array has one row (`memory`). A shift is any element of
a small set in place of the peak of a cross-correlation, which depends on the pair of
sweeps alone. Units are chosen so that a mean of up to `NEIGHBOURS` steps is exact. The
array is of `np.float32`, and unwritten memory may hold any of them. So integers are exact
up to `EXACT` only; beyond it a stored number is the nearest multiple of a grain that
grows with it, and beyond all grains an infinity (`Rounded`, `Plus`). A number close to
`EXACT` or larger absorbs the shifts that are added to it (`Absorbs`). NaN is kept too: a
comparison with it is false. Differences are taken in an array of doubles and are
not rounded (`Minus`). That ordinary sums are rounded in their last digits is left out:
shifts are integers. The fibres are disjoint, as `mongo_db.py`, lines 87-90, writes them:
the temperature fibre first, each inside the array. `argsort` breaks the ties between
neighbours at the same distance in an order numpy does not promise, but the same one for
the same ordinary points. A row that unwritten memory has spoilt with NaN has other
ordinary points than the same row of the message before, and its ties may be broken
otherwise; a number that absorbs shifts has steps of 0, which may make it an ordinary
point and which a mean then takes in. This is why `StepsRepeated`, which compares the
steps of the two messages, leaves out the points with such numbers and the outlying points
of a fibre whose NaN points differ (`Hidden`) or which holds such a number (`Absorbing`).

### SensorGrid and PeakWindow

Two pure modules. `SensorGrid` has `points_fibers` and
`temperature_humidity_calculation`, in integers with exact divisions: `PairsMatch` says
that the points of a pair lie at the same distance from the fold (or, unfolded, keep
their distance), `WindowsInside` that no averaging window leaves its fibre, and
`CalculationInverts` that the formulas give back the temperature and humidity that the
fibres were exposed to. `PeakWindow` has the slices of `smooth_polynomial_peak_finding`
with their negative beginnings. The places in the axis that `frequency_axis_laser`
makes are those of `np.correlate` for arrays of 501 samples, which is what the stored
laser sweep gives (`AxisChecked`). The assumptions of `MCCumulativeShift` evaluate
these predicates for all small fibres, windows, margins and slopes.

### PostCache

| Code | Model |
|---|---|
| `cache`, GET: read, `func`, `set`, `expire` | `Miss`, `Read`, `Fill`, `Expire` |
| `cache`, other methods: `func`, `delete`, extra keys, pattern | `BeginWrite`, `Commit`, `DeleteKey`, `DeleteExtra`, `ScanBatch`, `DeleteFound` |
| `write_post`, which has no cache | `WritePost` |
| a command that fails between any two | `Fail` |
| Redis expiring keys | `Tick` |

A key is a tuple instead of a formatted string, with the same parts in the same
places, so that two formats meet exactly when their strings do. An entry is a function
from posts to versions, 0 for a post it does not show; a page shows all posts of its
author. A hit changes nothing and is not an action. SCAN starts at cursor -1, which
Redis does not define, so any set of list keys may be visited. Users exist throughout,
and a refused request changes nothing. FastCRUD is taken to return what the casts in
the code say. `excused` is a history variable: the posts whose entry is wrong for one
of the reasons named in `StaleExplained`.

### RateLimiter

A request runs `Arrive`, `ReadTier`, `ReadLimit`, `Incr` and, if it found 1, `Expire`;
it computes its window at the end of the last read, without an await in between.
`IncrUnacknowledged` and `Fail` are the failures with and without an effect. The table
actions are whole handlers, because what each looks up first is checked again by its
statement (primary keys, references, unique names) or cannot change. A failure while
the user is found makes a visitor, as `get_optional_user` returns None. One path is
rate-limited and every other one is "other". Limits and periods are any integers, since
the schemas accept them (`schemas/rate_limit.py`, lines 14-16 and 45-47). With a period
of 0 the computation of the window raises (`Count`). With a negative one Python's `%` has
the sign of the divisor (`Modulo`): the window starts at the present time or after it,
and `EXPIRE` deletes the key it has just counted (`Live`). `tally` counts what became of
the requests of a window while it lasted, `applied` the pairs of limit and period they
were judged by. A request whose `EXPIRE` fails gets an error although it was counted
(`ExpireFails`), so it is tallied as lost; `noted` says whether it is in the tally.

### Accounts

An action is one statement of a request with what follows it up to the next await.

| Code | Model |
|---|---|
| `write_user` | `Register`, `CheckEmail`, `CheckUsername`, `CreateUser` |
| `get_current_user`, `get_current_superuser` | `Authenticate`, `CurrentUser` |
| `patch_user` | `FindUser`, `CheckUsername`, `CheckEmail`, `UpdateUser` |
| `erase_user`, `erase_db_user` | `FindUser`, `EraseUser`, `EraseDbUser`, `BlacklistToken` |
| `login_for_access_token`, `refresh_access_token` | `Login`, `RefreshAccess` |
| `logout`, `blacklist_tokens` | `LogoutAccess`, `LogoutRefresh` |
| `create_first_user` | `ScriptSelect`, `ScriptInsert` |

A token says a username; two tokens for a user within a second are one (`recent`,
`Tick`), since a token holds whole seconds and nothing else that differs. The unique
columns of the tables refuse what the look-ups let through. `account` is the row a
client has logged into, `foreign` the accounts whose client changed another row; a
superuser who erases another's account (`erase_db_user`) is meant to, and is not in it.
FastCRUD is taken to return what the casts in the code say. A client knows its own
password and keeps its tokens; requests that are refused before a statement are not
steps.

## 3. Runs

Deadlock is checked for the conversion service, which always can let time pass. The
other systems stop: topics are empty, requests answered, keys expired, bounds reached.

| Run | Instance | Question |
|---|---|---|
| `conversion_join` | 2 sweeps, 2 correlations, 1 redelivery | Is the join right under every interleaving and expiry, is nothing complete left waiting, is data published at most twice and released only after publication, and is that all `StreamJoin`? |
| `conversion_restart` | a correlation of 2 sweeps, 1 mishap: crash, interrupt or failure | Does the promise survive the end of the process at any step, or the failure of any one command, send or deserialisation? Does anything but a failure or the end of the process forget electrical data? Is every client closed? |
| `conversion_live` | a correlation of 2 sweeps, 1 redelivery, 1 failure, fair | Is every pending correlation converted or expired while the retry task lives, and does the main loop always come back to empty queues? |
| `conversion_removal` | violation | Does a correlation leave the list only when processed? |
| `acquisition_chain` | 2 sweeps, 2 mishaps of 1 redelivery, 1 restart, 1 failure on each side, fair | Do correlations nest, which sweeps get none, is every sweep handled; which sweep gets half its messages, do sweeps overlap, has the topic its partitions; is `CorrelationService` implemented? |
| `cumulative_rows` | 6 points, 3 pairs of sweeps, 3 contents of memory (ordinary numbers, NaN, and an infinity with large numbers), two grains | What can the comparison with unwritten memory spoil, and what not? And, over bounded inputs: grid, formulas, peak window. |
| `writer_deliveries` | both messages of one sweep and a conversion of another, 2 mishaps of 1 redelivery, 1 restart, 1 failure or end of a consumer thread, fair | Is the laser document unique and first, are trace and electrical documents in step, is there one document for a delivery, are objects whole, and is every message stored that is not hit itself and whose topic is read? |
| `cache_entries` | 2 requests at a time, 2 users, 1 post, 2 patches, 1 failure | Which entries can be wrong, and does every key get a life? |
| `cache_live` | 2 requests at a time, 2 pages, fair, no failure | Does what is wrong in the cache go away? |
| `cache_erase` | violation, 1 request at a time | Does erasing a post reach the cached lists? |
| `rate_windows` | 2 requests at a time, a user and a visitor, periods of -2, 0 and 2 ticks, 4 table changes, 1 failure | What does a window let through and refuse, and does any counter stay for ever? |
| `account_sessions` | 2 clients, 2 names, 2 addresses, 2 rows, 2 tokens of each type, 6 requests, 1 failure | Are accounts unique, does a request change the account it was made for, is a logout final, and does it end only its own session? |

Why the bounds are enough. Two correlations are the smallest list in which popping one
entry shifts another, and both tasks can then hold different positions; two sweeps are the
smallest pair that can be confused. Keys that live two ticks can expire before, during and
after a check, and a correlation can expire before its key does. A queue of one place is
full as soon as it is used. A restart needs one correlation: what it can mix up is data of
before with a join of after; two sweeps make an availability that is partial. In
`conversion_live` the correlation may come twice, so the list has two entries to shift,
and one failure may strike any command; keys live one tick there, which keeps every order
of expiry, check and fetch. In `acquisition_chain` two sweeps of which one comes twice
make a chain of two correlations, and a restart, or a failure on either side, can cut it
anywhere; one mishap can be excused by another, three add nothing new; `OnlyFirstsSkipped`
counts sweeps, so here it says something of runs with at most one excuse, and `FewSkipped`
of the others. In the writer, a redelivered raw array gives a second upload of the file of
the first. Two requests at a time are what an interleaving of cache or counter needs,
since they meet on one key; the second user makes the path of a request differ from the
author of the post. Three ticks cover a window of two ticks, its end and the one after it;
limits of 0, 1 and 2 with three requests lie below, at and above the count, and four
changes write a tier, give it to the user, write a limit and change or delete it. Three
pairs of sweeps give two messages with a common second row. Four points of a fibre leave a
choice of the nearest two; the code takes four, and a fibre of one point has none. Six
requests are two registrations or logins with what follows them; two rows can share a name
or an address, and one can take the name of the other after a rename; two tokens can be
the same or not. Redeliveries, failures and restarts do not undo each other, and each run
allows one of each of the kinds it is about; the theorems below hold for any number.

Fairness. `FairSpec` of the conversion service gives weak fairness to each task and to
time: asyncio runs every ready task, `run_in_executor` and Redis answer or fail. The
consumer threads need none, since the properties start from what is queued or pending. The
correlation service is one loop and needs weak fairness of that loop only, also beside the
producer, of which nothing is assumed. In the writer each consumer thread that has not
ended (`ConsumerEnds` ends it for good, and a restart begins a new one), each task and
each upload are scheduled on their own; `EventuallyStored` excuses what is left on the
topic of an ended thread. In the cache each request goes on and Redis expires keys; nobody
has to send a request. Nothing assumes that a redelivery or a failure happens, or that it
stops happening before its bound.

### What the violations show

* `conversion_removal`: `processed_indices` is filled before and popped after the
  awaits of `process_correlation_pair`. When the other task pops meanwhile, the index
  designates another correlation, which is dropped without having been published. If
  the index is out of range instead, `IndexError` costs the main loop the rest of its
  iteration and ends the retry task, where nothing catches it (`Raise`); this is why
  `PendingResolved` speaks of the time while that task lives.
* `cache_erase`: the erasures delete `{username}_posts:{username}`; the lists are stored
  under keys that hold the page too, so none is deleted and an erased post is listed
  until the key expires.

Some more things the models show, for which no sentence of the repository says otherwise.
A fill that read the tables before a change puts the old post back after its key was
deleted (`StaleExplained`; it goes when its life ends, `StaleGoes`). When the period of a
limit is changed, two windows of different length may share a counter: the window lets
through more than the limit, which is why `WithinLimit` speaks of windows with one period.
A negative period limits nothing: a request that comes after the `EXPIRE` of the one
before finds the counter deleted, counts 1 and passes, so `WithinLimit` speaks of positive periods. Around a
boundary of windows twice the limit may pass within one period; the properties judge each
window by itself. A consumer thread of the writer that ends leaves its topic unread until
the process is started again (`EventuallyStored`). The first row of a correlation depends
on unwritten memory from the second message on (`maths.py`, line 411);
`SpoiltOnlyByMemory` and `StepsRepeated` say how far that goes: NaN once there stays, a
very large number absorbs the shifts of all later rows, and either may change which
neighbours later outliers of the same fibre are replaced from, and by how much. The
process pool of the conversion service is shut down with an argument that `shutdown` does
not take, which always raises and is swallowed (`CloseProducer`). After a rename, a
request that was let in under the old name changes whoever has it by then
(`ActsForItsAccount`). Two logins of a user within one second share their tokens, and the
logout of one is the end of the other (`SessionsApart`). A peak at the last entry of the
axis gets a parabola through two points (`EnoughPoints`). The comment at
`correlation_service.py`, line 97, speaks of arrays of 502 samples at 5000 points; the
stored laser sweep gives an axis whose zero is that of a correlation of 501 samples
(`AxisChecked`). With 502 the zero of the correlation is one entry further on.

## 4. Proofs

All theorems hold for every value of the constants under the named ASSUMEs of the modules:
bounds are natural numbers, a correlation names at least one sweep, lives, partitions and
the default period are not 0, the fibres lie in the array one after the other, shifts and
the threshold are no larger than the largest exact float, NaN and the infinity are no
numbers, the two types of tokens differ, `None` is nothing else. Limits and periods are
any integers. So they hold for any number of sweeps, requests, clients, points,
redeliveries, failures and restarts. A theorem with a hypothesis of its own says so below.

### Conversion (`ConversionServiceProofs`, `ConversionRestartProofs`)

* `TypeCorrect`: `TypeOK` with `FrameOK` (a task inside `process_correlation_pair` has a
  correlation and stands at one of its ids). The second part is needed to type
  `SweepsIds[...][k]`, hence what is published.
* `PublishedJoinIsCorrect`: by `JoinInv`. Only electrical messages enter the queue, each
  key of Redis holds the array of its own sweep, and what a task has fetched is exactly
  the arrays of the ids it has passed; a vanished key ends the call, so the position and
  the arrays cannot come apart.
* `ReleasedAfterPublish`: by `DeletesPublished`. A task that deletes has published every
  sweep of its correlation, because the delete loop is reached from the publication alone.
* `PublishedAtMostTwice`: by `TwiceInv`, which counts by sweep. While a key is there, a
  task that has published still *owes* the delete of that key, so publications are at
  most two for each earlier store plus what is owed. Once the key is gone only a task
  that already *holds* the array can still publish. The bound by itself is not inductive:
  nothing in it says who may publish next.
* `ConversionImplements`: the service implements `StreamJoin`. Seen from the data, a step
  is one of five things (`DataStep`: nothing, an arrival, time, a pair, a release); one
  lemma sorts the actions into them, and each of the five is a step or a stutter of
  `StreamJoin`. That a pair uses only what has arrived is `JoinInv` with `HoldsStored`
  (what Redis or a task holds was stored); that none is used too often is `TwiceInv`.
* `NoneMissed`: `NoMissedMatch` when every correlation names one sweep (`SingleIdsOnly`,
  which is what the correlation service sends). By `MatchInv`: without a failure, a
  correlation of the list whose data is there has the main loop on its way to it
  (`Searching`), and a scan stands at an entry that names the sweep just stored. The other
  task can take the entry away from under the scan, but not leave it there with its data.
* `RestartCorrect`: the invariants of the service hold across any number of crashes,
  interrupts and starts, with each stop excusing two publications of each sweep
  (`StopBound`): those of the two tasks that had published and not yet deleted.
  `RestartTypeCorrect`, `CleanUpTriesAll` (by `CleanUpInv`: where the clean-up stands says
  what it has tried), `ElecForgottenOnlyAtStops` (a step without a
  failure that takes electrical data off the topic puts it into the queue, one that takes
  it out of the queue gives it to the main loop, and the main loop lets go of it only when
  it is stored) and `RestartImplements`, the refinement with stops, which uses the five
  kinds of step again and adds the stop, follow from it.

### Producer and correlation service (`AcquisitionProofs`)

* `TypeCorrect`, `PublishedNest`: `CorrelationsNest` is strengthened with "what the
  present life has published is a beginning of the array in memory", which each append
  preserves and a restart makes vacuous by starting a new life. `RawSweepsKept`: the sweep
  in hand is uncommitted, so a restart puts it back. `FewSkipped`: a life that holds no
  array has used no exemption.
* `DeliveredOnce` and `AcquisitionImplements`: the correlation service behind the producer
  implements the correlation service on a topic that is full from the start. By
  `DeliveryInv`: what is read or uncommitted was delivered, what is on its way was not,
  and no message of a sweep exists before its turn, so none is sent twice. Hence a
  delivery only moves a message within the topic of the specification, and every other
  step of the service is the same step there.
* `FedCorrect`, `AcquisitionTypeCorrect`, `FedPublishedNest`, `FedFewSkipped`: what holds
  of the service alone, for the composition (`FedInv`).
* `SweepsTakeTurns`, `ProducerInTurn`, `HalfSentIsExplained`: by `TurnInv`. A sweep that
  is over has both messages delivered or a failure that hit it, and the producer waits
  for the second answer only when the first message is delivered; so neither sweeps that
  overlap nor a sweep with half its messages come about without a failure.
* `PartitionsAreExplained`: by `PartitionInv`. The topic is seen to before the first
  sweep, and has too few partitions only if a failure or the broker came in between.

### Writer service (`WriterProofs`)

* `WriterTypeCorrect`: with `TasksInv`, each queue holds the messages of its topic and a
  task is where a message of its kind can be.
* `LaserStoredOnce`: by `LaserInv`. Only the raw task counts and inserts, so that it is
  about to insert only while there is none; without a fault it goes on to the documents
  of an array only when there is one.
* `TracesWithElec`: by `ExcessBound`. The traces and the electrical documents of a sweep
  differ by the trace just stored, and by one for each fault or restart. The actions are
  sorted into five kinds, as far as these documents go.
* `OneDocumentPerDelivery`: by a count. The documents of a message and what may still be
  made of its copies, on the topic, in the queue or in hand, never exceed its deliveries
  (the first one, redeliveries, restarts); a document is one copy less. The count needs
  how often a message stands in a queue when one is taken or added, which the lemmas about
  `Count` say.
* `WholeUploads`: by `UploadInv`. Without redeliveries, of a raw array there is one copy or
  one file being written or one upload, so no upload reads a file that is being rewritten.

### Accounts and tokens (`AccountsProofs`)

* `AccountsTypeCorrect`: with what a request of each kind carries (`Carries`).
* `AccountsUnique`: every statement that writes a row is refused by the unique columns or
  leaves them unique, whatever the earlier look-ups have read.
* `TokensCorrect`, `LogoutIsFinal`, `SessionsStayApart`: by `TokenInv`. Who holds a token
  holds an issued one; two clients hold the same only if it was issued twice within a
  second; nothing is blacklisted that was not issued, and what a logout closed is in the
  blacklist. That a new token is in no blacklist is what separates the sessions.
* `ActsForItsOwn`: by `OwnInv`. The name in a token, and the name a request goes by, is
  that of the row its client logged into, until that row is renamed or deleted
  (`moved`). A step keeps the name of every other row (`RowsKeep`).

### Signal calculations (`CumulativeProofs`)

* `CumulativeTypeCorrect`, `RowsCorrect`: each row is its shift added to the row before,
  corrected (`RowsInv`); `OutsideIsExact`, `RepairsAreSmooth`, `SpoiltByMemoryOnly` and
  `StepsAreRepeated` follow from it by what `Corrected` does to one point. A replaced
  point moves by the mean of some steps below the threshold, so by less than it, unless it
  holds a number too large to add the mean to exactly; the mean is a sum over a set of any
  size. No induction theorem with an operator as its parameter
  can be used here, so the lemmas about sums show that the sizes for which they hold are
  all numbers, as those for which one fails would have a least element (`NatSets`).
* `PeakIsSurrounded`: the three statements of `PeakWindow` for every axis of two entries
  or more, every place of the peak and every window smaller than the axis.
* `PointsMatch`, for fibres of the same length, and `WindowsStayInside`, for any: the
  points of `points_fibers`, if each fibre has room for one window. The number of points
  of a range is a quotient, and the two ranges have the same.

### Endpoint cache and rate limiter (`PostCacheProofs`, `RateLimiterProofs`)

* `PostCacheProofs!TypeCorrect`, `StaleAlwaysExplained`, `KeysExpire`: the two properties
  are inductive relative to `TypeOK`. For the first, a change of a post makes wrong only
  the entry under the path of its author, which the request still deletes or `excused`
  names, and a fill names its own entry when what it stores is no longer current. For the
  second, the request that has filled a key is the one that arms it.
* `RateLimiterProofs!TypeCorrect`, `NoMoreThanTheLimit`, `NoLessThanTheLimit`,
  `NoCounterForEver`: by `WindowInv`. Until a window ends its counter is there and equals
  the requests passed, refused and lost in it; if the counter has a life, it ends no
  earlier than the window, because EXPIRE is sent after the window began. That is so for
  one positive period; with a negative one the counter is deleted early and counts at most
  the requests of its window, which is enough for what a refusal says (`Standing`). Neither
  property is inductive alone: both compare a history with the limit, and only the
  counter, still there, links the next decision to the history.

### Only model-checked

* Liveness, which needs fairness and ENABLED, both beyond the provers: `PendingResolved`,
  `MainDrains`, `EverySweepHandled`, `EventuallyStored`, `StaleGoes`.
* The two runs that expect a violation: their counterexamples are what they show.
* `NoMissedMatch` is proved for correlations of one sweep; for others it is not true (see
  `ConversionService` above).
* Of the pure operators: `CalculationInverts` (that the conversion formulas give back what
  the fibres were exposed to, whose windows are sums), and `WithoutIsPop` in
  `MCConversionService` (that `Without` is what the pops leave, against `RemoveAt` for
  lists of up to four entries).

## 5. Not modelled

Of the numbers: what `np.correlate`, `np.polyfit` and floating point compute. Kafka's
groups and brokers beyond delivery, redelivery, offset commits and the making of
topics; the consumer protocol of `kafka-python`; more than one process of a service.
That `future.get` holds up the event loop for as long as it waits (`conversion_service.py`,
line 252): the loop is one actor, and a delay of all its tasks changes no order. Of the
API, what is configuration of a library, and what only reads: `lifespan_factory`
opens and closes its pools in one task with nothing beside it, and the sample task,
the S3 router, the admin interface and the middleware have no state of their own.
Passwords and the cryptography of tokens.

The README of the repository says the writer uploads gzip-compressed files; the code
writes an uncompressed pickle under a name that ends in `.json`
(`writer_service.py`, lines 107-124). No model here looks inside a file, so this is
noted and not checked.

## 6. Plan

Every safety invariant, action property and refinement that a passing run checks has its
theorem. What is left is about pure operators:

1. `CalculationInverts` for all fibres: the sum of a line over a window is its length
   times the value in the middle, by the induction of `CumulativeProofs`; then
   `PointsMatch` gives both points of a pair the same distance from the fold.
2. `WithoutIsPop`: popping positions from the last to the first, for lists of any length.
