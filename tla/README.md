# Enoti in TLA+

Enoti filters notifications. A client posts a JSON document to `/notify` (or
sends it through an SQS FIFO queue); Enoti authenticates the client, applies
rate limits, extracts the value of a trigger field, compares it with the value
it stored for the same client and field, and publishes to an SNS topic only when
the value has changed: at once (an edge), or as an aggregate of recent changes
while the value is flapping. State lives in DynamoDB or in Redis; any number of
handlers work on it concurrently.

These modules model that pipeline from `src/`, TLC checks them on small
instances, and TLAPS proves the central properties for instances of any size.

## The system and what models it

| part | source | module | state of the model |
|---|---|---|---|
| edge and flapping decision | `flow/edge_flap.go`, `types/state.go` | `EdgeFlap` (pure), `EdgeDetector` (atomic specification) | complete |
| concurrent evaluation of one scope | `flow/edge_flap.go`, `flow/flow.go` | `EdgeEval` | complete |
| DynamoDB data store | `backends/ddb/datastore.go` | `EdgeEvalDDB`, `RateLimiterDDB` | all but `Suppress`, which nothing calls |
| Redis data store | `backends/redis/datastore.go` | `EdgeEvalRedis`, `EdgeEvalSerial`, `RateLimiterRedis` | complete |
| rate limiting | both stores, `flow.Run` | `RateLimiter`, `Notify` | complete |
| `flow.Run`, HTTP handler | `flow/flow.go`, `api/httphandler.go` | `Notify` | one client, address and scope |
| SNS publisher | `pub/sns.go` | `Notify` (`Publish`, `PublishFail`) | complete |
| client configuration | `types/config.go` | `Validate` in `ClientStores`, `ValidFlap`, `ClientConfig` | complete |
| trigger expression, passthrough | `flow/jmes.go`, `flow/passthrough.go` | inputs of `Notify` | results only |
| configuration cache, `Auth` | `flow/ttl.go`, `flow/flow.go` | `ConfigCache` | complete |
| configuration stores | `backends/ddb/configstore.go`, `backends/redis/clientstore.go` | `ClientStores` | all that changes state |
| server start and shutdown | `api/app.go` | `ServerLifecycle` | complete |
| SQS Lambda | `cmd/lambda-sqs/main.go` | `SqsLambda` | complete |
| environment wiring, table | `backends/helpers.go`, `ddb/table.go` | `ClientStores` | choice of backends, creation of the table |
| SNS Lambda | `api/app.go` | – | a stub in the code |

How the modules depend on each other:

    EdgeFlap ── EdgeDetector ── MCEdgeDetector
       │             ├── SqsLambda ── MCSqsLambda
       │             ▲ implemented by
       └── EdgeEval ─┴── EdgeEvalAtomic (used by EdgeEvalSerial and MCNotify)
               ├── EdgeEvalDDB ── MCEdgeEval
               │        └── Notify ── MCNotify
               └── EdgeEvalRedis ── EdgeEvalSerial ── MCEdgeEvalRedis
    RateLimiter ── RateLimiterDDB ── MCRateLimiterDDB
             └──── RateLimiterRedis ── MCRateLimiterRedis
    ClientStores ── ConfigCache ── ServerLifecycle ── MCServerLifecycle
    EdgeFlapProofs ── EdgeDetectorProofs ── SqsLambdaProofs
             └─────── EdgeEvalProofs ── NotifyProofs
                              └──────── EdgeEvalRedisProofs
    RateLimiterProofs, ServerLifecycleProofs

`PROJECT.json` maps every definition to the lines it translates, and lists the
hazards, runs, mutants, findings and theorems.

### EdgeFlap: one decision

`Evaluate(e, o)` is `EvaluateEdgeAndFlap` between `Load` and `UpsertCAS`: from
the loaded edge (or `Nil`) and the observation it computes a *plan*: the edge to
write, the answer if the write commits, the aggregate, and the answers if the
compare-and-set loses a race or fails. The early returns differ in those last
two, which is why the plan carries them. `RecordFlip`, `CountFlip`,
`AggregateDue`, `BuildAggregate`, `StartCooldown` and `DrainRecent` are the
steps of the code, in its order. A payload is opaque; `EncodePayload` tags it and
`DecodePayload` removes the tag, so that a flip and an aggregate item do not
look alike.

The constants of the code are parameters: `HardLimitRecentItems` (128) and
`MinWindowSizeSeconds` (10), with configurations scaled accordingly.
`EdgeFlapAssumption` states what `Validate` guarantees about a configuration and
in addition that the cooldown is not negative, which `Validate` does not check.
The `<=` of the tolerance is the code's; the comment on `SuppressBelow` writes a
half-open interval.

### EdgeDetector: what evaluation promises

`edge` is the row and `log` the history of evaluations that changed it. `Observe`
is one whole evaluation in one step. The clock of an evaluation is any number up
to `MaxTime`, in any order, because the code reads it before it loads the row.

### EdgeEval, EdgeEvalDDB, EdgeEvalRedis: requests that race

Each request reads the clock (`BeginWith`), loads the row (`Load`, `LoadFail`),
performs `UpsertCAS`, and hands its answer to the caller (`Return`), which
notifies on a forward or an aggregate (`announced`). `Crash` ends a request
anywhere. `history` records the writes. `EdgeEvalAtomic` states the promise: with
the row's edge as `edge` and `history` as `log`, the requests are an
`EdgeDetector` (`Implements`).

On DynamoDB the write is one conditional operation: `Commit`, `LoseRace`,
`CasFail`. `LostReply` applies the write without its reply reaching the request,
which then sees an error, or the SDK's retry. On Redis `UpsertCAS` is `HMGET`
then `HMSET`, or just `HMSET` for a new row: `CheckVersion`, `HMSet`,
`CommandFail`, `CommandLost`. `EdgeEvalSerial` adds one variable, `serial`, that
observes whether two requests have ever overlapped, to say what the Redis store
promises while none have.

### RateLimiter, RateLimiterDDB, RateLimiterRedis: Acquire

One scope, one counter per minute, callers that each bring their own rate (an
`IP:` scope is shared by clients). `granted` counts the successes of the present
item of a bucket. `Expire` is the store's time to live, after which a bucket is
empty again and what its item granted is added to `past`: a call that fixed its
bucket before the expiry and comes to the store after it begins a new count for
that minute. `GrantWithinRate` and `OvershootBound` speak of one item,
`LateGrants` and `LateOvershoot` of all items of a bucket. DynamoDB: one
conditional update. Redis: `HGet`, then `HIncrNew` and `SetExpire`, or `HIncr`;
`CommandFail` and `CommandLost` may strike at each.

### Notify: from request to reply

`handleNotify` around `flow.Run`: arrival or rejection, IP limit, client limit,
passthrough, trigger value, edge evaluation (the steps of `EdgeEvalDDB`, not an
abstraction of them), target limit, publishing, reply, with a crash possible
everywhere. `Acquire` is one step here, which is what `RateLimiterDDB`
establishes for DynamoDB. A minute is `MinuteSeconds` clock units. `minute` of
a job is the minute in which it came to the target limit. `TargetBudget` says of
what was published that it can be numbered up to an `sns_rpm` (there is an
injection), which for a finite set is the same as a bound on its size.

### SqsLambda: a FIFO queue in front of the same flow

The messages of one group are numbered in the order of sending. `Poll` delivers
a run of them from the head of the queue, and `Begin` takes up the next record of
the batch: it fails early (`extractMessageAttributes`, `Refused`), is passed
through or has no value (`Done`), or is evaluated: `LoadRow`, `Commit` or
`NotCommitted`, `LimitTarget`, `Publish`. `Done` and `Fail` are the two results
of `processMessage`; the loop goes on after either. `Respond` returns
`batchItemFailures`, and SQS deletes the other records. `Cut` is the timeout of
the function: the whole batch comes back. `DeadLetter` gives up a message that
was received `MaxReceive` times. `HttpRequest` is a notification for the same
scope that arrives through the HTTP handler; it is one `Observe` step, which is
what `EdgeEvalDDB` establishes. The queue is external and is modelled from how
the handler uses it: at-least-once delivery, in order within a group, one
invocation per group at a time, partial batch responses.

A payload is a pair of the message and the delivery, so that the history tells
which delivery wrote a version. Fields of a message other than its value are left
out: a missing attribute, an unknown client or a body that does not parse is a
failure that can happen to any record.

### ClientStores: the profiles of the clients

`profile` is what each client's key or item holds, `table` the status of the
DynamoDB table, and `clear` a `ClearAll` under way. `ddbPutClientConfig` and
the other operations fail when the table is not there. `ClearAll` on DynamoDB is
`DeleteTable`, `WaitAndRecreate` and DynamoDB's own `TableStatus`; on Redis
`KeysOfProfiles`, which ends `ClearAll` when it finds none, `KeysAndDel` for each
client with its errors ignored, and `DelProfiles`. `rows` is the data that may be
left of each client, edges and rate counters; this matters to `ClearAll` only, so
it is kept while one runs and starts as everything. The table takes both kinds
with it; `KeysAndDel` deletes the edges (`_enoti_data_<id>_s*`) and not the
counters (`_enoti_rwin_*`). A `KEYS` and the `DEL` after it are one step: what is
written between them is written after `ClearAll` began, and the property excuses
it. `ClearAllPurges` is what is left of the promise of `ports/clientstore.go:22`;
what the code does not keep of it is listed below.

### ConfigCache: 300 seconds of an older truth

`LookUp`, `Read` and `Fill` are the three steps of `LoadCachedClientConfig`;
another request, or an operator, may act between them. `Auth` compares the key
with the configuration that was loaded. Times are counted down: an entry has
`left` seconds to live, and `lag` counts for how long it has been cached without
being what the store holds, so that the clock needs no bound. An entry whose time
is over is the same as none, since `TTL.Get` does not return it and `TTL.Set`
replaces it.

### ServerLifecycle: one process around these requests

`RunServerInterruptible`: the server goroutine (`ServeReturns`), the stop
goroutine (`Stop`, `ShutdownReturns`), the buffered channel `doneCh`, the caller
(`ReceiveDone`). `Accept` lets requests in while the listener is open. `Tick` is
a second for the cache and for the deadline of `Shutdown`. `Restart` starts a
process in place of one that ended or crashed, with an empty cache, and creates
the table if there is none.

## Runs

| run | question | result |
|---|---|---|
| `detector` | do `Recent`, aggregates, cooldown, windows and threshold work together over six notifications, under each of five aggregating configurations and while the configuration changes? | yes |
| `requests_redis` | does the Redis row stay one writer's whole result, however writes race, and is the store as good as an atomic one while requests do not overlap? | yes |
| `limiter_ddb` | does a call ever succeed beyond its own rate in an item, and how many succeed in a minute whose item expires under delayed calls? | no; at most the largest rate and one for each caller |
| `limiter_redis` | by how much can racing callers exceed the rate, and racing and delayed callers together? | by the number of other callers; by less than twice the callers |
| `notify` | through the whole pipeline on DynamoDB: do racing requests behave as atomic evaluations, is only what was committed announced and published, once, the target's budget kept, a refused request without effect, a reply true? | yes |
| `notify_answers` | is every request answered? | yes |
| `lambda` | is only what was processed deleted, are values written out of order or published again only after a failure, and is every message settled? | yes |
| `service` | is a cached configuration used no longer than its time, does a change get through, does `ClearAll` purge what it finds and nobody touches, and does a stop always end? | yes |

Four runs show where the code departs from what its comments and documents say.
Each expects the violation TLC finds.

| run | statement | what the code does |
|---|---|---|
| `cas_retry` | a lost race is retried once | it is answered at once, and the flip is lost |
| `redis_update` | an update replaces the version it was computed from | another request's update can be overwritten |
| `limiter_redis_rate` | the rate bounds successful acquires | racing callers exceed it |
| `lambda_order` | a failed message blocks the later ones of its group | the rest of its batch is processed before it is delivered again |

Read in the code while modelling, and without a run of their own:

* With `aggregate_max_items` 0 an aggregate lists no flip, and the flips are
  dropped (`edge_flap.go:176`); `types/config.go:76` says that 0 means all.
* The end of a window is noticed only by a later change of value
  (`edge_flap.go:96`); `types/config.go:64` says that flips are notified when it
  expires.
* `Recent` is not always "most recent last" (`types/state.go:12`): a request that
  read the clock first and commits last appends an older flip. The detector's
  properties are therefore stated and proved for clocks in any order.
* An `aggregate_at` above `HardLimitRecentItems` never aggregates;
  `AggregateAtThreshold` excludes it.
* On Redis a create is unconditional (`redis/datastore.go:102`), so it overwrites
  a row created since the load.
* On either backend a call that is delayed until the item of its minute has expired
  starts a new count, so that a minute may see more successes than the rate
  (`ports/datastore.go` has it as the maximum); `LateGrants` says how many.
* On Redis a caller that fails between `HINCRBY` and `EXPIRE` leaves a counter
  without an expiry.
* The IP and client limits return an error from `Run`, with status 202, while the
  comment at `flow.go:30` says that rate limiting is no error. Behind the queue a
  limited message therefore fails, is delivered again and may end in the
  dead-letter queue.
* A message whose edge was committed and whose publishing failed is delivered
  again ("Failed messages are retried", `cmd/lambda-sqs/README.md:280`), finds its
  own value in the row and is dropped as unchanged, unless another value came in
  between: then it is published, possibly for the second time, while
  `cmd/lambda-sqs/README.md:24` says "Exactly-once processing: Built-in
  deduplication prevents duplicate notifications". `RepublishedAfterAnother` is
  the exact statement.
* `GetClientConfig` on Redis returns `redis.Nil` for a missing profile, not the
  `ErrNotFound` of `ports/clientstore.go:13`; the handler treats both alike.
* `ListClients` finds nothing on either backend: on DynamoDB the query asks for a
  partition and a sort key that no item has, on Redis `KEYS` has no wildcard.
* "ClearAll purges all client configurations and data" (`ports/clientstore.go:22`).
  On Redis it does not: it looks for `_enoti_data_<id>_s*` only
  (`redis/clientstore.go:93`), so the rate counters stay until they expire; it
  leaves the edges of clients without a profile, and returns nil at once when
  there is no profile at all (`redis/clientstore.go:83`), whatever data there is.
  On either backend it leaves data that is on the other one. `ClearAllPurges`
  claims none of this.
* `createTableIfNotExists` accepts a table that is being deleted, after which there
  is none.
* `done` is signalled when `Shutdown` begins, not when it ends (`app.go:73`,
  `app.go:80`): a caller that exits on it cuts the requests that the comment gives
  time to finish. `RunServerInterruptible` is used by the tests only.
* The cache's comment speaks of 30 to 60 seconds; `LoadCachedClientConfig` uses 300.

### Bounds, and why they are enough

* *Detector*: six notifications in six seconds under one configuration
  (`MixedLength`, five, in `MixedTime`, up to second three, where each step may choose another),
  and two values. `Recent`'s cap is 3: enough to overflow it, to fill two windows,
  to send two aggregates and to open a window after either. Two values suffice
  since the code only compares for equality with the last one.
* *Requests on Redis*: two requests at a time and four notifications. A race needs
  two; the third and fourth reach a row that has been through a create and an
  update.
* *Limiter*: three callers with two rates, four minutes with a time to live of
  three (DynamoDB), or two minutes with one (Redis), so that a caller can be
  delayed past the expiry of its bucket.
* *Notify*: two handlers, three notifications (two in the liveness run), two
  configurations to choose from for each, a minute of one clock unit, limits of
  one and two so that each is met.
* *Lambda*: three messages with the values up, down, up, so that a redelivered
  first message can find its own value, another one, or its own written by a
  successor; batches of up to three; two deliveries, the least at which something
  is delivered again and then given up; one HTTP notification of either value at
  any moment. The clock stands still, since time plays no part in the properties.
  The proofs cover the rest.
* *Service*: one client, two requests (a slow one and a fast one), two valid
  configurations that differ in their key and one that is not valid, a time to
  live and a deadline of one second. `MaxLag` is above the time to live, so a
  longer use would show.
* `MaxTime` and `MaxMinute` bound the clocks, `MayRetry` allows a Redis command
  one retry (three in go-redis) and `RetryBound` limits how far retried
  increments push a counter. A lost reply on DynamoDB needs no bound: a repeated
  conditional write meets its own version, and a counter stops at the rate.
* Notifications, requests and values are interchangeable in the modules of the
  HTTP pipeline, so their safety runs use the symmetry; runs with liveness
  properties do not.

Deadlock is not checked: all notifications have been handled, the clock has
reached its bound or the queue is empty, and the models stop.

### Fairness

`notify_answers` assumes that the handlers of a running process are scheduled
and that every call to a store or to SNS returns (`RunningSpec`): Go schedules
goroutines fairly, and the AWS clients bound their retries and report an error.
Weak fairness of a handler's whole disjunction is enough; nothing is assumed
about which outcome a call has, so the property does not depend on calls
succeeding. Crashes are left out there, since nobody answers for a dead process.
A lost reply on publishing may repeat; the model adds no state for a repetition,
so a repetition that changes nothing is a stuttering step, and fairness means
that the client library stops retrying.

`lambda` assumes weak fairness of `Consume` as a whole: SQS goes on polling, and
the function is scheduled and its calls return. Outcomes are free, and
invocations may be cut short at any point: since a delivery is counted when it
begins, even a function that never finishes leads to the dead-letter queue.

`service` assumes that the clock runs, that `ListenAndServe` returns once
`Shutdown` has begun, that `Shutdown` returns when it may, that a waiting caller
receives, and that reads of a configuration return. It assumes nothing of
`Serve`: the body of a request is read without a deadline (only
`ReadHeaderTimeout` is set), so a request may take for ever, which is the case
`ShutdownEnds` is about. Nor does it assume that operators or restarts occur.

### Mutants

Every property of a passing run has a mutant: an operator beside a definition
that changes it as a plausible slip would (a missing version check, an
inclusive comparison, a cap that keeps the wrong end, an ignored error). With the
mutant in its place TLC finds the property violated under the same configuration.

## Proofs

The proofs hold for every set of requests, values, notifications and (valid)
configurations, every `HardLimitRecentItems` and every bound on the clock. They
use the assumptions on the constants named in the modules: `EdgeFlapAssumption`,
`MaxTimeAssumption`, `EdgeEvalAssumption`, `RateLimiterAssumption`,
`NotifyAssumption`, `SqsAssumption`, `CacheAssumption`, `GraceAssumption`.

**EdgeFlapProofs** has the lemmas about the decision. The important one is
`EvaluateIsTransition`: for a well-typed edge, `Evaluate` does one of a few
things to `Recent` (shift in the new flip, keep only it, empty it), to the window
and to the cooldown. What follows argues about this summary instead of the code's
nested conditions. `AppendRecentShifts` and `BuildAggregateFacts` do the index
arithmetic once.

**EdgeDetectorProofs** proves `TypeOK`, `EdgeRemembers`, `RecentIsLogSuffix`,
`AggregatesListNewFlips`, `CooldownSpacing` and `ForwardSpacing`. The last three
speak about pairs of entries of the history and are not inductive: a step sees
only the row. `EdgeRemembers` is the missing link. It says what the row retains
of the history: `AggUntilTS` is past the cooldown of every aggregate sent,
`Recent` begins after the last of them, and no edge was forwarded after
`WindowStart`. TLC checks it as an invariant of `detector`; with it,
each property has one lemma for the step (`StepSuffix`, `StepRemembers`,
`StepLists`, `StepCooldown`, `StepForward`) and `Invariance` combines them.

A second invariant, `ThresholdInv`, gives `AggregateAtThreshold`. The code sends
an aggregate only if `Recent` holds `AggregateAt` flips, but it trims `Recent` and
`FlipCount` at different moments, so it has to be shown that `Recent` is never too
short when the remainder becomes 0. `EnoughRecent` is the reason: while one
configuration is in force, `Recent` holds at least `FlipCount % AggregateAt` flips
(the cap, a new window and an aggregate all respect this). `CooldownIsSent` says that a running cooldown is that of an
aggregate in the history, so that the property may speak of the history alone.
The arithmetic of quotients and remainders is in `EdgeFlapProofs` (`Division`,
`LargerQuotient`, `SameDivision`, `CountedOn`), as is the numbering of finite sets
(`NumberedFewer`, `NumberedMore`, `NumberedNone`) that `NotifyProofs` counts with.

**EdgeEvalProofs** proves, for any number of requests on DynamoDB, `EvalTypeOK`,
`SnapshotCurrent` and `AnnouncedIsCommitted`. The inductive
invariant adds to these that a notification belongs to one request
(`OneRequestEach`), that a request about to pass its version check has not written
yet (`Unwritten`), that it carries a changed value (`Changing`), and that an answer
which will be announced was committed (`AnswersCommitted`). `SnapshotCurrent` is
the heart of it: the version counts the writes, so equal versions mean equal rows.
It then proves that the requests implement `EdgeDetector` (`Refinement`). The step
that writes is an `Observe` step on the present row, by `SnapshotCurrent`; every
other step leaves row and history alone. A write repeated after a lost reply
cannot occur: its version has moved on.

**EdgeEvalRedisProofs** does the same for the Redis store, as far as it goes, for
any number of requests. Whatever overlaps, `RowIsWhole` and `EvalTypeOK` hold:
`RowInv` says that the row and every copy of it a request has loaded is a chain of
flips, since each was computed whole from another such copy and `HMSET` is atomic;
nothing is said of which copy. While requests have not overlapped, `NoOverlap`
holds: the version counts the writes, and a request about to write either holds
the row itself, or the row is what it has just written and a retry writes it again
(`WritesRow`). From this follow `SerialAnnouncesCommitted` and `SerialImplements`:
each write is an `Observe` step or repeats one.

**NotifyProofs** proves, for any number of handlers, notifications and
configurations, that the steps of the HTTP pipeline are those of concurrent
requests (`PipelineEvaluates`: `NotifySpec => Spec`), so that the theorems above
hold in it, that the pipeline implements `EdgeDetector` (`PipelineRefinement`), and
`NotifyTypeOK`, `PublishedIsCommitted`, `RefusedLeavesNoTrace`, `RepliesAreTrue` and
`TargetBudget`. None of these is inductive. `HandlerInv` says that a
notification is in the hands of one handler, has not begun its evaluation while it
is at the limits, and that what is on its way to the target was committed;
`PublishedInv` that nothing is published for a notification still short of
publishing; `ReplyInv` that a notification which was answered is in no handler's
hands, so that its reply cannot become untrue later. `BudgetInv` counts what was
granted and not only what was published: everything the target limit let pass in
the present minute, published or about to be, can be numbered up to the counter;
the counter stays within some `sns_rpm`; a past minute's grants stay as they are,
and a coming minute has none. A grant takes the next number, publishing and its
repetitions add none, and the tick that starts a minute resets the counter exactly
when the quotient of the clock moves on (`NextMinute`). All handler steps have the
same shape (`HandlerMoves`): the preservation is argued once (`HandlerStep`), and
each action is shown to have that shape.

**RateLimiterProofs** proves for DynamoDB `CountCoversGrants` (successes never
exceed the count, and the count is within the rate of some caller) and from it `GrantWithinRate`, and for
Redis `OvershootBound`, with any finite set of callers, any rates and
any time to live of at least one minute. `OvershootBound` is not inductive because
a bucket may expire while calls are under way in it. `RedisInv` tells the two
phases of a bucket apart: before it expires it has counted every call it let
through (`Covered`); afterwards its minute is over, so that nobody joins, and each
caller it still has passes once at most (`Closed`). A caller that has looked and
not yet counted is one of those the bound allows for. This is where the time to
live matters: an item that expired within its own minute would start the count
anew. `LateGrants` and `LateOvershoot` are proved with the same idea for both
stores: once an item with grants has expired (`Late`), the grants of the bucket
and its remaining callers together only shrink, from what one item may grant plus
all callers.

**SqsLambdaProofs** proves, for any messages, batch size and number of
deliveries, that the consumer implements `EdgeDetector` (`ConsumerImplements`),
and `SqsTypeOK`, `DeletedWasHandled`, `OutOfOrderHadFailed`,
`PublishedByItsDelivery` and `RepublishedAfterAnother`. It has two stages.
`ConsumerInv` says where the records are: processed records come before
unprocessed ones, both before the rest of the queue; a processed record is handled
or reported; the record in work is the first unprocessed one. This is enough for
the implementation, which carries the theorems of `EdgeDetectorProofs` over to
the row behind the queue: cut invocations and redeliveries cannot break the
spacing of aggregates or list a flip twice. Those theorems then serve the second
stage. `OutOfOrderHadFailed` speaks about pairs of entries of the history; what
makes it inductive is `OrderInv`: once a message has written, every earlier one
is *settled*, that is, it has failed, has left the queue, or is a processed record
of the present batch, and a settled message stays settled (`SettledStays`).
`OrderInv` also says that consecutive versions of the row have different values,
from which `RepublishedAfterAnother` follows. `WriteInv` ties the record in work
and what was published to the version written.

**ServerLifecycleProofs** proves `TypeOK`, `HitIsRecent` and `ClearAllPurges` for
any clients, requests, configurations and time to live. `HitIsRecent` is not
inductive: `CacheInv` says that the lag of an entry and the time it has left never
exceed the time to live together. For `ClearAllPurges`, `ClearInv` follows the
keys through the steps of both versions of `ClearAll`: on Redis, a client whose
turn has come and who is not excused has no edges left, and one whose profile was
not found has none until it is excused; on DynamoDB profiles and
data go with the table, and whoever is put or written once a restarted process has
created it again is excused.

Left to TLC: the liveness properties (`EveryRequestAnswered`,
`EveryMessageSettled`, `ChangeTakesEffect`, `StopIsAnswered`, `ShutdownEnds`), which
rest on fairness, and the four violations. Every invariant and action property
of the passing runs has a theorem.

## Not modelled

* `Suppress` and deduplication in the data stores: no code calls them.
* `ListClients`: it reads and changes nothing.
* The SNS Lambda entry point is a stub that returns nil.
* `main` and the building of AWS and Redis clients from the environment: I/O at
  start-up; a failure there ends the process before it has any state.
* JMESPath evaluation, JSON, zstd and the encodings of the stores are libraries;
  their results are inputs of the models.
* The formats of keys, and `ComputeKey`, a 32-bit hash of the trigger field's
  name: two fields with the same hash would share a row. The models have one
  scope.
* The Lambda's own configuration cache is `ConfigCache`'s; `SqsLambda` does not
  repeat it, since a stale configuration is one of the configurations a record
  may be evaluated with.

## Running

    tlc -config MCSqsLambda.cfg MCSqsLambda
    tlapm EdgeEvalProofs.tla

The module and configuration of each run are in `PROJECT.json`.
