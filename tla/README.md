# Specifications of the shop backend

TLA+ modules for the program under `src/src`: a NestJS shop (orders, outbox,
receipts, logins, caches, uploads) on Postgres, RabbitMQ and Redis. The modules
are translated from the TypeScript; a comment is a source only when the run says
it disagrees with the code. The directories `hw-11` to `hw-26` are older snapshots
of the same program; `hw-03`, `hw-05` and `hw-09` are exercises before it (a raw
HTTP server, a Docker demo, an Express API in memory). None of them is modelled.

## 1. Inventory

| Component (source under `src/src`) | State | Operations | Interacts with | What makes it correct |
|---|---|---|---|---|
| Order placement (`orders/place-order.ts`, called by `orders.service.ts`, `orders.controller.ts`) | `products.stock`, `orders`, `order_items`, `idempotency_records`, `outbox` | `placeOrder`: replay lookup, one stock UPDATE per line in product order, order, key claim, outbox row, commit; the loser of a key replays | other placements through row locks and the unique key; the relay through `outbox` | stock balances, one order per key, the answer is true, event and order commit together, no deadlock |
| Event broker (`broker/topology.ts`) | exchanges, quorum queue with delivery limit, DLQ, unroutable queue | `assertTopology` | relay, consumers | what is published is kept somewhere |
| Outbox relay (`outbox/relay.ts`, `relay-main.ts`) | `outbox` rows, an open transaction with a batch, a confirm channel | claim a batch with SKIP LOCKED, publish, wait for confirms, mark, roll back | Postgres, broker, other relays | publish before mark, disjoint batches, an outage costs no attempts |
| Order consumer (`outbox/consumer.ts`, `consumer-main.ts`) | `processed_messages`, `order_confirmations`, unsettled deliveries | deliver, mark + effect in one transaction, local retry, requeue or DLQ, receipt job, ack; shutdown; loses its connection or its consumer | broker, Postgres, BullMQ | the transaction commits once per mark, acknowledged means done |
| Receipts (`queue/receipts.queue.ts`, `worker-main.ts`) | BullMQ jobs | add with a job id, run, fail, stall; any job that ends removes others | consumer; the repeatable jobs on the same queue | bounded receipts per job |
| Retention (`outbox/retention.ts`) | a purge in progress | batched deletes of published rows, then of inbox marks | outbox, inbox | nothing still needed is deleted |
| Login tokens (`auth/auth.service.ts`) | `refresh_tokens`, `revoked_families`, `access_denylist` | login, refresh (rotate, reuse detection), logout, sweep | every guarded request | a refresh token rotates once; a logout covers all tokens of the login until they expire |
| Auth surface (`auth/*` without the service) | none | parsing, key loading, password hashing, role check | login tokens | stateless |
| Order status and feed (`orders.service.ts` `updateStatus`, `order-events.service.ts`, SSE, WebSocket) | order status; per-process event history | set status, publish, resume from `Last-Event-ID` | subscribers | a subscriber ends with the last status |
| Order reads | none | ownership check on the loaded row | - | stateless |
| Product card cache (`redis/single-flight-cache.ts`, `redis/lock.ts`, `products/product-card.ts`) | Redis value, lock with TTL | `getOrLoad` | Postgres, Redis | one loader at a time while the lock lives; a dead loader is replaced |
| Rate limiter (`rate-limit/*`) | a sorted set per client | one script | Redis | never more than the limit in a window |
| Sessions (`session/*`) | a hash per session | create, touch, rotate, destroy | Redis | an ended session is never revived |
| File uploads (`files/*`, `storage/storage.ts`) | `files` rows, objects, multipart uploads | intent, resume, commit, orphan sweep | object store, each other | COMPLETED means the object is there; everything abandoned is swept |
| CDN edge (`cdn/edge.ts`) | LRU map, byte count, in-flight fetches | GET/HEAD | object store | the byte count is what the map holds, within the budget; one fetch per key; the least recently used goes first |
| Pod lifecycle (`k8s/lifecycle.ts`, `serve-main.ts`) | ready, draining, server | start, SIGTERM, drain, close | kubelet | never routed to when closed; streams do not hold the exit |
| Checkout, jobs, retry (`checkout/*`, `workers.ts`, `retry.ts`) | stock, balance, jobs | checkout, claim a job, complete | demos only | balances, each job once |
| Wiring, entities, migrations, product listing, demos, infra, scripts | - | - | - | not modelled, see section 6 |

The hard behaviours are the interleavings at every `await`: transactions at READ
COMMITTED, several relays, consumers and handlers, acknowledgements on dead
channels, crashes between a side effect and its record, retries after an answer
was lost, and retention that runs against delayed messages. `PROJECT.json`
lists each at the line where it bites.

## 2. Plan

Done, in this order (the core of the system first):

1. `OrderRequests`, `AtomicOrders`, `PlaceOrder`, `MCPlaceOrder`, `PlaceOrderProofs`
2. `EventBroker`, `OutboxRelay`, `ReceiptQueue`, `OrderConsumer`, `OutboxRetention`,
   `ConfirmOnce`, `OutboxPipeline`, `MCOutboxPipeline`
3. `FileUpload`, `MCFileUpload`, `PartPlan`, composed by `UploadPlans`
4. `AuthTokens`, `AuthTokensProofs`
5. `SlidingWindow`, `Sessions`, `SingleFlight`, composed by `RedisFeatures`
6. `PodLifecycle`, `OrderFeed`, composed by `FeedOnPods`; `FeedOnPodsProofs`
7. `OutboxPipelineProofs`: an inductive invariant of the whole pipeline and the
   refinement of `ConfirmOnce`
8. `FileUploadProofs`, which also has the part arithmetic; `RedisFeaturesProofs`; the
   feed's sequences in `FeedOnPodsProofs`; the stock in `PlaceOrderProofs`
9. `EdgeCache`, `MCStorage`, `EdgeCacheProofs`; `SumTheorems`, the sums that the stock
   and the bytes of the edge both need; no cycle of waits in `PlaceOrderProofs`

Left, in this order: the repository's demos (`checkout/`, `workers.ts`, `retry.ts`), which
are programs of their own with a lock and a retry each; the liveness properties stay
with TLC.

Runs are kept few: a component gets one or two, with safety and liveness on the
same instance where its size allows.

## 3. Modules

### Order placement

```
OrderRequests  <-  AtomicOrders                (what POST /orders promises)
      ^----------  PlaceOrder  <-  MCPlaceOrder    (runs)
                        ^--------  PlaceOrderProofs
```

`PlaceOrder` has one action per SQL statement of `placeOrder()`. Between two of
them any other call may run, fail or die.

| Action | Code (`orders/place-order.ts`) |
|---|---|
| `Begin` | `findReplay` before the transaction; with a record the call is answered (`Found`: 201 or, for another request hash, 422) |
| `UpdateProduct`, `RefuseLine` | one `UPDATE products ... WHERE stock >= $1 AND is_active`, lines sorted by product id; 404 or 400 and rollback if no row matches |
| `InsertOrder` | `orders` and `order_items`; the unique constraint on (order, product) refuses a duplicate line with 500 |
| `Claim` | `INSERT idempotency_records ON CONFLICT DO NOTHING`: waits for an uncommitted claim; no row means rollback and `ReplayLoser` |
| `InsertOutbox`, `Commit` | the outbox row, COMMIT and the 201 |
| `CommitUnheard`, `Fail` | the answer of COMMIT is lost; any statement fails or the process dies |

State: `stock` is the committed column, `version` the uncommitted row version of
the transaction in `lock`; `records`/`claim` are the committed and the
uncommitted idempotency records; `writes` what the open transaction inserted.
Postgres is modelled by what the statements use: row locks until the end of the
transaction, a re-check of the WHERE on the newest committed version (an UPDATE
takes its lock and re-reads in one step), speculative insertion that waits.
A request hash is the body itself: equal hashes are equal bodies. Prices,
addresses and wording are left out. `HasKey`-less calls skip the key statements.

An `Idempotency-Key` is global: it is the primary key of `idempotency_records`
whoever sends it, so `Keys` are keys and the user is left out.

### Outbox pipeline

```
EventBroker <- OutboxRelay  <---------------- OutboxRetention <- OutboxPipeline <- MCOutboxPipeline
      ^------- ReceiptQueue <- OrderConsumer <------^                 |
                                                    ConfirmOnce <-----'  (refinement)
```

- `EventBroker`: the messages handed to RabbitMQ (`copies`) with their place
  (ready, held by a delivery, acked, DLQ, unroutable) and delivery count; the
  topology in the order `assertTopology` declares it; the clock in days; the
  fault budget. RabbitMQ is external: confirms mean stored, a closed channel
  returns its deliveries, `x-delivery-limit` dead-letters.
- `OutboxRelay`: `relayBatch()` by its awaits. `ClaimBatch` is the SELECT ... FOR
  UPDATE SKIP LOCKED; the `Publish*` actions are `publishRow` on an open,
  refusing, missing-exchange or closed channel; `Drained` the backpressure wait;
  `MarkBatch`, `SettleClosed` the two ends of `Promise.allSettled`; `CrashRelay`
  leaves the row locks until `ReleaseDeadRelay`.
- `OrderConsumer`: several processes with several concurrent `handle()` calls
  each. `InsertMark` and `Apply` are the inbox transaction, with `marking` the
  uncommitted mark others wait for; `RetryOrFail` and `Disposed` are
  `withLocalRetry` and the catch block; `live` says whether the handler's channel
  still exists: `Shutdown` closes it while handlers go on. `LoseConnection` and
  `CancelConsumer` leave a process that runs without deliveries, because nothing
  listens to `close` and the null message of a cancel just returns.
- `ReceiptQueue`: the job of each order as BullMQ keeps it under the options of
  `DEFAULT_JOB_OPTIONS`. Finished jobs are removed when another job of the queue
  ends, by the options of that one: a receipt's (`Expired`) or those of the
  repeatable jobs `outbox-purge` and `files-orphan-sweep`, which keep 100 of
  whatever name (`CronExpired`). `newer` counts the jobs that ended alike since.
  The receipts of other orders and the repeatable jobs are only what they remove
  (`OtherReceiptEnds`, `CronJobEnds`).
- `OutboxRetention`: `purgeOutbox()` batch by batch against the cutoffs taken at
  its start. The age of a row is counted in whole days of `EventBroker`'s clock.
- `OutboxPipeline`: all of them in one next-state relation, the properties, and
  the refinement to `ConfirmOnce`.

History variables (`refusals`, `commits`, `added`, `sent`, `forgotten`) record
what happened for the properties; no guard reads them. `commits` is counted at every
COMMIT of the inbox transaction, `forgotten` at every mark that retention deletes.
`published_at` and `processed_at` are `now()`, the time of BEGIN; a transaction is
taken to begin and commit on one day. `REDIS_QUEUE_URL` is taken to be set: without it
there is no receipt job, and a message is acknowledged after the effect alone.

### File uploads

`FileUpload` (instances in `MCFileUpload`) has one action per SQL statement and
per storage request of `files.service.ts` and `orphans.ts`.

| Action | Code |
|---|---|
| `InsertRow`, `FindRow`, `CreateUpload`, `SaveUpload`, `Sign` | `intent()`: INSERT ... ON CONFLICT DO NOTHING, the double tap's SELECT with its four answers, `createMultipart`, UPDATE of `upload_id`, `signFor` |
| `Resume` | `resume()` of an open multipart upload |
| `FindFile`, `ListParts`, `Recheck`, `CompleteUpload`, `Head`, `ReadMagic`, `DropObject`, `UpdateStatus` | `commit()` and `completeFromStorage()`, with their NoSuchUpload and NoSuchKey outcomes |
| `ClaimOrphans`, `AbortUpload`, `DeleteObject`, `DeleteRows`, `SweepFails` | `sweepOrphanFiles()`: the locking SELECT, the requests per row, DELETE and COMMIT, ROLLBACK |
| `PutObject`, `UploadPart`, `Age` | the client with its URLs; a day passing for a row |

`status` is the committed row (`absent` before, `deleted` after), `lock` the
sweeper whose transaction holds it, `named` the rows whose `upload_id` is
stored, `upload`, `parts` and `object` the store's side, `signed` the rows with
a valid URL. The store is external: completing an upload makes the object and
ends the upload, aborting or completing it twice is NoSuchUpload. A URL is good
for one key, type and length, so a client can put the wrong content but not the
wrong length; the branch for a wrong length is in the model and needs a store
that ignores the signature. A client may put again while its URL is valid. URLs
last 15 minutes at most and a row is swept after 24 hours, so `Age` is one step
that also ends the URLs and supposes the intent calls on the row to be over; a
commit may be any age. What a client asks for and is refused before the first
statement changes nothing. Owners are left out: a key stands for an (owner,
Idempotency-Key) pair. The bucket's rule that aborts uploads after seven days
is left out, because a PENDING row is swept after one.

`PartPlan` is the arithmetic of `policy.ts` as operators: `PartSize`,
`PartCount` and `PartLength` are `planParts` and `partLength`, `CeilDiv` is
`Math.ceil` of a quotient (sizes are below 2^53, so a quotient of two of them is
never rounded to a wrong ceiling). `BUDGET_BYTES` is the product of the retry
budget and the slow link's rate.

`UploadPlans` joins the two: whatever the size of a file with an open upload, its plan
is sound.

### CDN edge

`EdgeCache` is `createEdge()`. One process handles requests, and each has at most
one await, on the fetch of its asset.

| Action | Code (`cdn/edge.ts`) |
|---|---|
| `EdgeHit` | a fresh entry: stored again, which moves it to the end of the Map, and sent |
| `EdgeMiss` | an expired entry is dropped; the request joins the fetch of its key or begins one |
| `OriginAnswers` | `storage.get()` settles and leaves `inflight` |
| `Continue` | the lines after the await, once for each request that joined |
| `EdgeTick` | time passes for every entry |

`cached`, `entry` and `older` are the Map: its keys, their lengths with the time they
have left, and the order in which they were set. `cachedBytes` is the counter, kept
apart from the Map as in the code. The callbacks of a settled promise all run before
the event loop takes the next request, which is `Quiet` in the guards of the others.
The loop of `store()` is one step by what it ends with (`Evictions`): a set that holds
with each key all older ones, brings the count to the budget, and was still above it
before each of its keys went. There is at most one; that there is always one, the loop
ending before it takes the key it was run for, is `EvictionEnds`. `used` is a
history of the answers, to compare the order with. Not found and a failing origin are
answers that are not cached. Conditional and HEAD requests shorten an answer and
change nothing.

```
FileUpload  <-  UploadPlans  <-  MCFileUpload  <-  MCStorage    (runs)
PartPlan    <------'                EdgeCache  <------'
```

`MCStorage` checks the uploads and the edge in one run. They share the bucket and
nothing in it (the edge serves `assets/` only), so a behaviour is one of either.

### Login tokens

`AuthTokens` issues pairs: `pair[p]` is a row of `refresh_tokens` together with
the access token signed with it, `denied` is `revoked_families`, `jtis` is
`access_denylist`. What a token holds is left out besides its family and times.

| Action | Code (`auth/auth.service.ts`) |
|---|---|
| `Login` | `issuePair`: sweep, INSERT, sign, COMMIT; nobody else can be in its way |
| `BeginRefresh`, `LockRow`, `Rotate` | `refresh()`: BEGIN, SELECT ... FOR UPDATE and its four outcomes, then the UPDATE, the new row, the signature and COMMIT as one step under the row lock |
| `BeginLogout` | the guard's `Accepts`, then BEGIN of `logout()` |
| `BeginRevoke`, `LockNext`, `CommitRevocation` | `revokeFamily()`: the snapshot of the UPDATE, its row locks one at a time, then the upsert, the jti, the sweep and COMMIT |
| `DeadlockAbort`, `Fail`, `Tick` | Postgres ends a cycle of waits, a statement fails, time passes |

### Redis features

```
SlidingWindow <-.
Sessions      <-+- RedisFeatures
SingleFlight  <-'
```

Each of the three is one object in Redis with one operator per command or
script; `RedisFeatures` sends requests through them as the module wires it: the
session middleware (`Touching`), then the rate limiter (`Guarding`) and the card
(`OnCard`), or the session's login and logout (`Destroying`, `Creating`). Every
command may fail before it runs, after it, or, resent by ioredis
(`maxRetriesPerRequest: 1`), run twice. Time is kept in the data (ages of the
window's members, time left of keys), so that the clock needs no bound and
`Tick` moves all keys at once. `SlidingWindow.admitted` records what the script
let through, apart from the set it counts with (`Younger` is what
`ZREMRANGEBYSCORE` leaves of it); requests that a failing Redis
lets through (the guard fails open, as its comment says) are not in it.
`SingleFlight.late` marks a loader whose lock is gone before it wrote.

### Pods and the order feed

```
PodLifecycle <-.
OrderFeed    <-+- FeedOnPods
```

`PodLifecycle` is `main()` and `shutdown()` of `serve-main.ts` by its awaits:
`stage` is how far a pod has come, `since` the time since SIGTERM, `pending` and
`applied` the migrations as a pod has read them and as they were committed.
Kubernetes is external: it routes to pods that answered `/readyz`, tells any pod
to stop, and takes it out of the endpoints within `Propagation`. A replaced pod is
a new element of `Pods`.

`OrderFeed` is one order: `Save` and `Publish` are the two halves of
`updateStatus()`, `bus[p]` how many events process `p` has published (their ids are
1 to `bus[p]`, and `HistoryAfter` is those after an id among the last `BufferLimit`), `Connect` the awaited checks of an SSE request or a
`join`, `Subscribe` the replay and the subscription, which have no await between
them, `chan` what is written and not received. `FailUpdate` is a call that is refused
or whose `save()` throws, also when its COMMIT was applied: then the status is set and
nothing is published (`Untold`). `FeedOnPods` lets clients connect to routed pods, and
closes them the way `app.close()` does: the gateway unsubscribes, every socket is sent
a close frame, and the server waits for the handshake of each (`Answers`) and for its
streams and requests until `closeAllConnections()`, which knows streams and requests
but no upgraded socket. What is still open when the grace ends is killed (`Kills`).
An update that is under way goes on while its pod closes.

## 4. Runs

| Run | Asks | Instance | Shows |
|---|---|---|---|
| `place_order` | the transaction | 5 calls: one key sent three times with two bodies on different rows, a call with the lines the other way round and stock for one of the two, a duplicate line; 21k states, with fairness | one order per key, true answers, order and event together, stock conservation, refused calls leave nothing, waits only rise in product id, every call answered, every run is one of `AtomicOrders` |
| `pipeline` | consumer side | 1 order, 3 messages, 1 relay, 2 processes, 3 faults anywhere, a queue that keeps one finished job; 1.5M states up to swapping the processes | acknowledged is done, mark with effect, one holder per delivery, bounded receipts per job, refinement of `ConfirmOnce` |
| `pipeline_relays` | relay side | 3 rows, 2 relays, batches of 2, 4 messages, 2 faults; 929k states up to swapping the relays | no event lost, disjoint batches, attempts are refusals |
| `pipeline_days` | retention and progress | 1 order, 3 messages, backpressure, 2 handlers of one process, days 0 to 3, 1 fault, with fairness; 540k states | the transaction commits once per mark, also when a message outlives its mark; the order ends handled or where a human looks, unless it stays abandoned |
| `relay_drain` | relay.ts:34 | backpressure, one closed channel | violated: the wait for `drain` never ends |
| `receipt_dedup` | receipts.queue.ts:15 | 1 order, 2 messages, 1 fault, one day; 3 finished jobs kept, 2 by the repeatable jobs | violated: `add()` reaches Redis but its answer is lost; the job completes, another receipt and a repeatable job end and trim it, and the redelivered message adds a second one |
| `upload_taps` | the key of an intent, and the parts | 3 intents with one key, two of them the same multipart body; 1 commit, 1 sweeper, 2 faults; 383k states. Sizes 1 to 46 with at most 4 parts of 6 to 12 | one key is one file, COMPLETED is answered of a completed row; every plan is within the limits and its parts are the file |
| `storage` | commit against sweep, and the edge | a multipart and a single upload, 2 commits, 2 sweepers, 1 fault, with fairness. Edge: 3 assets, 2 requests at once, lengths 1, 2 and 4, a budget of 3, objects up to 2; 350k states, 19k of them the edge's | disjoint sweeps, nothing left of a swept multipart, a completed multipart is whole and checked, completed files stay, old intents end; the edge's count is exact and within the budget, one fetch per key, least recently used first |
| `upload_crash` | orphans.ts:10 | one multipart upload, 1 commit, 1 sweeper, 1 fault | violated: the sweep deletes the object and dies, the commit that had read it marks the row COMPLETED |
| `auth` | refresh, reuse and logout | 2 requests at once, 4 in all, 3 pairs in up to 2 logins, a clock to 2, 1 fault, with fairness; 518k states | a refresh token rotates once, no child of a revoked row, a revocation denies what was issued before it, deadlocks leave nothing half done |
| `redis_features` | the Redis objects under traffic | 2 requests at once, 3 in all, of three kinds; 2 of 3 ticks in the window, 2 sessions, 2 versions of a product, 2 faults, with fairness; 652k states | the window is never exceeded and Retry-After is exact, ended sessions stay ended, one loader, the older card only from a late loader, every request ends |
| `feed` | the feed across a rollout | 2 pods, 3 updates, one client that connects twice (a stream or a socket), a history of 1, 1 fault, with fairness; 1.2M states | migrations apply once, routed pods serve, past the cut only a silent socket holds a pod, events come in order without a gap, the last event is the status but for lost and overlapping updates, resumed streams catch up |

Some properties are conjunctions whose parts have names of their own, and each part
has its own mutant: `OrdersHold` is `EventPerOrder`, `OneOrderPerKey` and
`LoserFindsRecord`; `AnswersHold` is `AnswerFaithful` and `RefusedLeavesNothing` in `PlaceOrder`, `SameFilePerKey`
and `CompletedAnswer` in `FileUpload`; `EdgeSound` is `EdgeTypeOK`, `BytesExact`, `WithinBudget`,
`OneFetchPerKey`, `NobodyForgotten`, `OrderIsUse` and `EvictionEnds`;
`RelaysHold` is `BatchesDisjoint` and `AttemptsAreRefusals`; `SweepsClean` is `SweepsDisjoint` and
`SweptLeavesNothing`; `TokensSafe`, `WindowExact` and `RolloutSafe` likewise.
`OpenUploadsPlanned` states the arithmetic of `PartPlan` over all its sizes wherever a
multipart upload is open.

More disagreements were met and have no run of their own:

- `retention.ts:8` says "a message cannot come back after its mark is gone". Outbox
  retention counts from `published_at`, so a row whose relay is down, or lost its
  connection, between the confirm and the UPDATE for longer than the inbox retention
  is published again after its mark was purged. The transaction then commits a
  second time (`AppliedOncePerMark` counts it in `forgotten`) and finds the
  confirmation in place (`ImplementsConfirmOnce`).
- A consumer whose connection the broker closes, or which the broker cancels
  (`consumer.ts:83` returns on the null message), stays up and consumes nothing:
  `consumer-main.ts` and `broker/connection.ts` listen to neither `close` nor `error`,
  and Postgres and Redis keep the process running. `EndsHandled` excepts the orders
  that stay `Abandoned` this way or to the wait of `relay_drain`.
- README.md:153 of the repository says that after `CLOSE_TIMEOUT_MS` "any socket still
  open is cut" and README.md:156, like `infra/index.ts:23`, that "SIGKILL never lands
  mid-drain". `closeAllConnections()` does not know upgraded sockets: `app.close()`
  waits for the closing handshake of a WebSocket, up to 30 s if its peer is silent,
  so 5 s of drain and that wait pass the 30 s of grace and SIGKILL comes
  (`HeldBySocketsOnly` says that nothing else holds a pod up that long).
- `updateStatus()` publishes after `save()` has returned. A save that throws after its
  COMMIT was applied leaves the new status without an event, and of two overlapping
  updates the one saved first may be announced last. `LastEventIsStatus` is what holds
  besides.
- Of two concurrent commits of an upload with the wrong content, one deletes the
  object and the other may fail on NoSuchKey or NoSuchUpload (README.md:438 of the
  repository).
- `auth.service.ts:152` says "No new access token can join a revoked family" and
  README.md:674 that a reuse "sets `revoked_at` on every row of the family". At
  READ COMMITTED the UPDATE does not see the row a concurrent rotation has
  inserted and not committed: it waits for the rotated row and leaves the new one.
  The new pair is denied with its family for `ACCESS_TTL`, and its refresh token
  still rotates afterwards. In the model the steps are `BeginRefresh`, `LockRow`,
  a revocation's `BeginRevoke`, `Rotate`, then its `LockNext` and
  `CommitRevocation`.
- A denylist row counts from the BEGIN of its transaction and a token from its
  signature, so a token signed by a rotation the revocation waited for outlives
  the row by the time between the two (`MaxOpen` in `RevokedTokensDenied`).
- `session.controller.ts:31` says "never keep a session id that existed before
  it". When Redis fails at the touch of a login the request has no session, and
  the old one lives until its TTL: `ended` has only what a login found. In the same
  way a logout whose touch failed clears the cookie and answers 204 while the session
  lives on in Redis; it does not count as ended either.
- `single-flight-cache.ts:28` says a failing lock costs an extra read, "never
  wrong data". A loader that outlived its lock may overwrite a newer card with an
  older one, for one more TTL (`OlderOnlyFromLate` says it takes one).
- The event bus is per process while `infra/index.ts` runs several pods: an
  update made on one never reaches a subscriber of another, and the ids of two
  pods are not comparable, so a client that resumes elsewhere may miss or repeat
  events. `EventsInSequence` and `StreamsCatchUp` speak of one process's events.

**Bounds.** `Copies`, `MaxFaults`, `MaxDay` bound the environment and nothing
else; every one of them is a guard with that name. A fault may strike at any
step, so two or three of them reach every pair or triple of failures: a crash
after a confirm and a lost answer of the retry, a shutdown with the redelivery
handled concurrently and a failing enqueue. Batches of two rows out of three
make short and full batches and a row left for the other relay. `MaxAttempts`,
`LocalAttempts`, `MaxRedeliveries`, `DeliveryLimit` are the code's settings at
the smallest value where both sides of each comparison occur. Running out of
`Copies` blocks a publish, which could only make `EndsHandled` fail, never hold;
the safety properties say nothing of more messages than that. `KeepCompleted` and
`KeepCron` are the counts 10 000 and 100: with 1 and 1 a finished job goes as soon as
another one ends, so that jobs come and go in `pipeline`; with 3 and 2 in
`receipt_dedup` only the repeatable job removes one within the day. Two processes with a
handler each, and two relays, are the same up to their names, and `pipeline` and
`pipeline_relays` say so (`SameProcesses`, `SameRelays`): their properties name neither
and none of them is a liveness property. The uploads have one part per multipart upload (all or some of the parts listed)
and sweeps of one or two rows. The window of the rate limiter is one tick longer
than its limit, so that it fills, slides by a part and empties; the lock, the
cached value and a session live for one tick, so that each expires under any
request. Both TTLs of `auth` are two ticks and a transaction may stay open for
one, so that a token expires during a transaction and a denylist row before or
after its tokens. The drain of `feed` is one tick longer than the propagation of endpoints
and the grace one tick longer than drain and close together, as `infra/index.ts:26`
demands, so that a silent socket is there both past the cut and at SIGKILL; a history of one event makes a stream that misses two lose one. The
edge's three assets never fit together, two of them only if they are small, and one
length is above the budget itself. Sizes of
parts are scaled to a MiB of 3 bytes; the theorems cover the real ones.
`CHECK_DEADLOCK FALSE` is set where the instance
really ends: all calls answered, all orders handled, the budgets spent.

**Fairness.** `PlaceOrder`: weak fairness of each call's own next statement; a
statement waiting for a lock is not enabled, so fairness owes it nothing until
the lock is free. That a statement fails or commits unheard is never owed.
`OutboxPipeline`: weak fairness of each relay, process, handler and job step,
with starting a dead process and Postgres noticing a dead client among them. The
repository starts these processes by npm scripts and has no supervisor, so the
restart of a process that has exited is an assumption about the operator. Nobody
restarts one that runs: a deaf consumer and a relay that waits for `drain` stay as
they are, and `EndsHandled` names the orders they may keep waiting. The queue's other
jobs are owed nothing.
`FileUpload`: weak fairness of each call's next request and of each sweeper,
which the worker's hourly schedule gives.
`MCStorage` has the same: a behaviour of the edge alone is not fair to the uploads, so
that only its safety is checked.
`AuthTokens`: weak fairness of each request's own next statement, where a
statement that waits for a row is not enabled, and of the deadlock detector.
`RedisFeatures`: weak fairness of each request's next step and of time: Node runs
every callback and commands time out. `FeedOnPods`: weak fairness of each client's
subscription, which is the handler's next await, and of written events arriving;
nobody is obliged to connect, to update, to roll out, or to let time pass. Nothing is assumed of faults, of time,
of clients, of new orders, or of the retention job.

## 5. Proofs

`PlaceOrderProofs` proves, for every set of products, bodies, keys and calls
(assumption `RequestAssumption`: what `CreateOrderDto` validates, and that `None`
is none of the values it stands beside):

- `TypeCorrect`, `OrdersBalance` (`OrdersHold`: event and order together, one order
  per key, the loser's record) and `AnswersTrue` (`AnswersHold`: the answers and the
  refused calls): invariants that the run checks too.
- `LockOrder`: waits only ever rise in product id, and the holder of a key waits
  for nobody.
- `Refinement`: `Spec => ImplementsAtomicOrders`.
- `NoDeadlock`, which the run checks as liveness only: among any finite set of calls
  one waits for none of the others. It follows from `LockOrder` by the smallest set of
  calls that all wait for one another: none of them waits for a key, because its
  holder waits for nobody; the ones that need a higher product than a given one
  wait for one another too, and are fewer (the given one is not among them).
- `StockIsConserved` (`StockConservation`): what was in stock is what is left plus
  what the committed orders took.

The inductive invariant `IInv` joins the properties with what they rest on. None
of them is inductive alone: that `Commit` leaves no negative stock needs
`VersionsPending` (the uncommitted version is the committed one less the line,
because only the lock's owner can change the committed one), which needs
`LocksOwned` (a lock is held exactly for the lines already updated) and
`AllLinesLocked`; one order per key needs `ClaimsOwned` (an open claim excludes a
committed record) and `RecordsFaithful`; the lock order needs `LinesAscend`.
`NextInv` has one step per action, the larger ones lemmas of their own. In the
refinement `Commit` is `Place`, a found record is `Replay`, `RefuseLine` is
`Refuse`, and every other statement is a stutter (`StepRefines`).

The rest of the sum in `StockConservation` is the refinement: only `Place` changes the
stock or the orders, and it takes from the one what it adds to the sum of the other
(`PlaceBalances`).

`SumTheorems` is what both the stock and the edge need of sums over a finite set. The
sum of the community modules is a function defined by recursion on the subsets of the
set. Induction is done by the least counterexample: a set of sets for which a claim
fails has one of least size (`LeastOf`, `LeastSet`). That way the function exists
(`SumsExist`) and is determined (`SumsAgree`), the order in which it takes elements
out does not matter (`TotalTakes`), and the sum of a set is that of a part and of the
rest (`TotalSplit`).

`OutboxPipelineProofs` is about all of `OutboxPipeline`: any number of events,
messages, relays, processes, handlers, faults and days, under the assumptions the
component modules name. It proves `TypeCorrect` and

- of the relays `NothingLost` (`NoEventLost`) and `RelaysApart` (`RelaysHold`);
- of the consumers `AckedMeansDone` (`AckedIsDone`), `AppliedOnce`
  (`AppliedOncePerMark`), `MarksHold` (`MarkWithEffect`) and `HeldOnce` (`HeldByOne`);
- of the receipts `ReceiptsPaid` (`ReceiptsPerJob`: at most `1 + MaxStalls` for each
  job, whenever BullMQ removes finished ones; that there is one job per order is
  false, see section 4);
- `Refinement`: `Spec => ImplementsConfirmOnce`.

Its invariant `IInv` follows a message from the row to the acknowledgement, and each
part is what the next rests on. `Claims`: between batches a relay has locked nothing,
in one it has pending rows, disjoint from those of others. `Charges`: a refusal is
counted before the row is charged for it. `Publishes`: a row whose publish was
confirmed to the relay is `Safe`, confirmed or in the broker, before it is marked;
`NoEventLost` alone says nothing of it yet. `Messages`: what is in the broker is
garbage or the event of an order that was placed. `Deliveries`: a live handler is in a
process whose channel lives and holds its message alone, which `HeldByOne` counts, and a
handler left over from a closed channel still has the event it began with. `Work`:
past COMMIT the event is confirmed, and at the ack its job has been added, which is
what makes the acknowledgement true. `Marking`: between its INSERT and its COMMIT a
handler owns the uncommitted mark (`MarkersMove`), so no other is at the same point
with the same event, and a mark is uncommitted only where none is committed
(`UncommittedMarks`); so every commit finds the event without a mark and leaves one,
and commits are the marks that are there plus those retention has deleted.
`AppliedOncePerMark` alone says nothing of two handlers between their INSERT and
their COMMIT. `ReceiptsPaid` adds `JobsPaid`: a job
that is not over has stalls left for the receipts it may still send.

`FileUploadProofs` proves, for any number of intents, keys, parts, commits,
sweepers and faults (`UploadAssumption`), `TypeCorrect`, `OneFilePerKey`
(`SameFilePerKey`), `AnswerIsTrue` (`CompletedAnswer`), `Whole` (`CompletedIsWhole`),
`SweepIsClean` (`SweepsClean`) and the action property `CommittedStays`
(`CompletedStays`). `AnswersTrue` (`AnswersHold`) joins the second and the third. `IInv` has one part per actor besides the properties. `Intents`:
how far a call is says whether its row and its upload exist; a row that is old has no
intent call before its URLs. `Table`: the unique index, and that only old rows are
gone. `Stored`: a multipart object is what an upload with all its parts was completed
to. `Committing`: what a commit has read of its file still holds when it is used,
because an upload that is done stays done and its parts and bytes stay what they
were. `Sweeping`: the rows of a batch stay locked and pending, and what the
sweeper is through with has no object and no open upload left, which is what makes
`DeleteRows` clean.

`RedisFeaturesProofs` proves for any limit, window, TTLs, callers and faults `TypeCorrect`,
`LimiterIsExact` (`WindowExact`), `EndedForGood` (`EndedStaysEnded`), `OneLoads`
(`OneLoader`) and the action property `NoneOlder` (`OlderOnlyFromLate`).

- `WindowInv`: log and admitted requests are oldest first, the key lives exactly as
  long as its newest entry counts, and what the log holds inside the window is what
  was admitted. The log is trimmed only when the script runs and expires as a
  whole, so it is not itself what was admitted; that the key never takes an
  entry along that still counts is the second part. The lemmas (`Cut`, `Rest`,
  `InsideIs`, `AddedIs`, `AgedIs`) say that in a falling sequence what is young
  enough is a suffix, which adding and ageing keep.
- `FlightInv`: a loader that is not late owns the lock, and has loaded nothing
  older than what is cached.
- `SessionInv`: a session id in a request was created, a login that goes on to create
  one has ended the one it found, and nothing that has ended is live.


The part arithmetic is proved at the end of `FileUploadProofs`: for every size and for
any limits as `PartPlanAssumption` states them (those of `policy.ts` do), `planParts`
refuses nothing and keeps to S3's limits (`PlansFit`), parts of the signed lengths are
the file (`PartsTile`), and an upload above the threshold has two parts
(`ThresholdLeavesTwo`); `PlansSound` joins them, and `OpenUploadsArePlanned` states them
of the uploads that are open (`OpenUploadsPlanned`). The argument is division with
remainder (`CeilDivCovers`): `PartSizeFits` uses that the largest part is a whole number
of MiB, so that rounding up cannot pass it, and that the largest object fits into
`MAX_PARTS` of them.

`EdgeCacheProofs` proves `EdgeIsSound` (`EdgeSound`) for any assets, any number of
requests at once and any lengths, lifetimes and budgets (`EdgeAssumption`: naturals, and
the limit of an object is within the budget, which `createEdge()` makes so). `IInv` is

- `MapInv`: the count is the total of what the Map holds, within the budget, and the
  order of the Map is linear. `store()` takes the old length of its key off, adds the
  new one (`CountIs`) and takes off those it evicts (`StoreKeeps`);
- `Apart`: a key that is fetched is not in the Map, and the requests that go on after
  one fetch agree on its answer. Without it an answer that is not cached might come
  after another that was, and leave the Map in another order than that of use;
- `OneFetchPerKey`, `NobodyForgotten` and `OrderIsUse`, which rest on it.

That the loop ends (`LoopEnds`) is again an argument by the least: of the sets of older
keys that bring the count to the budget, one is smallest (there is one, because
all keys but the new one would do), and were one of its keys taken when the count
was low enough already, those before that key would be a smaller set.

`AuthTokensProofs` proves, for any finite number of requests at once, any number
of pairs, families and ticks and any TTLs (`AuthAssumption`):

- `TypeCorrect`, with which no two transactions hold the same refresh row;
- `TokensAreSafe`: a refresh token has one child exactly when it is used, a
  committed revocation denies the tokens issued before it (but for the `MaxOpen`
  ticks of section 4), a logged-out token stays out, and a revocation that has
  begun ends up denied unless something fails;
- `RevokedHasNoChild`: no step issues a pair for a revoked row.

Its inductive invariant `IInv` adds to them: `Rows` (the pairs issued are the
first numbers, so the next number is new), `Reserved` (a refresh that can still
rotate has a number left, which keeps the model's bound from cutting one short),
`Transactions` (a rotation holds exactly its row, which is neither used nor
revoked; a revocation holds rows of its family only), `OneChild` (`RotatedOnce`
without counting) and `Denials` (a family's row outlives each doomed token but for
`MaxOpen`, or time has passed both). `RotatedOnce` alone is not inductive: that
the row a rotation has locked stays unused and unrevoked follows from
`Transactions` and from locks being disjoint. `BegunIsDenied` survives a deadlock
because a member of a cycle waits for a row another revocation of the same family
holds (`DeadlockLeavesOne`): a request that only waits with its SELECT holds
nothing and is in no cycle.

`FeedOnPodsProofs` proves, for any set of pods, clients and numbers of updates,
with the grace longer than drain and close together and the endpoints faster than
the drain (`LifecycleAssumption`, as `infra/index.ts` sets them):

- `RolloutIsSafe`: migrations apply once (`AppliedOnce`), routed pods serve
  (`RoutedServes`), and past the cut only sockets hold a pod up (`HeldBySocketsOnly`).
  The invariant `PodInv` adds `LockHolds` (one migrator at a time, and only it has a
  list of pending migrations) and `TimersHold` (how long ago SIGTERM can be at each
  stage). `StreamsCut`, no stream past the cut, is kept because only the clock takes a
  pod there and stands until the streams are cut (`TimePasses`), and nobody comes to a
  pod that no longer serves (`NobodyComes`).
- `LastEventTells`: the last event is the saved status with the two exceptions of
  `LastEventIsStatus`, from `FeedInv`, whose `RivalsKnown` says that an update between
  save and publish is the one that set the status or was under way when it was set.
- `TypeCorrect`, and `InSequence` (`Spec => EventsInSequence`, with `FeedAssumption`
  for the size of the history, and `BoundsAssumption`: the bounds are numbers): a client hears the events of one process in order,
  none twice, and none is left out that the buffer still had. Its invariant:
  `Counted` (events published and updates to come are no more than the updates there
  are, which bounds the ids), `SavedWhereRunning` and `Linked` (an update under way
  and an open connection are in a process that is up), `Heard` (a client remembers
  only ids its process has published) and `Flows` (what is written to a client and
  not received is a run of consecutive ids; on a connection that is still served it
  ends with the latest event, and what lies between it and the client's last id
  the buffer had dropped). That sockets get no replay, and nothing more once the
  gateway has stopped, are the two exceptions in `Flows`.

Only model-checked:

- the liveness properties `EveryCallAnswered`, `EndsHandled`, `OrphansEnd`, `CallsEnd`,
  `RequestsEnd` and `StreamsCatchUp`: fairness and ENABLED are out of the prover's
  reach. What is safety in the first is the theorem `NoDeadlock`.

Every other property of a passing run is a theorem. The three violations are
statements of the repository that the code does not keep, so there is nothing
to prove about them.

## 6. Not modelled

- Stateless code: DTO validation, guards that only parse, password hashing, key
  loading, mapping rows to responses, order reads, the product listing.
- Wiring: modules, data source, configuration, Redis client options. Entities
  and migrations appear as the constraints the models use.
- `drainOutbox` (a loop over `relayBatch` for tests and demos), the scheduling of
  BullMQ's repeatable jobs (what they remove is in `ReceiptQueue`, what they do in
  `OutboxRetention` and `FileUpload`) and its internals beyond the options set here.
- Demos, seed, reports, load scripts, backup scripts, Docker, Pulumi, the
  homework snapshots.
- `cdn/assets.ts`, which fills the bucket the edge reads, and the parsing of paths,
  `Cache-Control` and `If-None-Match` in `edge.ts`.
- `checkout/`, `workers.ts`, `retry.ts`: only the demos call them.
- Cookies: a client may present any session id it was ever given, so what a
  response's `Set-Cookie` overwrites in a browser is not modelled.
- Who may set which status of an order, and which role sees it.
