# Formal models of the labs

The repository is a collection of runnable labs and small services. Each lab puts
a short program in front of real infrastructure (Postgres, Kafka, RabbitMQ,
Valkey, Envoy, Patroni, SQS, DynamoDB) and breaks something on purpose. This
directory holds TLA+ models of the programs' own logic, the TLC runs that check
small instances of them, and TLAPS proofs that hold for instances of every size.

Paths below are relative to the repository's root. "R7" and so on are the
repository's own names for its labs.

## 1. Inventory

### The parts with a protocol of their own

| Part | State it keeps | Operations | Interacts with |
|---|---|---|---|
| **Order service** `labs/r11-outbox-saga/order-service`, `labs/r15-capstone/order-service` | order-db: `orders`, `outbox`, `processed_events` | place an order (one transaction), consume payment events (a background thread), R15 also: read a status, poll for a confirmation | Debezium reads its outbox; it consumes `outbox.event.Payment`; R15 fills Valkey |
| **Payment service** `labs/r11-outbox-saga/payment-service` (R13-08 and R15 run the same file) | payment-db: `payments`, `outbox`, `processed_events` | consume order events | Debezium reads its outbox; it consumes `outbox.event.Order` |
| **Debezium and Kafka** (configuration only) | replication slots, two topics of one partition, group offsets | publish, assign, commit | both services |
| **Status cache** in R15's order service | `order-status:<id>` keys with a time to live in Valkey | look up, fill, expire | order-db, every replica |
| **Retrying consumer** `labs/r7-messaging/consumer`, R13-03's copy of it | RabbitMQ: `orders`, three delay queues, `orders-dlq`; files: side effects, processed ids, completions; R13-03: a table | handle one message of six types, acknowledge, resend, bury | its producer, the other consumer of R7-08 through the shared files |
| **Order pipeline** `event-pipeline` | SNS topic, SQS queue and dead-letter queue, S3 archive, DynamoDB table | POST /orders, receive a batch, process a message | SNS, SQS, S3, DynamoDB |
| **Task API** `serverless-api` | one DynamoDB table with a version attribute | create, get, update, confirm an attachment, delete | DynamoDB; S3 only through signed URLs |
| **Cache-aside server** `labs/r6-caching/app`, R13-07 | Valkey keys with a time to live | GET /cached-item | Valkey, Postgres |
| **Traced checkout** `labs/r8-distributed-tracing`, R13-01 | a RabbitMQ queue | GET /checkout, consume | Valkey, Postgres, RabbitMQ, Jaeger |
| **Circuit breaker** `labs/r9-circuit-breaker/app`, R13-02 | a breaker shared by the server's threads | /order, /order-raw, /breaker-status | Postgres through Toxiproxy |
| **HA writer** `labs/r14-ha-dr/app` | a table on a Patroni cluster of three nodes | /write, /read, /read-replica, /whoami | HAProxy, Patroni |

The rest keeps nothing between two requests or is not a program: the health,
version and database-probe servers of R2 to R5, R10, R12, R13-04 and R13-06, the
Java connectivity test, the attachment URLs of `serverless-api`, the shell scripts,
Terraform, Kubernetes manifests, dashboards, reports and evidence files.

### What is hard, and what makes each part correct

*The saga (R11, R13-05, R13-08, R15).* Two databases must agree although no
transaction spans them. An event is relayed at least once, its consumer can crash
between its commit and its offset, the group can hand a partition to a second
process while the first one still works, a connector can be recreated, an offset
can be reset. The check for a known event and the insert of its key are two
statements of a transaction that another process may run at the same time.
Correct means: one payment per order, an order decided once and as its payment
says, no offset committed past unfinished work, no event lost, and every order
decided in the end.

*The retrying consumer (R7, R13-03).* The copy that replaces a message and the
acknowledgement of the original are two frames, and either may be lost with the
connection; a process works on for a while after the broker has given its message
to another one; the record that something was done and the deed are two writes
to two files. Correct means: nothing is lost, nothing is buried before its last
attempt, copies multiply only through faults, an idempotent effect happens once,
one container keeps the order but for what its killed processes leave behind.

*Status reads and polls (R15).* Handlers run in threads of two replicas. One that
has read a row can fill the cache with it long after the row has changed. The database
replicates asynchronously, so a failover can take back what was answered. Correct
means: a decision that is shown is the true one, a second acknowledgement of an order
takes a lost row, an answer from the database is not older than its request, and an
old status does not stay for ever.

*The pipeline.* The visibility timeout of a whole batch starts when the batch is
received, so the same message can be in two hands; the archive, the table, the
deletion and the receive count are four separate calls. Correct means: a message
leaves the queue only processed or buried, and a valid order is buried only if
faults used up its deliveries.

*The task API.* Each write reads and rewrites a whole item; the SDK repeats calls
whose response was lost; a deletion has no condition. Correct means: overlapping
edits of different fields keep both, a deleted task stays deleted, and each change
is counted once.

*The cache-aside server (R6, R13-07).* Every request that misses runs the slow query
until one of them has filled the cache; one except clause stands for a broken cache
and for a client that left. Correct means: 500 only when the database failed, the
stampede bounded by the threads, the key cached again.

*The checkout (R8, R13-01).* The publish is not confirmed and comes before the
answer. Correct means: 200 only for an order that the broker has, an order behind an
error only after a fault, nothing lost by the consumer, and nothing logged twice
without a fault.

*The circuit breaker (R9, R13-02).* All threads share the breaker. Correct means: a
dead database is asked as little as promised, a live one is not refused, and both
in the end.

*The HA writer (R14).* A commit is acknowledged before any replica has it, and ids are
handed out by a leader's memory. Correct means: what all nodes have survives any
failovers, rows never share an id, old leaders come back into line.

## 2. Modules

| Module | What it is |
|---|---|
| `Saga` | the abstract specification: orders are placed, paid and decided, with no outbox, broker or consumer |
| `OutboxSaga` | the saga as the services, connectors and consumer groups carry it out; shown to implement `Saga` |
| `OutboxSagaProofs` | its inductive invariant and the theorems |
| `OrderStatus`, `OrderStatusProofs` | the HTTP side of R15's order service; its database side is `Saga` (`Db == INSTANCE Saga`) |
| `RetryQueue`, `RetryQueueProofs` | the R7 consumer and its queues; invariant and theorems |
| `OrderPipeline`, `OrderPipelineProofs` | `event-pipeline` from POST to table, archive and dead-letter queue |
| `TaskTable` | the abstract specification of the task service: every edit is one atomic change of the row it has read |
| `TaskApi`, `TaskApiProofs` | `serverless-api` over a conditional-write table; shown to implement `TaskTable` |
| `Delivery` | the abstract specification of a queue that delivers at least once and may bury; `RetryQueue`, `OrderPipeline` and `Checkout` implement it |
| `Checkout`, `CheckoutProofs` | R8's traced checkout, its queue and its consumer |
| `Handlers` | the threads of a `ThreadingHTTPServer`, each at a step of `do_GET`; `Breaker` and `CacheAside` extend it |
| `Breaker` | R9's `/order` and `/order-raw` over pybreaker |
| `CacheAside` | R6's `/cached-item` |
| `HandlerProofs` | the invariants and theorems of `Breaker` and `CacheAside` |
| `Failover`, `FailoverProofs` | R14's `/write` over a Patroni cluster; invariant and theorems |
| `MC...` | the small sets each configuration picks from, and the symmetries |

`OutboxSaga` implements `Saga`, and `OrderStatus` runs its requests over `Saga`. What
`OrderStatus` assumes of the services behind R15's tables is therefore what the
refinement theorem says of them. The databases of `OutboxSaga` keep what they commit;
R15's order database may not, so `OrderStatus` adds failovers to `Saga`'s steps and
assumes nothing of the saga for an order whose row a failover has lost. `Delivery`
says what the three queue users have in common: a message that was taken stays pending
until its work is done or it is buried. Each of them maps its own state to `pending`,
`worked` and `buried` (`INSTANCE Delivery WITH ...`) and has `ImplementsDelivery`
checked, and proved.

The modules leave out wording, logging, HTTP framing, JSON and time. A status, a
message or a title is a model value. Delays have no length: what may happen after a
delay may happen at any time, which covers every setting of the delays. Operators
whose comment begins with "Mutant" are not part of a model. Each is a plausible wrong
version of the definition that follows it (a dropped key, an early acknowledgement, a
missing time to live), kept to show that the properties notice the difference. Every
detailed module has one type invariant, `TypeOK`; the runs check it as a conjunct of
one of their invariants (`IInv` for the saga).

## 3. OutboxSaga: the order saga

**State.** `orders`, `failPayment`, `payments`, `processed` and the two outboxes
are the tables of the two `init.sql` files. Outbox rows are never updated or
deleted and each has a fresh uuid that becomes the event's id, so an event is
named by the position of its row. `relay` and `slot` are a connector's position in
the WAL and where its slot began; `topic`, `committed` and `owner` are a topic of
one partition, its group's offset and the member that owns the partition. `pc`,
`current`, `pos` and `assigned` are a consumer's place in
`for msg in consumer`, the event in its hands, its fetch position, and whether it
*believes* it owns the partition.

**Actions.** A local transaction is one action, since Postgres makes it atomic; the
SELECT on `processed_events` is a separate one, since two transactions can both
pass it before either commits.

| Code | Actions |
|---|---|
| `place_order` | `PlaceOrder`; a second request with the same id violates the primary key and leaves nothing, so it is no step |
| `consume_payment_events` / `main` of the payment service | `Fetch`, `Select`, `Settle` / `Charge`, `Conflict` (the primary key of `processed_events` refuses the loser) |
| kafka-python's iterator | `Join`, `Revoke`, `CommitOffset` (auto-commit runs inside the poll, between two records) |
| what ends and restarts a loop | `Fail` (any exception, before or after the commit), `Kill`, `Restart`; `Reconnects` says whether the order service's thread survives an exception (R15) or not (R11) |
| Debezium, external | `Publish`, `Rewind` (resume from an older stored position), `Recreate` (a fresh slot: `R15/FAILURES-AND-FIXES.md:22-26`) |
| Kafka and operators, external | `Steal` (session timeout of a live owner), `Republish`, `ResetOffsets` |

**Properties.** `CommittedProcessed`: the group never commits past an event whose
transaction has not committed. `ChargedOnce`, `SettledOnce`: an event takes effect
exactly when it is marked processed, however often and to however many processes it is
delivered (`SettledOnce` is a part of `IInv`). `SagaConsistent`: the two databases
agree. `EventNeverLost`: what is not processed is still ahead of the connector, in the
topic after the committed offset, or behind the slot a recreated connector began with
(the only way to lose an event, `R15/FAILURES-AND-FIXES.md:22-26`). `ImplementsSaga`:
every behaviour is one of `Saga`. `EveryOrderDecided`: if some order-service process
stays up and no connector is recreated with a fresh slot, every order placed is
decided.

**Fairness.** Connectors publish and the loops go on: docker restarts the payment
service (`restart: always`, R11's `docker-compose.yml:127`), R15's thread sleeps
five seconds and reconnects, and the group gives the partition of a dead member to
a live one after the session timeout. A connector that is paused is taken to be
resumed. Nothing is assumed of clients, faults or auto-commit.

## 4. RetryQueue: the retrying consumer

**State.** The queues `orders`, `orders-retry-1..3` and `orders-dlq`; for each name in
`Consumers`, a process and its connection: whether the broker's end is open, what is
delivered and not acknowledged (`held`), the frames in flight (`wire`), where
`on_message` is (`step`) and with which copy (`hand`); the files (`effects`,
`processed`, `log`) and the table (`rows`). `tried` records the attempts made at a
poison message, `published` the order of publication and `kills` the faults that ended
a process; only properties read them, besides `Publish`, which a client does once per
message.

**Actions.** One per write to a file, a table or the connection: `WriteRow`,
`LogEffect` (normal), `RetryOrBury` (poison), `EffectAndExit` (crash), `Check`,
`Mark` (crash_idempotent), `Complete` (ordered), `Skip` (any other type),
`SendAck`. A process uses a connection only when it sends, so it finds out late
that the connection is gone (`ConnectionError`). The broker takes frames in order
(`TakePublish`, `TakeAck`), returns what was not acknowledged to the head of the
queue when a connection ends (`Close`, `Cut`), and lets the head of a delay queue go
when its time is over (`Expire`). A publish without confirms and its ack travel on
one channel, in order; that is why `RetryOrBury` before `SendAck` is enough.

**Half-open connections.** `restart: always` (`R7's docker-compose.yml:49`) starts the
next process at once, and nothing tells the broker that the last one has ended. So
`Restart` needs only a container that is free (`Containers` bounds the processes that
run) and a name whose old connection is gone. With more names than containers the next
process runs while an old connection is still open; the broker may take the frames in
it, keep what it had delivered there, and even deliver the next message to it
(`DeliverToDead`) until it sees the end (`Close`).

**Properties.** `BuriedAfterAllAttempts`, `CopiesBounded`, `ImplementsDelivery` (which
no message can be lost without breaking) and `EveryMessageSettles` hold with two
containers. `NothingLost`, `IdempotentOnce` and `CompletedInOrder` are checked with
one. `IdempotentOnce` says what the order of the two writes gives: never two effects,
and none missing at the end unless there was a fault. A process killed between the
mark and the effect leaves the effect undone for ever, while `consumer.py:22-25` says
"applied only once"; with two consumers it may also happen twice. `CompletedInOrder`
allows for what a half-open connection does: the message it holds comes back behind
ones that the next process has completed. At most one message for each killed process
is late in this way, and the others keep their order; a process that ends by itself,
on a lost connection or on a message of type `crash`, leaves no ordered message
behind. Two kills do displace two messages, so a bound of one would be false.
`EveryMessageSettles` is checked without a message of type `crash`, which blocks the
head of the queue for ever (`R7/R7-REPORT.md:26` documents that).

**Left out.** The length of the delays; a restart of the broker, whose queues and
messages are durable. A run has finitely many names and so bounds the half-open
connections that exist at once; the theorems hold for any number of them.

**Fairness.** The broker delivers to some ready consumer, timers end, frames
arrive, the broker sees the end of a connection in the end (missed heartbeats), and a
process runs and is restarted. Nothing makes the broker deliver to a dead process.

## 5. OrderStatus: status reads and polls of R15

**State.** `Saga`'s three variables stand for the databases; `cache` is Valkey;
`req[k]` is the request of client `k` with the row it has read; `answer` its last
response. Only the properties read the rest: `seen[k]`, what the row has been while
the request runs, emptied at its end; `acks`, the number of 200s for an order;
`losses`, how often a failover took its row away; `undone`, the orders whose decision
a failover took back.

**Actions.** `/place-order` is `Insert`, then `Placed`, or `InsertFails`, or
`CommitUnknown` (the commit raised after the database had committed).
`/order-status` is `CacheHit`, or `CacheMiss` (also when Valkey cannot be
reached), `QueryRow`, `Fill`. `/poll-confirmation` is `Poll` up to `MaxAttempts`
times, reading the database itself, and `PollEnds`. `Drop` is an exception outside
a `try` or a killed replica; `Expire` a time to live that ends or an eviction. `Pay`
and `Decide` are `Saga`'s.

**Failovers.** The order database is a Patroni cluster that replicates asynchronously
(`server.py:8-10`; `R15/README.md:134`: "R14 measured real data loss"). `Failover`
promotes a standby that may lack the last commits: each row is as it is or as it was at
some time before (`Before`), at any moment of any request, with no bound on the lag and
each row by itself, which is more than a standby can do, since it lacks a suffix of the
log. Payments are in a database of their own and stay. What a lost
placement leaves in the topics still takes effect: the order may be charged by its old
flag (`StrayPayment`), and a row placed anew under the id is decided by whichever
payment event comes (`StrayDecision`). Both may do more than the services could, so
nothing is claimed of the decisions of an order that was lost once. A decision that a
failover takes back is made again by `Decide`, or never, as nothing obliges the saga to.

**Properties.** `DecisionsTrue`: while the row of an order was not lost, a decision in
the cache, in a handler's hand or in an answer is the one its payment calls for, and
the row has it unless a failover took it back to `CREATED`. `AcknowledgedOnce`: an
order is acknowledged once for each row it has had, so a second 200 takes a failover
that lost the row of the first. `DbAnswersFresh`: a database answer is what the row
was at some moment of the request, an action property of the step that answers.
`CacheForgets`: once the row rests, whatever happened to it before, the cache does not
keep showing another status, although a handler that read the row earlier may fill the
cache later. `RequestsEnd`: every request ends.

**Fairness.** A handler thread goes on and every time to live ends. No client has to
send a request and no order has to be decided.

**Left out.** A former leader that goes on answering beside the new one: HAProxy sends
port 5000 to the node that Patroni calls leader, and neither program is in the
repository.

## 6. OrderPipeline and TaskApi

**OrderPipeline.** `request[e]` is what the client of POST /orders was told;
`topic` holds what SNS has not forwarded; `place[e]` and `receives[e]` are the
message's state in SQS and its receive count, which also numbers its receipt
handles; `batch[c]` is what consumer `c` has received and not handled and `step[c]`
where `OrderProcessingService.process` is with the first of them; `archive` and
`table` are the bucket and the DynamoDB table. `Receive` takes a batch; `Archive`,
`Validate` or `Reject`, `Save` and `Delete` follow the method and the loop around it;
`Fail` is a throwing AWS call, `Kill` a killed instance. `Expire` may come at any
time, so a message can be delivered while an earlier delivery is still at work, and
`Delete` with an old receipt may or may not delete. `SqsPollingConsumer` and
`SqsListenerConsumer` call the same method and delete on success; one model stands
for both. Invalid events are those published to the topic without the controller.

Properties: `BuriedByFaultsOnly`, `ArchivedUnlessFaults`, `ImplementsDelivery` (no
message leaves the queue unprocessed and not buried); under fairness `EventsSettle`,
for accepted orders and for malformed events. The archive is written by the same
attempt as the table, so as many failing deliveries as the queue allows bury an event
that S3 does not record; `ArchivedUnlessFaults` has that bound, where
`event-pipeline/README.md:54-56` has none. Fairness: SNS forwards, visibility timeouts
end, the redrive happens, the scheduled poll (every three seconds) runs, a handler
goes on. Left out: a message that SNS or SQS duplicates on its own (its effect is that
of one more delivery, which `Expire` provides, except that it does not count as a
receive), two archive keys of one millisecond, the lookup of the topic by name.

**TaskApi.** `item[t]` is the row, `used` the ids that were drawn, `req[k]` the
request of client `k` with the item it has read, `answer[k]` the HTTP status. A title
stands for all the fields a PUT sets and a key for the attachment key. `Find` is the
`get` with which `update`, `attachFile` and `delete` begin; `Update` the write on the
condition that the version is the one read; `UpdateLost` the same write with its
response lost, after which the SDK repeats it and meets `Conflict`, a 500; `Delete`
has no condition. Properties: `ImplementsTaskTable`, `NoResurrection`,
`VersionsCount`. `TaskTable` has no versions, no reads of whole items and no lost
responses: `fresh[t]` is the clients whose edit has read the row as it is now, `told`
those that were last told that their edit was made, and an edit changes one field of
the row if its client is in `fresh`, which empties it. `Row`, `Fresh` and `Told` read
that state off `item`, `req` and `answer`; a lost response is an edit that nobody is
told of. No liveness is stated: nothing here waits for anything. A PUT is conditional
on the version the service has just read, never on one the client saw; of two PUTs one
after the other, both succeed.

## 7. Checkout, Breaker, CacheAside and Failover

**Checkout.** `at[r]` is where the handler of checkout `r` is and `answer[r]` what its
client got; `wire` holds the publishes the broker has not read, `queue` its queue;
`step[c]`, `hand[c]` and `linked[c]` a consumer, its message and the broker's end of
its connection; `lines[r]` how often `r` was logged. `Begin`, `CacheLookup`,
`DbQuery`, `Publish` and `Answer` are `do_GET` in its order. `Answer` waits until the
frame has been read: pika's `close()` returns when the broker has answered to it, and
the publish went before on the same connection. That handshake is all that makes the
first half of `AnswersTrue` hold, since the publish is not confirmed. `PublishFails`
and `AnswerFails` are the exceptions. The consumer logs, then acknowledges; `Raise` is
a body that is not a JSON object, or a connection found dead; `Restart` is `restart:
always` (`docker-compose.yml:66`). `LoggedAgainByFault` bounds the repetitions by the
faults. `AnsweredLogged` allows for one thing only: a malformed message goes back to
the head of the queue and every consumer dies of it. Fairness: frames arrive, the
broker delivers to some ready consumer, handlers and consumers run.

**Breaker.** `state`, `counter` and `elapsed` are pybreaker's, whose `call` runs the
query under the breaker's lock: one thread at `"query"`, the others at `"wait"`. The
environment switches `up`. `allowance` counts what the breaker still owes a dead
database: `fail_max` queries after a success, one more for each reset timeout.
`NeverOverAsked` says it never goes below zero, `RefusedOnlyWhenSpent` that nothing is
refused before it is used up; together they pin down the breaker from both
sides for any interleaving. `FailsFast` and `Recovers` are what a client sees in the
end. Fairness: time passes, a query ends, a free lock goes to some waiting thread
(to no particular one), a thread answers. `breaker_state` in an answer is read after
the lock is gone and may be any state; it is left out.

**CacheAside.** One item, threads at the steps of `do_GET`, `cached` for the key.
`gone[t]` is a client that has closed its connection: sending a hit to it raises inside
the `try` around the cache, and the request goes to the database for nobody.
`cost` counts the queries since the key last left the cache; `StampedeBounded` bounds it
by the threads and the faults so far. Fairness: handlers run.

**Failover.** `wal[n]` is a node's log of committed rows and sequence records,
`leader` the node behind HAProxy's port 5000, `next` the id in its memory. `/write` is
`Insert` (an id, and a sequence record when the logged ids are used up), `Commit`,
`Answer`, or `DbError`, which may hide a row that is there. `Replicate`, `Crash`,
`Promote`, `Restart` with pg_rewind (`Rewound`) are the cluster, as the lab drives it.
Of the nodes that are up, one with the longest log is promoted, so a former leader
that comes back in time can be preferred to replicas that know newer rows:
`EverywhereForever` therefore speaks of rows that every node has. `CatchesUp` says
that while a node stays up there is a leader again and again and that node's log
equals the leader's. `UniqueIds` depends on the sequence being logged ahead of the
rows. The reads change nothing; a replica promises no more than that. Fairness:
replicas stream and Patroni promotes. No node has to be restarted.

## 8. Runs, bounds and findings

| Run | Instance | Shows |
|---|---|---|
| `saga_faults` | 1 order, 2 payment and 2 order-service processes, 3 faults of any kind | type correctness, at-least-once, exactly-once effects, agreement, no event lost, the inductive invariant of the proofs, refinement of `Saga`, every order decided |
| `retry_pair` | 2 containers, 3 connections; a poison and a normal message; 1 fault | nothing buried early or multiplied; refinement of `Delivery`; everything settles |
| `retry_single` | 1 container, 3 connections; three ordered messages, a crash, an idempotent and an unknown one; 1 fault besides the crashes and the exit after each first idempotent effect | order kept but for one message per killed process; nothing lost, effect once |
| `status` | 2 clients, 1 order, 2 poll attempts, 1 failover | true decisions, one acknowledgement per row, fresh answers, the cache forgets, requests end |
| `pipeline_faults` | 1 valid and 1 malformed event, 2 consumers, batches of 2, 3 deliveries, 3 faults | no loss, no wrong burial, archive, refinement of `Delivery`, processing and burial in the end |
| `tasks_race` | 3 clients, 1 task, 2 titles, 2 keys, 3 versions | overlapping edits keep both fields, no resurrection, versions count |
| `checkout` | 2 checkouts, 1 malformed message, 2 consumers, 2 faults | a 200 is kept, errors hide orders by faults only, an order logged again once per fault at most, refinement of `Delivery`, answered orders logged |
| `breaker` | 3 threads, `fail_max` 3 | a dead database spared, a live one not refused, both in the end |
| `cache` | 3 threads, 2 faults | fails open, stampede bounded, key cached again |
| `failover` | 3 nodes, 2 writes, 3 faults, 1 id logged ahead | unique ids, rows on every node kept, logs converge, a leader found |

The bounds are the smallest at which each hazard happens. Two processes of a group
make a zombie and an owner; three faults are enough for a duplicate, a zombie and a
crash together; orders share no row, and what events of several orders in one topic do
to each other is covered by the proofs. Two copies of a message under way need one
fault. A third connection for one container lets two dead processes each hold a message
while the third runs. Two clients on one key make a late cache fill or two rival
placements, one failover loses a row or a decision, and different orders share neither
rows nor keys. Three deliveries are the deployed `max_receive_count`, and with
as many faults the exceptional branch of the pipeline's properties happens. Three
clients let an edit, a deletion and another edit overlap; `MaxVersion` cuts longer
histories only. Three threads are a trial, one that waits behind it and one that
answers meanwhile; three faults of `Failover` are two failovers and the return of an
old leader, or a lost reply. For every safety property the theorems of the
next section remove the bounds.

Two runs show where the code does not do what the repository says of it. Each is a
finding in `PROJECT.json`, with the sentence it contradicts.

- `saga_r11_stops`: R11's consumer thread in the order service has no exception
  handler. After one failed connection the process serves requests and decides no
  order. R15's loop, which reconnects, passes the same property in `saga_faults`.
- `failover_gap`: the report on R14 concludes from `max(id)` 530 after row 562 was lost
  that rows 531 to 562 are gone. A `SERIAL` is logged 32 values ahead and a promoted
  leader goes on behind them, so most of those ids were never anybody's; the evidence
  file shows one write.

## 9. Proofs

`OutboxSagaProofs` proves, for any number of orders, processes and faults:
`TypeCorrect`, `AtLeastOnce` (`CommittedProcessed`), `Consistency` (`SagaConsistent`),
`ExactlyOnceCharge`, `ExactlyOnceSettle`, `NothingLost` (`EventNeverLost`) and
`Refinement` (`Spec => Saga!Spec`). They rest on `PartiesAssumption` alone: payers and
confirmers are different processes, `NoMember` is none of them, `Reconnects` is
Boolean, `MaxFaults` is a natural number.

None of the properties is inductive. That a charge is the first one, for example,
depends on the event in a consumer's hands being a real row, on each order having one
row only, and on `processed` and `payments` changing together. The inductive invariant
`IInv` says so in parts: `TypeOK`; `HandsInv` (what a consumer in a transaction holds
is a row); `DataInv` (`OrderRows`, `PaymentRows`, `SettledOnce`, `Verdicts`: tables
and outboxes tell the same story); `OffsetInv` (what is before the committed offset is
processed, and so is what is before the position of a member that believes it owns the
partition, except the event in its hands); `Published` (what a connector has passed
since its slot began is in the topic). Only three actions change tables, so
`DataSteps` reduces the data part to `PlaceOrder`, `Charge` and `Settle`; the offset
part needs that tables and topics only grow (`ProcessedGrows`, `TopicPrefix`).
`Invariance` combines the parts, and the named theorems follow from it. The refinement
maps `Saga`'s variables to the ones of the same name; `ChargeIsFirst` and
`SettleIsVerdict` show that these two steps are `Pay` and `Decide`, and every other
step but `PlaceOrder` stutters. TLC checks `IInv` as an invariant of `saga_faults`.

`HandlerProofs` proves, for any number of threads and any `fail_max` above zero
(`FailMaxAssumption`), `DeadDatabaseSpared` (`NeverOverAsked`) and `LiveDatabaseServed`
(`RefusedOnlyWhenSpent`). Neither is inductive: `NeverOverAsked` would not survive
a second query that fails after the first one has opened the breaker. `LockInv`
excludes that query, and `BudgetInv` says for each state what the rest of the budget is
(`fail_max` minus the counter when closed, one during the trial). Each action has a
lemma. The module extends `CacheAside` and `Breaker` at once, which is why `Breaker`'s
own definitions carry its name (`BreakerInit`, `BreakerNext`, `BreakerTypeOK`); the two
share nothing but `Handlers`. Of `CacheAside` it proves `CacheFailsOpen` (`FailOpen`)
and `StampedeIsBounded` (`StampedeBounded`) by an account (`CostInv`): queries made,
threads that may still make one and faults that owe one.

`RetryQueueProofs` proves, for any messages, consumers and faults: `NothingIsLost`
(`NothingLost`), `BuriedAfterFourFailures` (`BuriedAfterAllAttempts`),
`DeliversAtLeastOnce` (`ImplementsDelivery`), `CopiesOnlyByFaults` (`CopiesBounded`),
`EffectOnce` (`IdempotentOnce`) and `CompletionOrder` (`CompletedInOrder`). The last
two have the hypothesis `Containers = 1`, with any number of half-open connections: R7
runs one container, and both sentences are false of two, which the lab itself shows
for the order (R7-08, with two competing consumers). `TypesAssumption` says that a
message has one type. Nothing can be lost because of what a connection holds at each
moment, so the core of `IInv` is `LinkInv`: an open connection carries nothing, or the
copy that follows the delivered one and perhaps its ack, or the ack alone, and then
the delivered copy is answered for (its work is done, or a copy with a higher attempt
is at rest somewhere). `CopyInv` says that a header counts attempts that were made,
`LostInv` that a published message is at rest or done. Of several copies of a poison
message the one with the highest attempt is the one that may not go. `Flow` classifies
what a step does to the queues as a whole, and the refinement is read off it. For
`EffectOnce` three more parts say where the key and the effect can differ (`CutInv`,
`StageInv`, `OnceInv`). For `CompletionOrder` `OrderInv` says that there is a set
`late` of messages without which all is in order (`InOrder`): the queue is sorted by
the first publication, what is delivered to the running process comes before the
queue, and nothing waiting or in hand comes before what is logged; it needs that a
requeued copy goes to the head. What a connection of a dead process holds is not part
of that order: when it closes, its message joins `late`. The count is closed by
`Orphans`, the half-open connections that may yet bring an ordered message back:
`late` and the orphans together are no more than the kills, since a kill makes one
orphan and a close turns one into one late message (`OrphanStep`, `LateAtClose`).
`CopiesOnlyByFaults` is an account (`AccountInv`): besides the copies at rest it
counts what each connection may still add to them without another fault, namely one
for a delivered copy that no resent copy has replaced, and two when its process is
down and the resent copy is still in flight. A process that is killed between the two
frames pays the second one with its fault.

`OrderStatusProofs` proves `NoFalseDecision` (`DecisionsTrue`), `OneAcknowledgement`
(`AcknowledgedOnce`) and `FreshAnswers` (`DbAnswersFresh`) for any orders, clients,
attempts and failovers. `RowsPaid` says that a decided row agrees with its payment as
long as it was not lost. `AckInv` is an account: the 200s of an order and the requests
whose insert has committed are no more than its losses and the row that is there.
`SeenInv` says that what a handler has read is among what the row has been while its
request ran. `FreshAnswers` has the hypothesis `MaxAttempts # 0`: with
`RETRY_MAX_ATTEMPTS=0` a poll never reads the row and answers that there is no such
order. That came out of the proof; the deployed value is not 0.

`OrderPipelineProofs` proves `BurialNeedsFaults` (`BuriedByFaultsOnly`),
`ArchiveNeedsFaults` (`ArchivedUnlessFaults`) and `DeliversAtLeastOnce`, for any events,
consumers, batch sizes, deliveries and faults; `EventsAssumption` says that no event is
both valid and malformed. The bounds are an account (`CountInv`): an event with
something left to do was received no more often than there are consumers that hold it
and faults that took it from one. `PlaceInv` and `HandInv` tie the steps of `process()`
to what is in the archive and the table.

`TaskApiProofs` proves `TableImplemented` (`ImplementsTaskTable`), `DeletedForGood`
(`NoResurrection`) and `EveryChangeCounted` (`VersionsCount`), and `EditsKeepEachOther`,
which says of the rows alone that no step changes both fields of a task. The condition
of a write compares numbers only; `ReadInv` says why that is enough: while the version
is the one read, the whole item is the one read. For the refinement there is one lemma
for each kind of step (`CreateMaps`, `FindMaps`, `EditMaps`, `DeleteMaps`,
`LeaveMaps`). `FreshNoMore` is their core: a version that a row gets is higher than all
that were read of it, so after an edit or a deletion no edit under way can still be
made. `TitleInv` tells a stored row from an absent one when versions are not seen.

`CheckoutProofs` proves `AnswersAreTrue` (`AnswersTrue`), `LoggedAgainOnlyByFault`
(`LoggedAgainByFault`) and `DeliversAtLeastOnce`. `UniqueInv` says that the broker has
one copy of an order, and `CountInv` that its log lines and the consumers that will log
it without a connection are no more than the faults and one, or the faults while the
broker may still deliver it.

`FailoverProofs` proves `KeysNeverMeet` (`UniqueIds`) and `NothingReplicatedIsLost`
(`EverywhereForever`) for any nodes, writes, ids logged in advance and faults. A crash,
a promotion or a rewind leaves a node with the beginning of a log that some node had,
so `IInv` speaks of logs in a way that beginnings inherit. `LogsInv` says that the rows
of a log have ids of their own, each logged in advance before its row, and that two
logs with a row in common agree up to it. `FreshInv` says that a write is in no log
before its commit, so a commit on one leader cannot meet a copy from another.
`PendingInv` says that the id of an `INSERT` that waits for its commit is behind the
leader's memory and its log, and is nobody else's. A promoted leader, which goes on
behind the last logged id, cannot give the id of a surviving row again. What a
log's last sequence record is follows from least and greatest elements of sets of
positions (`Least`, `Greatest`), which rest on the well-foundedness of the naturals.

All these invariants were checked by TLC before they were proved.

Only model-checked: `EveryOrderDecided` and the other liveness properties (liveness
under fairness is out of TLAPS's reach). Every safety property of the passing runs is
stated by a theorem.

## 10. Plan

Done, in this order: `Saga`, `OutboxSaga`, its proofs, `RetryQueue`, `OrderStatus`,
`OrderPipeline`, `TaskApi`, `Delivery` and its three refinements, `Checkout`, `Breaker`
and its proofs, `CacheAside`, `Failover`; then the proofs about `OrderStatus`,
`TaskApi`, `OrderPipeline`, `Checkout`, `CacheAside`, `RetryQueue` and `Failover`;
last `TaskTable` and its refinement. No part of the repository that keeps state of its
own is left without a module, and no safety property of a run without a theorem.

## 11. What is not modelled, and why

- R14's `/read`, `/read-replica` and `/whoami`, R9's `/breaker-status`: they change
  nothing. R14's `CREATE TABLE IF NOT EXISTS` runs in every request, and two first
  requests can collide in PostgreSQL's catalogue; the model starts with the table.
- The health, version and database-probe servers, the connectivity test and the
  attachment URLs: a request changes nothing that another one reads.
- Restarts, scheduling and routing by ECS, Kubernetes, Traefik, HAProxy and Envoy, and
  leader election by Patroni and Sentinel: the repository configures them. The
  modules take from them only what fairness needs (a process comes back).
- Kafka's replication, Debezium's snapshot, RabbitMQ's and SQS's storage: taken as
  they are documented, with the faults listed above.
- Tracing, metrics, logs, the creation of schemas, the parsing of JSON and of paths:
  nothing a property speaks of depends on them.
