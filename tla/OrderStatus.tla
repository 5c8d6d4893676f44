---------------------------- MODULE OrderStatus -----------------------------
(***************************************************************************)
(* The HTTP side of labs/r15-capstone/order-service: placing an order,     *)
(* reading its status through a cache that is filled on a miss and expires *)
(* by itself, and polling for its confirmation.  Requests run on threads   *)
(* of their own in any number of replicas and share nothing but the        *)
(* database and the cache.                                                 *)
(*                                                                         *)
(* The database side is the abstract saga: OutboxSaga is shown to          *)
(* implement it, so all that a request can see of payments, outboxes,      *)
(* topics and consumers is that an order it placed is decided some time    *)
(* later.  Requests interleave with those decisions.                       *)
(*                                                                         *)
(* The order database is a Patroni cluster behind HAProxy that replicates  *)
(* asynchronously: a failover promotes a standby that may not have the     *)
(* last commits, so a row or its decision can be taken back after it was   *)
(* answered or cached.  Payments are in a database of their own, which     *)
(* keeps them.                                                             *)
(***************************************************************************)
EXTENDS Naturals, FiniteSets

CONSTANTS
  Orders,           \* order ids
  Clients,          \* clients, each with one request at a time
  MaxAttempts,      \* RETRY_MAX_ATTEMPTS
  MaxFailovers      \* bound on failovers of the order database

ASSUME AttemptsAssumption == MaxAttempts \in Nat
ASSUME FailoversAssumption == MaxFailovers \in Nat /\ IsFiniteSet(Clients)

VARIABLES
  orders, failPayment, payments,    \* the saga
  cache,            \* key order-status:<id> -> cached status, "MISS": no key
  req,              \* req[k]: the request of client k, with what it has read
  answer,           \* answer[k]: the response to k's last request
  seen,             \* seen[k]: what the row has been while k's request ran
  acks,             \* acks[o]: place-order requests answered 200, up to Many
  failovers,        \* failovers so far
  losses,           \* losses[o]: failovers that took the row of o away
  undone            \* orders whose decision, but not row, a failover took

saga == <<orders, failPayment, payments>>
cluster == <<failovers, losses, undone>>
vars == <<orders, failPayment, payments, cache, req, answer, seen, acks,
          failovers, losses, undone>>

Db == INSTANCE Saga WITH orders <- orders, payments <- payments

Statuses == {"NONE", "CREATED", "CONFIRMED", "CANCELLED"}
Decisions == {"CONFIRMED", "CANCELLED"}
Operations == {"place", "status", "poll"}
Many == MaxFailovers + 2                \* more than can be told 200

Requests ==
  [op : Operations, order : Orders, row : Statuses, tries : 0 .. MaxAttempts,
   at : {"done", "insert", "committed", "cache", "query", "fill"}]

\* No answer: the connection closed without a response.
Answers == [source : {"none", "db", "cache", "error"}, status : Statuses]
NoAnswer == [source |-> "none", status |-> "NONE"]
Error == [source |-> "error", status |-> "NONE"]
FromDb(status) == [source |-> "db", status |-> status]

\* A request that is over, of which nothing is left but which order it was about.
Over(o) ==
  [op |-> "status", order |-> o, row |-> "NONE", tries |-> 0, at |-> "done"]

Init ==
  /\ Db!Init
  /\ cache = [o \in Orders |-> "MISS"]
  /\ req \in [Clients -> {Over(o) : o \in Orders}]
  /\ answer = [k \in Clients |-> NoAnswer]
  /\ seen = [k \in Clients |-> {}]
  /\ acks = [o \in Orders |-> 0]
  /\ failovers = 0 /\ losses = [o \in Orders |-> 0] /\ undone = {}

Order(k) == req[k].order
At(k, op, at) == req[k].op = op /\ req[k].at = at

\* What the row becomes is seen to happen by the requests that are under way.
RowsSeen ==
  seen' = [k \in Clients |->
             IF req[k].at = "done" THEN seen[k] ELSE seen[k] \cup {orders'[Order(k)]}]

FirstStep(op) ==
  CASE op = "place"  -> "insert"
    [] op = "status" -> "cache"
    [] op = "poll"   -> "query"

\* do_GET dispatches on the path.
Request(k, op, o) ==
  /\ req[k].at = "done"
  /\ req' = [req EXCEPT ![k] = [op |-> op, order |-> o, row |-> "NONE",
                                tries |-> 0, at |-> FirstStep(op)]]
  /\ seen' = [seen EXCEPT ![k] = {orders[o]}]
  /\ answer' = [answer EXCEPT ![k] = NoAnswer]
  /\ UNCHANGED <<saga, cache, acks, cluster>>

Finish(k, a) ==
  /\ req' = [req EXCEPT ![k] = Over(Order(k))]
  /\ answer' = [answer EXCEPT ![k] = a]
  /\ seen' = [seen EXCEPT ![k] = {}]
  /\ UNCHANGED cluster

-----------------------------------------------------------------------------
\* /place-order

\* Mutant of Insert: INSERT ... ON CONFLICT DO NOTHING.
InsertIgnore(k, fail) ==
  /\ At(k, "place", "insert")
  /\ \/ Db!Place(Order(k), fail)
     \/ orders[Order(k)] # "NONE" /\ UNCHANGED saga
  /\ req' = [req EXCEPT ![k].at = "committed"]
  /\ RowsSeen
  /\ UNCHANGED <<cache, answer, acks, cluster>>

\* The transaction of place_order commits.
Insert(k, fail) ==
  /\ At(k, "place", "insert")
  /\ Db!Place(Order(k), fail)
  /\ req' = [req EXCEPT ![k].at = "committed"]
  /\ RowsSeen
  /\ UNCHANGED <<cache, answer, acks, cluster>>

\* The primary key, or a database that cannot be reached: 500 and no row.
InsertFails(k) ==
  /\ At(k, "place", "insert")
  /\ Finish(k, Error)
  /\ UNCHANGED <<saga, cache, acks>>

Placed(k) ==
  /\ At(k, "place", "committed")
  /\ Finish(k, FromDb("CREATED"))
  /\ acks' = [acks EXCEPT ![Order(k)] = IF @ < Many THEN @ + 1 ELSE @]
  /\ UNCHANGED <<saga, cache>>

\* commit() or close() raises after the database has committed: 500 and a row.
CommitUnknown(k) ==
  /\ At(k, "place", "committed")
  /\ Finish(k, Error)
  /\ UNCHANGED <<saga, cache, acks>>

-----------------------------------------------------------------------------
\* /order-status

Key(o) == o

CacheHit(k) ==
  /\ At(k, "status", "cache")
  /\ cache[Key(Order(k))] # "MISS"
  /\ Finish(k, [source |-> "cache", status |-> cache[Key(Order(k))]])
  /\ UNCHANGED <<saga, cache, acks>>

\* A miss, or a cache that cannot be reached: the request goes on either way.
CacheMiss(k) ==
  /\ At(k, "status", "cache")
  /\ req' = [req EXCEPT ![k].at = "query"]
  /\ UNCHANGED <<saga, cache, answer, seen, acks, cluster>>

\* Mutant of Row: the row is looked up in the cache first.
RowCached(k) ==
  IF cache[Key(Order(k))] = "MISS" THEN orders[Order(k)] ELSE cache[Key(Order(k))]

\* Mutant of Row: the status the payment calls for.
RowFromPayment(k) ==
  LET paid == payments[Order(k)] IN
  IF paid = "NONE" THEN orders[Order(k)] ELSE Db!Verdict(paid)

\* get_order_status_from_db
Row(k) == orders[Order(k)]

NotFound(k) == Row(k) = "NONE"

QueryRow(k) ==
  /\ At(k, "status", "query")
  /\ IF NotFound(k)
       THEN Finish(k, FromDb("NONE"))
       ELSE /\ req' = [req EXCEPT ![k].at = "fill", ![k].row = Row(k)]
            /\ UNCHANGED <<answer, seen, cluster>>
  /\ UNCHANGED <<saga, cache, acks>>

\* cache_set, which may fail without a word, and the response.
Fill(k) ==
  /\ At(k, "status", "fill")
  /\ \/ cache' = [cache EXCEPT ![Key(Order(k))] = req[k].row]
     \/ UNCHANGED cache
  /\ Finish(k, FromDb(req[k].row))
  /\ UNCHANGED <<saga, acks>>

\* Mutant of Expire: SET instead of SETEX.
NeverExpire(o) == FALSE /\ UNCHANGED vars

\* The TTL ends, or the cache evicts the key for want of memory.
Expire(o) ==
  /\ cache[o] # "MISS"
  /\ cache' = [cache EXCEPT ![o] = "MISS"]
  /\ UNCHANGED <<saga, req, answer, seen, acks, cluster>>

-----------------------------------------------------------------------------
\* /poll-confirmation

Satisfied(status) == status = "CONFIRMED"

Polling(k) == req[k].tries < MaxAttempts /\ ~Satisfied(req[k].row)

\* Mutant of Poll: the attempt is not counted.
PollUncounted(k) ==
  /\ At(k, "poll", "query")
  /\ Polling(k)
  /\ req' = [req EXCEPT ![k].row = Row(k)]
  /\ UNCHANGED <<saga, cache, answer, seen, acks, cluster>>

Poll(k) ==
  /\ At(k, "poll", "query")
  /\ Polling(k)
  /\ req' = [req EXCEPT ![k].row = Row(k), ![k].tries = @ + 1]
  /\ UNCHANGED <<saga, cache, answer, seen, acks, cluster>>

PollEnds(k) ==
  /\ At(k, "poll", "query")
  /\ ~Polling(k)
  /\ Finish(k, FromDb(req[k].row))
  /\ UNCHANGED <<saga, cache, acks>>

-----------------------------------------------------------------------------
\* A query outside a try block raises, or the replica is killed.
Drop(k) ==
  /\ req[k].at # "done"
  /\ Finish(k, NoAnswer)
  /\ UNCHANGED <<saga, cache, acks>>

\* payment-service, the consumer thread and the database cluster.

Pay(o) == Db!Pay(o) /\ RowsSeen /\ UNCHANGED <<cache, req, answer, acks, cluster>>
Decide(o) == Db!Decide(o) /\ RowsSeen /\ UNCHANGED <<cache, req, answer, acks, cluster>>

\* What a row may have been when the standby last heard of it.
Before(status) ==
  {"NONE", status} \cup (IF status \in Decisions THEN {"CREATED"} ELSE {})

\* The leader dies and a standby that is behind is promoted.  Replication has
\* no bound on its lag here, so each row may be as it was at any time before.
Failover ==
  /\ failovers < MaxFailovers /\ failovers' = failovers + 1
  /\ orders' \in [Orders -> Statuses] /\ \A o \in Orders : orders'[o] \in Before(orders[o])
  /\ losses' = [o \in Orders |->
                  IF orders'[o] # orders[o] /\ orders'[o] = "NONE" THEN losses[o] + 1
                                                               ELSE losses[o]]
  /\ undone' = undone \cup {o \in Orders : orders[o] \in Decisions /\ orders'[o] = "CREATED"}
  /\ RowsSeen
  /\ UNCHANGED <<failPayment, payments, cache, req, answer, acks>>

\* Events of a placement whose row is lost are still in the topics: the order
\* may be charged by its old flag, and a row placed anew under the same id is
\* decided by whichever payment event comes, since neither consumer looks at
\* the row it finds.
StrayPayment(o) ==
  /\ losses[o] > 0 /\ payments[o] = "NONE"
  /\ \E fail \in BOOLEAN : payments' = [payments EXCEPT ![o] = Db!Result(fail)]
  /\ UNCHANGED <<orders, failPayment, cache, req, answer, seen, acks, cluster>>

StrayDecision(o) ==
  /\ losses[o] > 0 /\ orders[o] # "NONE" /\ payments[o] # "NONE"
  /\ \E decision \in Decisions : orders' = [orders EXCEPT ![o] = decision]
  /\ RowsSeen
  /\ UNCHANGED <<failPayment, payments, cache, req, answer, acks, cluster>>

Serve(k) ==
  \/ \E fail \in BOOLEAN : Insert(k, fail)
  \/ InsertFails(k) \/ Placed(k) \/ CommitUnknown(k)
  \/ CacheHit(k) \/ CacheMiss(k) \/ QueryRow(k) \/ Fill(k)
  \/ Poll(k) \/ PollEnds(k)

Next ==
  \/ \E k \in Clients :
       \/ \E op \in Operations, o \in Orders : Request(k, op, o)
       \/ Serve(k) \/ Drop(k)
  \/ \E o \in Orders : Expire(o) \/ Pay(o) \/ Decide(o) \/ StrayPayment(o) \/ StrayDecision(o)
  \/ Failover

Spec == Init /\ [][Next]_vars

\* A handler thread runs and a key's time to live passes; nobody has to send a
\* request, and no order has to be decided.
Fairness ==
  /\ \A k \in Clients : WF_vars(Serve(k))
  /\ \A o \in Orders : WF_vars(Expire(o))

LiveSpec == Spec /\ Fairness

-----------------------------------------------------------------------------

\* Variables keep their types; the cache never holds an order that is missing.
TypeOK ==
  /\ orders \in [Orders -> Statuses]
  /\ failPayment \in [Orders -> BOOLEAN]
  /\ payments \in [Orders -> {"NONE", "COMPLETED", "FAILED"}]
  /\ cache \in [Orders -> {"MISS", "CREATED"} \cup Decisions]
  /\ req \in [Clients -> Requests]
  /\ answer \in [Clients -> Answers]
  /\ seen \in [Clients -> SUBSET Statuses]
  /\ acks \in [Orders -> 0 .. Many]
  /\ failovers \in 0 .. MaxFailovers /\ losses \in [Orders -> Nat] /\ undone \subseteq Orders

\* What a client may be told of order o as long as its row has not been lost:
\* a decision is the one the payment calls for, and the row has it unless a
\* failover has taken it back.
Agrees(o, status) ==
  status \in Decisions =>
    /\ payments[o] # "NONE" /\ status = Db!Verdict(payments[o])
    /\ orders[o] = status \/ (o \in undone /\ orders[o] = "CREATED")

\* No decision is reported before it is made: one found in the cache, in a
\* handler's hand or in a response agrees with the payment for good, and with
\* the row too but for what a failover has undone, with every variable of its
\* type (server.py:178-213).
DecisionsTrue ==
  /\ TypeOK
  /\ \A o \in Orders : losses[o] = 0 => Agrees(o, cache[o])
  /\ \A k \in Clients : losses[Order(k)] = 0 =>
       Agrees(Order(k), req[k].row) /\ Agrees(Order(k), answer[k].status)

Exists(o) == IF orders[o] = "NONE" THEN 0 ELSE 1

\* Of all requests that place the same order, at the same time or later, one is
\* told 200 for each row there has been: a second 200 takes a failover that has
\* lost the row of the first (place_order).
AcknowledgedOnce == \A o \in Orders : acks[o] <= losses[o] + Exists(o)

\* A response that says source db shows what the row was at some moment while
\* the request ran, failovers or not (do_GET, from its first query to _write).
DbAnswersFresh ==
  [][\A k \in Clients :
       answer'[k] # answer[k] /\ answer'[k].source = "db" =>
         answer'[k].status \in seen[k]]_vars

\* Handlers that read the row before it changed can fill the cache long after;
\* still, once the row rests the cache does not show another status for ever.
CacheForgets ==
  \A o \in Orders, s \in Statuses :
    <>[](orders[o] = s) => <>[](cache[o] \in {"MISS", s})

\* Every request ends, polls included: no client waits for ever.
RequestsEnd == \A k \in Clients : []<>(req[k].at = "done")
=============================================================================
