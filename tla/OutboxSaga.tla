----------------------------- MODULE OutboxSaga -----------------------------
(***************************************************************************)
(* The order saga of labs/r11-outbox-saga and labs/r15-capstone: an order  *)
(* service and a payment service, each with its own Postgres database,     *)
(* joined by two outbox tables that Debezium relays to two single-partition*)
(* Kafka topics.                                                           *)
(*                                                                         *)
(* Every outbox row carries a fresh uuid which is also the id of the event *)
(* made from it.  Outbox rows are never updated or deleted, so an event is *)
(* named here by the position of its row in the outbox and its payload is  *)
(* that row.                                                               *)
(*                                                                         *)
(* A consumer is one process (payment-service) or one background thread    *)
(* (order-service).  A local transaction is one action because Postgres    *)
(* makes it atomic; the SELECT on processed_events is a separate action,   *)
(* because two transactions may both pass it before either commits.        *)
(***************************************************************************)
EXTENDS Naturals, Sequences

CONSTANTS
  Orders,           \* the order ids clients may use
  Payers,           \* processes running payment-service/consumer.py
  Confirmers,       \* order-service processes, each with one consumer thread
  NoMember,         \* no process owns the partition
  Reconnects,       \* TRUE: the consumer loop of R15, FALSE: that of R11
  MaxFaults         \* bound on the faults of one behaviour

Consumers == Payers \cup Confirmers

ASSUME PartiesAssumption ==
  /\ Payers \cap Confirmers = {}
  /\ NoMember \notin Consumers
  /\ Reconnects \in BOOLEAN
  /\ MaxFaults \in Nat

Aggregates == {"Order", "Payment"}     \* outbox.event.Order, outbox.event.Payment

VARIABLES
  orders,           \* orders.status per order id ("NONE": no row)
  failPayment,      \* orders.fail_payment per order id
  payments,         \* payments.status per order id ("NONE": no row)
  orderOutbox,      \* outbox rows of order-db, in commit order
  paymentOutbox,    \* outbox rows of payment-db, in commit order
  relay,            \* per outbox, how far its connector has read the WAL
  slot,             \* per outbox, where the connector's replication slot began
  topic,            \* per topic, the event ids published, in offset order
  committed,        \* per topic, the group's committed offset
  owner,            \* per topic, the group member the broker assigned it to
  processed,        \* per topic, the processed_events table of its consumers
  pc,               \* consumer -> where its loop is
  current,          \* consumer -> id of the event in its hands (0: none)
  pos,              \* consumer -> offset its next fetch reads
  assigned,         \* consumer -> does it believe it owns the partition?
  faults            \* how many faults have happened

databases == <<orders, failPayment, payments, orderOutbox, paymentOutbox, processed>>
broker    == <<topic, committed, owner>>
loops     == <<pc, current, pos, assigned>>
connector == <<relay, slot>>
vars == <<orders, failPayment, payments, orderOutbox, paymentOutbox, processed, relay,
          slot, topic, committed, owner, pc, current, pos, assigned, faults>>

-----------------------------------------------------------------------------
\* What an outbox row's payload carries besides its event id.
OrderRow   == [order : Orders, fail : BOOLEAN]
PaymentRow == [order : Orders, status : {"COMPLETED", "FAILED"}]

Rows(a) == IF a = "Order" THEN orderOutbox ELSE paymentOutbox

\* The topic a consumer subscribes to; its group is the set of its subscribers.
Reads(m) == IF m \in Payers THEN "Order" ELSE "Payment"

PaymentStatus(fail) == IF fail THEN "FAILED" ELSE "COMPLETED"

\* Mutant: the status of the payment is not looked at.
NewStatusUnread(status) == "CONFIRMED"

NewStatus(status) == IF status = "COMPLETED" THEN "CONFIRMED" ELSE "CANCELLED"

\* The order a consumer's event is about.
Subject(m) == Rows(Reads(m))[current[m]].order

Decided(o) == orders[o] \in {"CONFIRMED", "CANCELLED"}

Init ==
  /\ orders        = [o \in Orders |-> "NONE"]
  /\ failPayment   = [o \in Orders |-> FALSE]
  /\ payments      = [o \in Orders |-> "NONE"]
  /\ orderOutbox   = << >>
  /\ paymentOutbox = << >>
  /\ relay     = [a \in Aggregates |-> 0]
  /\ slot      = [a \in Aggregates |-> 0]
  /\ topic     = [a \in Aggregates |-> << >>]
  /\ committed = [a \in Aggregates |-> 0]
  /\ owner     = [a \in Aggregates |-> NoMember]
  /\ processed = [a \in Aggregates |-> {}]
  /\ pc        = [m \in Consumers |-> "poll"]
  /\ current   = [m \in Consumers |-> 0]
  /\ pos       = [m \in Consumers |-> 0]
  /\ assigned  = [m \in Consumers |-> FALSE]
  /\ faults    = 0

-----------------------------------------------------------------------------
(* The order service's request path.                                       *)

\* Mutant: INSERT ... ON CONFLICT DO UPDATE, a second request places it again.
PlaceOrderUpsert(o, fail) ==
  /\ orders' = [orders EXCEPT ![o] = "CREATED"]
  /\ failPayment' = [failPayment EXCEPT ![o] = fail]
  /\ orderOutbox' = Append(orderOutbox, [order |-> o, fail |-> fail])
  /\ UNCHANGED <<payments, paymentOutbox, processed, connector, broker, loops, faults>>

\* GET /place-order: the order row and the outbox row in one transaction.  A
\* second request with the same id violates the primary key of orders and its
\* transaction leaves nothing behind, so only the first one is an action.
PlaceOrder(o, fail) ==
  /\ orders[o] = "NONE"
  /\ orders' = [orders EXCEPT ![o] = "CREATED"]
  /\ failPayment' = [failPayment EXCEPT ![o] = fail]
  /\ orderOutbox' = Append(orderOutbox, [order |-> o, fail |-> fail])
  /\ UNCHANGED <<payments, paymentOutbox, processed, connector, broker, loops, faults>>

-----------------------------------------------------------------------------
(* Debezium: one connector per outbox, publishing rows in WAL order.       *)

\* Mutant: the WAL position is stored first, so a crash loses the event.
PublishAtMostOnce(a) ==
  /\ relay[a] < Len(Rows(a))
  /\ relay' = [relay EXCEPT ![a] = @ + 1]
  /\ topic' \in {topic, [topic EXCEPT ![a] = Append(@, relay[a] + 1)]}
  /\ UNCHANGED <<databases, slot, committed, owner, loops, faults>>

Publish(a) ==
  /\ relay[a] < Len(Rows(a))
  /\ relay' = [relay EXCEPT ![a] = @ + 1]
  /\ topic' = [topic EXCEPT ![a] = Append(@, relay[a] + 1)]
  /\ UNCHANGED <<databases, slot, committed, owner, loops, faults>>

-----------------------------------------------------------------------------
(* The consumer loop, the same in both services up to its transaction.     *)

\* A live member believes it owns the partition, and the broker agrees.
Held(a) == owner[a] # NoMember /\ assigned[owner[a]]

\* Mutant: auto_offset_reset="latest" for every new member.
JoinLatest(m) ==
  /\ pc[m] = "poll"
  /\ ~assigned[m]
  /\ ~Held(Reads(m))
  /\ owner' = [owner EXCEPT ![Reads(m)] = m]
  /\ assigned' = [assigned EXCEPT ![m] = TRUE]
  /\ pos' = [pos EXCEPT ![m] = Len(topic[Reads(m)])]
  /\ UNCHANGED <<databases, connector, topic, committed, pc, current, faults>>

\* The broker hands the partition to a polling member when no live member
\* holds it; the member starts from the committed offset.
Join(m) ==
  /\ pc[m] = "poll"
  /\ ~assigned[m]
  /\ ~Held(Reads(m))
  /\ owner' = [owner EXCEPT ![Reads(m)] = m]
  /\ assigned' = [assigned EXCEPT ![m] = TRUE]
  /\ pos' = [pos EXCEPT ![m] = committed[Reads(m)]]
  /\ UNCHANGED <<databases, connector, topic, committed, pc, current, faults>>

\* A member that lost the partition learns of it between two records.
Revoke(m) ==
  /\ pc[m] = "poll"
  /\ assigned[m]
  /\ owner[Reads(m)] # m
  /\ assigned' = [assigned EXCEPT ![m] = FALSE]
  /\ UNCHANGED <<databases, connector, broker, pc, current, pos, faults>>

\* for msg in consumer: the iterator moves its position, then yields.
Fetch(m) ==
  /\ pc[m] = "poll"
  /\ assigned[m]
  /\ pos[m] < Len(topic[Reads(m)])
  /\ current' = [current EXCEPT ![m] = topic[Reads(m)][pos[m] + 1]]
  /\ pos' = [pos EXCEPT ![m] = @ + 1]
  /\ pc' = [pc EXCEPT ![m] = "select"]
  /\ UNCHANGED <<databases, connector, broker, assigned, faults>>

\* Mutant: auto-commit on a timer of its own, whatever the loop is doing.
CommitOffsetAnytime(m) ==
  /\ assigned[m]
  /\ owner[Reads(m)] = m
  /\ committed[Reads(m)] # pos[m]
  /\ committed' = [committed EXCEPT ![Reads(m)] = pos[m]]
  /\ UNCHANGED <<databases, connector, topic, owner, loops, faults>>

\* Auto-commit runs inside the iterator's poll, so it never covers a record
\* whose loop body has not finished; the broker accepts only the owner's.
CommitOffset(m) ==
  /\ pc[m] = "poll"
  /\ assigned[m]
  /\ owner[Reads(m)] = m
  /\ committed[Reads(m)] # pos[m]
  /\ committed' = [committed EXCEPT ![Reads(m)] = pos[m]]
  /\ UNCHANGED <<databases, connector, topic, owner, loops, faults>>

\* SELECT 1 FROM processed_events: a known event is skipped.
Select(m) ==
  /\ pc[m] = "select"
  /\ pc' = [pc EXCEPT ![m] = IF current[m] \in processed[Reads(m)] THEN "poll" ELSE "write"]
  /\ UNCHANGED <<databases, connector, broker, current, pos, assigned, faults>>

\* Mutant: no primary key, the SELECT alone is trusted.
NoPrimaryKey(m) == TRUE

\* processed_events' primary key lets one transaction per event commit.
Unprocessed(m) == current[m] \notin processed[Reads(m)]

\* The effect of INSERT INTO processed_events and the commit, in both loops.
Finish(m) ==
  /\ pc[m] = "write"
  /\ Unprocessed(m)
  /\ processed' = [processed EXCEPT ![Reads(m)] = @ \cup {current[m]}]
  /\ pc' = [pc EXCEPT ![m] = "poll"]

\* payment-service: payment row (ON CONFLICT DO NOTHING), outbox row and
\* processed_events row in one transaction.
Charge(m) ==
  /\ m \in Payers
  /\ Finish(m)
  /\ LET o == Subject(m)
         status == PaymentStatus(orderOutbox[current[m]].fail)
     IN  /\ payments' = [payments EXCEPT ![o] = IF @ = "NONE" THEN status ELSE @]
         /\ paymentOutbox' = Append(paymentOutbox, [order |-> o, status |-> status])
  /\ UNCHANGED <<orders, failPayment, orderOutbox, connector, broker, current, pos, assigned, faults>>

\* order-service: status update and processed_events row in one transaction.
Settle(m) ==
  /\ m \in Confirmers
  /\ Finish(m)
  /\ LET row == paymentOutbox[current[m]]
     IN  orders' = [orders EXCEPT ![row.order] =
                      IF @ = "NONE" THEN @ ELSE NewStatus(row.status)]
  /\ UNCHANGED <<failPayment, payments, orderOutbox, paymentOutbox, connector, broker,
                 current, pos, assigned, faults>>

-----------------------------------------------------------------------------
(* What ends a loop, and what starts it again.                             *)

\* Mutant: nothing restarts or reconnects a consumer.
StoppedForGood(m) == "dead"

\* An exception leaves the loop: payment-service exits and docker restarts it,
\* R15's order-service reconnects, R11's consumer thread is gone for good.
Stopped(m) == IF m \in Payers \/ Reconnects THEN "down" ELSE "dead"

Stop(m, state) ==
  /\ pc[m] \in {"poll", "select", "write"}
  /\ pc' = [pc EXCEPT ![m] = state]
  /\ assigned' = [assigned EXCEPT ![m] = FALSE]
  /\ current' = [current EXCEPT ![m] = 0]

\* The INSERT INTO processed_events of a transaction that passed the SELECT
\* but lost the race: UniqueViolation, everything in it is rolled back.
Conflict(m) ==
  /\ pc[m] = "write"
  /\ ~Unprocessed(m)
  /\ Stop(m, Stopped(m))
  /\ UNCHANGED <<databases, connector, broker, pos, faults>>

\* docker restarts payment-service (restart: always); R15 sleeps 5 seconds.
Restart(m) ==
  /\ pc[m] = "down"
  /\ pc' = [pc EXCEPT ![m] = "poll"]
  /\ UNCHANGED <<databases, connector, broker, current, pos, assigned, faults>>

Fault == faults < MaxFaults /\ faults' = faults + 1

\* Any exception: the database or the broker is unreachable, a pooled
\* connection is cut, before or after the transaction committed.
Fail(m) ==
  /\ Fault
  /\ Stop(m, Stopped(m))
  /\ UNCHANGED <<databases, connector, broker, pos>>

\* The container is killed.  Only payment-service has a restart policy.
Kill(m) ==
  /\ Fault
  /\ Stop(m, IF m \in Payers THEN "down" ELSE "killed")
  /\ UNCHANGED <<databases, connector, broker, pos>>

\* The broker's session timeout expires while the owner is alive: another
\* member gets the partition, the old one does not know yet.
Steal(m) ==
  /\ Fault
  /\ pc[m] = "poll"
  /\ ~assigned[m]
  /\ Held(Reads(m))
  /\ owner' = [owner EXCEPT ![Reads(m)] = m]
  /\ assigned' = [assigned EXCEPT ![m] = TRUE]
  /\ pos' = [pos EXCEPT ![m] = committed[Reads(m)]]
  /\ UNCHANGED <<databases, connector, topic, committed, pc, current>>

\* A connector restarts and resumes from an older WAL position it had stored.
Rewind(a) ==
  /\ Fault
  /\ \E p \in slot[a] .. relay[a] : p < relay[a] /\ relay' = [relay EXCEPT ![a] = p]
  /\ UNCHANGED <<databases, slot, broker, loops>>

\* A connector is recreated with a fresh replication slot, which starts at the
\* current end of the WAL: rows not yet published never will be.
Recreate(a) ==
  /\ Fault
  /\ relay[a] < Len(Rows(a))
  /\ relay' = [relay EXCEPT ![a] = Len(Rows(a))]
  /\ slot' = [slot EXCEPT ![a] = Len(Rows(a))]
  /\ UNCHANGED <<databases, broker, loops>>

\* An operator publishes an event a second time (kafka-console-producer).
Republish(a) ==
  /\ Fault
  /\ \E i \in DOMAIN topic[a] : topic' = [topic EXCEPT ![a] = Append(@, topic[a][i])]
  /\ UNCHANGED <<databases, connector, committed, owner, loops>>

\* kafka-consumer-groups --reset-offsets --to-earliest; the broker refuses it
\* while the group has members.
ResetOffsets(a) ==
  /\ Fault
  /\ committed[a] # 0
  /\ \A m \in Consumers : Reads(m) = a => pc[m] \in {"down", "dead", "killed"}
  /\ committed' = [committed EXCEPT ![a] = 0]
  /\ owner' = [owner EXCEPT ![a] = NoMember]
  /\ UNCHANGED <<databases, connector, topic, loops>>

-----------------------------------------------------------------------------
Loop(m) ==
  \/ Join(m) \/ Revoke(m) \/ Fetch(m) \/ Select(m)
  \/ Charge(m) \/ Settle(m) \/ Conflict(m) \/ Restart(m)

Faulty ==
  \/ \E m \in Consumers : Fail(m) \/ Kill(m) \/ Steal(m)
  \/ \E a \in Aggregates : Rewind(a) \/ Recreate(a) \/ Republish(a) \/ ResetOffsets(a)

Next ==
  \/ \E o \in Orders, fail \in BOOLEAN : PlaceOrder(o, fail)
  \/ \E a \in Aggregates : Publish(a)
  \/ \E m \in Consumers : Loop(m) \/ CommitOffset(m)
  \/ Faulty

Spec == Init /\ [][Next]_vars

\* Connectors and consumers keep running; clients and faults owe nothing, and
\* neither does auto-commit, which no progress depends on.
Fairness ==
  /\ \A a \in Aggregates : WF_vars(Publish(a))
  /\ \A m \in Consumers : WF_vars(Loop(m))

LiveSpec == Spec /\ Fairness

-----------------------------------------------------------------------------
(* Properties.                                                             *)

\* Every event id in a connector, a topic or a table names an outbox row.
IdsExist ==
  \A a \in Aggregates :
    /\ slot[a] <= relay[a]
    /\ relay[a] <= Len(Rows(a))
    /\ \A i \in 1 .. Len(topic[a]) : topic[a][i] \in 1 .. Len(Rows(a))
    /\ processed[a] \subseteq 1 .. Len(Rows(a))

\* The type of the state: the tables, the topics and the consumers' variables
\* hold what the code puts in them, and every event id names a row that exists.
TypeOK ==
  /\ IdsExist
  /\ orders \in [Orders -> {"NONE", "CREATED", "CONFIRMED", "CANCELLED"}]
  /\ failPayment \in [Orders -> BOOLEAN]
  /\ payments \in [Orders -> {"NONE", "COMPLETED", "FAILED"}]
  /\ orderOutbox \in Seq(OrderRow)
  /\ paymentOutbox \in Seq(PaymentRow)
  /\ relay \in [Aggregates -> Nat]
  /\ slot \in [Aggregates -> Nat]
  /\ topic \in [Aggregates -> Seq(Nat)]
  /\ committed \in [Aggregates -> Nat]
  /\ owner \in [Aggregates -> Consumers \cup {NoMember}]
  /\ processed \in [Aggregates -> SUBSET Nat]
  /\ pc \in [Consumers -> {"poll", "select", "write", "down", "dead", "killed"}]
  /\ current \in [Consumers -> Nat]
  /\ pos \in [Consumers -> Nat]
  /\ assigned \in [Consumers -> BOOLEAN]
  /\ faults \in 0 .. MaxFaults

\* At-least-once: the group never commits past an event whose transaction has
\* not committed, whatever crashes, rebalances and redeliveries happen, so a
\* restart from the committed offset skips nothing.
CommittedProcessed ==
  \A a \in Aggregates : \A i \in 1 .. committed[a] :
    i <= Len(topic[a]) /\ topic[a][i] \in processed[a]

\* The two databases agree: an order is confirmed only if it was to succeed
\* and its payment row is COMPLETED, cancelled only if it was to fail and its
\* payment row is FAILED, and no payment exists without its order.
SagaConsistent ==
  \A o \in Orders :
    /\ orders[o] = "CONFIRMED" => payments[o] = "COMPLETED" /\ ~failPayment[o]
    /\ orders[o] = "CANCELLED" => payments[o] = "FAILED" /\ failPayment[o]
    /\ orders[o] = "NONE" => payments[o] = "NONE"

\* Exactly-once effect of OrderCreated: however often it is delivered, and to
\* however many payment-service processes at once, it makes one payment event
\* and one payment row, exactly when it is marked processed.
ChargedOnce ==
  /\ \A i, j \in 1 .. Len(paymentOutbox) :
       paymentOutbox[i].order = paymentOutbox[j].order => i = j
  /\ \A i \in 1 .. Len(orderOutbox) :
       LET o == orderOutbox[i].order
       IN  /\ i \in processed["Order"] <=> payments[o] # "NONE"
           /\ i \in processed["Order"] <=>
                \E j \in 1 .. Len(paymentOutbox) :
                  paymentOutbox[j] = [order |-> o, status |-> payments[o]]

\* A payment event is marked processed exactly when its order is decided.
SettledOnce ==
  \A j \in 1 .. Len(paymentOutbox) :
    j \in processed["Payment"] <=> Decided(paymentOutbox[j].order)

\* The outbox loses nothing: an event not processed yet is ahead of the
\* connector, in the topic after the committed offset, where the next member
\* to join reads it, or older than the slot of a recreated connector.
EventNeverLost ==
  \A a \in Aggregates : \A i \in (1 .. Len(Rows(a))) \ processed[a] :
    \/ i > relay[a] \/ i <= slot[a]
    \/ \E k \in 1 .. Len(topic[a]) : k > committed[a] /\ topic[a][k] = i

\* The services implement the saga they are meant to be.
Abstract == INSTANCE Saga WITH orders <- orders, payments <- payments
ImplementsSaga == Abstract!Spec

\* As long as some order-service process is up and no connector is recreated,
\* every order placed is decided.
EveryOrderDecided ==
  [](/\ \E m \in Confirmers : pc[m] # "killed"
     /\ \A a \in Aggregates : slot[a] = 0)
    => \A o \in Orders : orders[o] = "CREATED" ~> Decided(o)
=============================================================================
