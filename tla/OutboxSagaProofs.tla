-------------------------- MODULE OutboxSagaProofs --------------------------
(***************************************************************************)
(* The inductive invariant of OutboxSaga and the theorems that follow from *)
(* it, for any number of orders, consumers and faults.                     *)
(***************************************************************************)
EXTENDS OutboxSaga, SequenceTheorems, TLAPS

-----------------------------------------------------------------------------
(* The inductive invariant, part by part.                                  *)

\* One outbox row per order, carrying the flag the order was placed with.
OrderRows ==
  /\ \A i \in 1 .. Len(orderOutbox) :
       /\ orders[orderOutbox[i].order] # "NONE"
       /\ orderOutbox[i].fail = failPayment[orderOutbox[i].order]
  /\ \A i, j \in 1 .. Len(orderOutbox) :
       orderOutbox[i].order = orderOutbox[j].order => i = j

\* Payment rows, processed order events and payment events go together.
PaymentRows ==
  /\ \A i \in 1 .. Len(orderOutbox) :
       i \in processed["Order"] <=> payments[orderOutbox[i].order] # "NONE"
  /\ \A o \in Orders : payments[o] # "NONE" =>
       /\ orders[o] # "NONE"
       /\ payments[o] = PaymentStatus(failPayment[o])
       /\ \E j \in 1 .. Len(paymentOutbox) : paymentOutbox[j].order = o
  /\ \A j \in 1 .. Len(paymentOutbox) :
       payments[paymentOutbox[j].order] = paymentOutbox[j].status
  /\ \A i, j \in 1 .. Len(paymentOutbox) :
       paymentOutbox[i].order = paymentOutbox[j].order => i = j

\* An order is decided by its payment.
Verdicts ==
  \A o \in Orders : Decided(o) =>
    /\ payments[o] # "NONE"
    /\ orders[o] = NewStatus(payments[o])

DataInv == OrderRows /\ PaymentRows /\ SettledOnce /\ Verdicts

\* The event in a consumer's hands exists.
HandsInv ==
  \A m \in Consumers :
    pc[m] \in {"select", "write"} => current[m] \in 1 .. Len(Rows(Reads(m)))

\* A member that believes it owns the partition has processed everything it
\* has fetched since it joined, except at most the last event.
FetchedProcessed ==
  \A m \in Consumers : assigned[m] =>
    /\ pos[m] <= Len(topic[Reads(m)])
    /\ \A i \in 1 .. pos[m] :
         \/ topic[Reads(m)][i] \in processed[Reads(m)]
         \/ i = pos[m] /\ pc[m] \in {"select", "write"} /\ current[m] = topic[Reads(m)][i]

OffsetInv == CommittedProcessed /\ FetchedProcessed

\* What a connector has read through its slot, it has published.
Published ==
  \A a \in Aggregates : \A i \in (slot[a] + 1) .. relay[a] :
    \E k \in 1 .. Len(topic[a]) : topic[a][k] = i

IInv == TypeOK /\ HandsInv /\ DataInv /\ OffsetInv /\ Published

-----------------------------------------------------------------------------
(* Type correctness.                                                       *)

LEMMA ReadsType == \A m \in Consumers : Reads(m) \in Aggregates
BY DEF Reads, Aggregates

\* The number of faults stays within its bound.
LEMMA FaultCounted ==
  ASSUME TypeOK, Fault
  PROVE  faults' \in 0 .. MaxFaults
BY PartiesAssumption DEF TypeOK, Fault

LEMMA InitType == Init => TypeOK
BY PartiesAssumption DEF Init, TypeOK, IdsExist, Aggregates, Rows

LEMMA RowsType ==
  ASSUME TypeOK
  PROVE  \A a \in Aggregates : Len(Rows(a)) \in Nat
BY DEF TypeOK, Rows

LEMMA RowTypes ==
  ASSUME TypeOK
  PROVE  /\ \A i \in 1 .. Len(orderOutbox) : orderOutbox[i] \in OrderRow
         /\ \A j \in 1 .. Len(paymentOutbox) : paymentOutbox[j] \in PaymentRow
         /\ \A a \in Aggregates : \A k \in 1 .. Len(topic[a]) : topic[a][k] \in Nat
<1>1. /\ orderOutbox \in Seq(OrderRow)
      /\ paymentOutbox \in Seq(PaymentRow)
      /\ \A a \in Aggregates : topic[a] \in Seq(Nat)
  BY DEF TypeOK
<1> QED
  BY <1>1, ElementOfSeq

\* Growing outboxes, and processing events that exist, keeps every id valid.
LEMMA IdsGrow ==
  ASSUME TypeOK, UNCHANGED <<connector, topic>>,
         \A a \in Aggregates :
           /\ Len(Rows(a)') \in Nat
           /\ Len(Rows(a)) <= Len(Rows(a)')
           /\ processed'[a] \subseteq 1 .. Len(Rows(a)')
  PROVE  IdsExist'
<1> SUFFICES ASSUME NEW a \in Aggregates
             PROVE  /\ slot[a] <= relay[a]
                    /\ relay[a] <= Len(Rows(a)')
                    /\ \A i \in 1 .. Len(topic[a]) : topic[a][i] \in 1 .. Len(Rows(a)')
                    /\ processed'[a] \subseteq 1 .. Len(Rows(a)')
  BY DEF IdsExist, connector
<1>1. relay[a] \in Nat /\ Len(Rows(a)) \in Nat
  BY RowsType DEF TypeOK
<1> QED
  BY <1>1 DEF TypeOK, IdsExist

\* Publishing an existing event keeps every topic well formed and its prefix.
LEMMA TopicGrows ==
  ASSUME TypeOK, NEW a \in Aggregates, NEW e \in 1 .. Len(Rows(a)),
         topic' = [topic EXCEPT ![a] = Append(@, e)]
  PROVE  /\ topic' \in [Aggregates -> Seq(Nat)]
         /\ \A b \in Aggregates :
              /\ Len(topic[b]) \in Nat
              /\ Len(topic'[b]) \in Nat
              /\ Len(topic[b]) <= Len(topic'[b])
              /\ \A k \in 1 .. Len(topic[b]) : topic'[b][k] = topic[b][k]
              /\ \A k \in 1 .. Len(topic'[b]) : topic'[b][k] \in 1 .. Len(Rows(b))
         /\ Len(topic'[a]) = Len(topic[a]) + 1
         /\ topic'[a][Len(topic[a]) + 1] = e
<1>1. topic \in [Aggregates -> Seq(Nat)] /\ e \in Nat
  BY RowsType DEF TypeOK
<1>2. topic'[a] = Append(topic[a], e)
  BY <1>1
<1>3. /\ topic'[a] \in Seq(Nat)
      /\ Len(topic'[a]) = Len(topic[a]) + 1
      /\ \A k \in 1 .. Len(topic[a]) : topic'[a][k] = topic[a][k]
      /\ topic'[a][Len(topic[a]) + 1] = e
  BY <1>1, <1>2, AppendProperties
<1>4. \A b \in Aggregates \ {a} : topic'[b] = topic[b]
  BY <1>1
<1>5. \A b \in Aggregates : Len(topic[b]) \in Nat
  BY <1>1, LenProperties
<1>6. \A b \in Aggregates : \A k \in 1 .. Len(topic[b]) : topic[b][k] \in 1 .. Len(Rows(b))
  BY DEF TypeOK, IdsExist
<1>7. \A k \in 1 .. Len(topic'[a]) : topic'[a][k] \in 1 .. Len(Rows(a))
  BY <1>3, <1>5, <1>6
<1> QED
  BY <1>1, <1>3, <1>4, <1>5, <1>6, <1>7

LEMMA PublishNext ==
  ASSUME TypeOK, NEW a \in Aggregates, Publish(a)
  PROVE  relay[a] + 1 \in 1 .. Len(Rows(a))
<1>1. relay[a] \in Nat /\ Len(Rows(a)) \in Nat
  BY RowsType DEF TypeOK
<1>2. relay[a] < Len(Rows(a))
  BY DEF Publish
<1> QED
  BY <1>1, <1>2

\* A transaction that writes a row about an existing event is well typed.
LEMMA TypeStep ==
  ASSUME TypeOK, HandsInv, [Next]_vars
  PROVE  TypeOK'
<1> USE PartiesAssumption, ReadsType
<1>1. ASSUME NEW o \in Orders, NEW fail \in BOOLEAN, PlaceOrder(o, fail)
      PROVE  TypeOK'
  <2> USE <1>1 DEF PlaceOrder, connector, broker, loops
  <2>1. orderOutbox' \in Seq(OrderRow) /\ Len(orderOutbox') = Len(orderOutbox) + 1
    <3>1. orderOutbox \in Seq(OrderRow) /\ [order |-> o, fail |-> fail] \in OrderRow
      BY DEF TypeOK, OrderRow
    <3> QED
      BY <3>1, AppendProperties
  <2>2. \A a \in Aggregates : /\ Len(Rows(a)') \in Nat
                              /\ Len(Rows(a)) <= Len(Rows(a)')
    BY <2>1, RowsType DEF Rows
  <2>3. \A a \in Aggregates : processed'[a] \subseteq 1 .. Len(Rows(a)')
    <3>1. \A a \in Aggregates : processed[a] \subseteq 1 .. Len(Rows(a))
      BY DEF TypeOK, IdsExist
    <3> QED
      BY <2>2, <3>1, RowsType
  <2>4. IdsExist'
    BY <2>2, <2>3, IdsGrow
  <2> QED
    BY <2>1, <2>4 DEF TypeOK
<1>2. ASSUME NEW a \in Aggregates, Publish(a)
      PROVE  TypeOK'
  <2> USE <1>2 DEF Publish, databases, loops
  <2>1. relay[a] + 1 \in 1 .. Len(Rows(a))
    BY PublishNext
  <2>2. \A b \in Aggregates : Rows(b)' = Rows(b)
    BY DEF Rows
  <2>3. \A b \in Aggregates : /\ slot[b] <= relay'[b]
                              /\ relay'[b] \in Nat
                              /\ relay'[b] <= Len(Rows(b))
    <3>1. relay \in [Aggregates -> Nat] /\ slot \in [Aggregates -> Nat]
      BY DEF TypeOK
    <3>2. \A b \in Aggregates : slot[b] <= relay[b] /\ relay[b] <= Len(Rows(b))
      BY DEF TypeOK, IdsExist
    <3> QED
      BY <2>1, <3>1, <3>2, RowsType
  <2>4. IdsExist'
    BY <2>1, <2>2, <2>3, TopicGrows DEF TypeOK, IdsExist
  <2>5. topic' \in [Aggregates -> Seq(Nat)]
    BY <2>1, TopicGrows
  <2>6. relay' \in [Aggregates -> Nat]
    BY DEF TypeOK
  <2> QED
    BY <2>4, <2>5, <2>6 DEF TypeOK
<1>3. ASSUME NEW m \in Consumers, Join(m)
      PROVE  TypeOK'
  BY <1>3 DEF TypeOK, Join, IdsExist, Rows, databases, connector
<1>4. ASSUME NEW m \in Consumers, Revoke(m)
      PROVE  TypeOK'
  BY <1>4 DEF TypeOK, Revoke, IdsExist, Rows, databases, connector, broker
<1>5. ASSUME NEW m \in Consumers, Fetch(m)
      PROVE  TypeOK'
  <2>1. topic[Reads(m)][pos[m] + 1] \in Nat
    <3>1. topic[Reads(m)] \in Seq(Nat) /\ pos[m] \in Nat
      BY ReadsType DEF TypeOK
    <3>2. pos[m] + 1 \in 1 .. Len(topic[Reads(m)])
      BY <1>5, <3>1 DEF Fetch
    <3> QED
      BY <3>1, <3>2
  <2> USE <1>5 DEF Fetch, databases, connector, broker
  <2>2. IdsExist'
    BY DEF TypeOK, IdsExist, Rows
  <2>3. current' \in [Consumers -> Nat]
    BY <2>1 DEF TypeOK
  <2>4. pos' \in [Consumers -> Nat]
    BY DEF TypeOK
  <2>5. pc' \in [Consumers -> {"poll", "select", "write", "down", "dead", "killed"}]
    BY DEF TypeOK
  <2> QED
    BY <2>2, <2>3, <2>4, <2>5 DEF TypeOK
<1>6. ASSUME NEW m \in Consumers, CommitOffset(m)
      PROVE  TypeOK'
  BY <1>6 DEF TypeOK, CommitOffset, IdsExist, Rows, databases, connector, loops
<1>7. ASSUME NEW m \in Consumers, Select(m)
      PROVE  TypeOK'
  BY <1>7 DEF TypeOK, Select, IdsExist, Rows, databases, connector, broker
<1>8. ASSUME NEW m \in Consumers, Charge(m)
      PROVE  TypeOK'
  <2> USE <1>8 DEF Charge, Finish, connector, broker
  <2>1. Reads(m) = "Order" /\ current[m] \in 1 .. Len(orderOutbox)
    BY DEF HandsInv, Reads, Rows
  <2>2. Subject(m) \in Orders
    BY <2>1, RowTypes DEF Subject, Rows, OrderRow
  <2>3. paymentOutbox' \in Seq(PaymentRow) /\ Len(paymentOutbox') = Len(paymentOutbox) + 1
    <3>1. /\ paymentOutbox \in Seq(PaymentRow)
          /\ [order |-> Subject(m),
              status |-> PaymentStatus(orderOutbox[current[m]].fail)] \in PaymentRow
      BY <2>2 DEF TypeOK, PaymentRow, PaymentStatus
    <3> QED
      BY <3>1, AppendProperties
  <2>a. \A a \in Aggregates : /\ Len(Rows(a)') \in Nat
                              /\ Len(Rows(a)) <= Len(Rows(a)')
    BY <2>3, RowsType DEF Rows
  <2>b. processed' = [processed EXCEPT !["Order"] = @ \cup {current[m]}]
    BY <2>1
  <2>c. \A a \in Aggregates : processed'[a] \subseteq 1 .. Len(Rows(a)')
    <3>1. \A a \in Aggregates : processed[a] \subseteq 1 .. Len(Rows(a))
      BY DEF TypeOK, IdsExist
    <3>2. current[m] \in 1 .. Len(Rows("Order"))
      BY <2>1 DEF Rows
    <3>3. processed \in [Aggregates -> SUBSET Nat]
      BY DEF TypeOK
    <3> QED
      BY <2>1, <2>a, <2>b, <3>1, <3>2, <3>3, RowsType DEF Aggregates
  <2>d. IdsExist'
    BY <2>a, <2>c, IdsGrow
  <2>5. payments' \in [Orders -> {"NONE", "COMPLETED", "FAILED"}]
    BY <2>2 DEF TypeOK, PaymentStatus
  <2>6. pc' \in [Consumers -> {"poll", "select", "write", "down", "dead", "killed"}]
    BY DEF TypeOK
  <2>7. processed' \in [Aggregates -> SUBSET Nat]
    BY <2>1, <2>b DEF TypeOK
  <2> QED
    BY <2>3, <2>d, <2>5, <2>6, <2>7 DEF TypeOK
<1>9. ASSUME NEW m \in Consumers, Settle(m)
      PROVE  TypeOK'
  <2> USE <1>9 DEF Settle, Finish, connector, broker
  <2>1. Reads(m) = "Payment" /\ current[m] \in 1 .. Len(paymentOutbox)
    BY DEF HandsInv, Reads, Rows
  <2>2. IdsExist'
    BY <2>1 DEF TypeOK, IdsExist, Rows, Aggregates
  <2>3. orders' \in [Orders -> {"NONE", "CREATED", "CONFIRMED", "CANCELLED"}]
    BY <2>1, RowTypes DEF TypeOK, NewStatus, PaymentRow
  <2> QED
    BY <2>1, <2>2, <2>3 DEF TypeOK
<1>10. ASSUME NEW m \in Consumers, Conflict(m)
      PROVE  TypeOK'
  BY <1>10 DEF TypeOK, Conflict, Stop, Stopped, IdsExist, Rows, databases, connector, broker
<1>11. ASSUME NEW m \in Consumers, Restart(m)
      PROVE  TypeOK'
  BY <1>11 DEF TypeOK, Restart, IdsExist, Rows, databases, connector, broker
<1>12. ASSUME NEW m \in Consumers, Fail(m) \/ Kill(m)
      PROVE  TypeOK'
  <2>1. PICK state \in {"down", "dead", "killed"} : Stop(m, state)
    BY <1>12 DEF Fail, Kill, Stopped
  <2>2. /\ pc' \in [Consumers -> {"poll", "select", "write", "down", "dead", "killed"}]
        /\ current' \in [Consumers -> Nat]
        /\ assigned' \in [Consumers -> BOOLEAN]
    BY <2>1 DEF TypeOK, Stop
  <2>3. UNCHANGED <<databases, connector, broker, pos>>
    BY <1>12 DEF Fail, Kill
  <2>4. faults' \in 0 .. MaxFaults
    BY <1>12, FaultCounted DEF Fail, Kill
  <2>5. IdsExist'
    BY <2>3 DEF TypeOK, IdsExist, Rows, databases, connector, broker
  <2> QED
    BY <2>2, <2>3, <2>4, <2>5 DEF TypeOK, databases, connector, broker
<1>13. ASSUME NEW m \in Consumers, Steal(m)
      PROVE  TypeOK'
  <2>1. faults' \in 0 .. MaxFaults
    BY <1>13, FaultCounted DEF Steal
  <2>2. IdsExist'
    BY <1>13 DEF Steal, TypeOK, IdsExist, Rows, databases, connector
  <2>3. /\ owner' \in [Aggregates -> Consumers \cup {NoMember}]
        /\ assigned' \in [Consumers -> BOOLEAN]
        /\ pos' \in [Consumers -> Nat]
    BY <1>13, ReadsType DEF Steal, TypeOK
  <2> QED
    BY <1>13, <2>1, <2>2, <2>3 DEF Steal, TypeOK, databases, connector
<1>14. ASSUME NEW a \in Aggregates, Rewind(a) \/ Recreate(a)
      PROVE  TypeOK'
  <2> USE DEF Fault, databases, broker, loops
  <2>1. \A b \in Aggregates : Rows(b)' = Rows(b)
    BY <1>14 DEF Rewind, Recreate, Rows
  <2>2. PICK p, s \in Nat : /\ s <= p
                           /\ p <= Len(Rows(a))
                           /\ relay' = [relay EXCEPT ![a] = p]
                           /\ slot' = [slot EXCEPT ![a] = s]
    <3>1. CASE Rewind(a)
      <4>1. slot = [slot EXCEPT ![a] = slot[a]]
        BY DEF TypeOK
      <4>2. /\ slot[a] \in Nat /\ relay[a] \in Nat /\ Len(Rows(a)) \in Nat
            /\ slot[a] <= relay[a] /\ relay[a] <= Len(Rows(a))
        BY RowsType DEF TypeOK, IdsExist
      <4>3. PICK p \in slot[a] .. relay[a] : relay' = [relay EXCEPT ![a] = p]
        BY <3>1 DEF Rewind
      <4>4. p \in Nat /\ slot[a] <= p /\ p <= Len(Rows(a)) /\ slot' = slot
        BY <3>1, <4>2, <4>3 DEF Rewind
      <4> QED
        BY <4>1, <4>2, <4>3, <4>4
    <3>2. CASE Recreate(a)
      <4> DEFINE n == Len(Rows(a))
      <4>1. n \in Nat /\ n <= n /\ n <= Len(Rows(a))
        BY RowsType
      <4>2. relay' = [relay EXCEPT ![a] = n] /\ slot' = [slot EXCEPT ![a] = n]
        BY <3>2 DEF Recreate
      <4> HIDE DEF n
      <4> QED
        BY <4>1, <4>2
    <3> QED
      BY <1>14, <3>1, <3>2
  <2>3. IdsExist'
    <3>1. topic' = topic /\ processed' = processed
      BY <1>14 DEF Rewind, Recreate
    <3> QED
      BY <2>1, <2>2, <3>1 DEF TypeOK, IdsExist
  <2>4. relay' \in [Aggregates -> Nat] /\ slot' \in [Aggregates -> Nat]
    BY <2>2 DEF TypeOK
  <2>5. faults' \in 0 .. MaxFaults
    BY <1>14, FaultCounted DEF Rewind, Recreate
  <2>6. UNCHANGED <<databases, broker, loops>>
    BY <1>14 DEF Rewind, Recreate
  <2> QED
    BY <2>3, <2>4, <2>5, <2>6 DEF TypeOK
<1>15. ASSUME NEW a \in Aggregates, Republish(a)
      PROVE  TypeOK'
  <2>1. DOMAIN topic[a] = 1 .. Len(topic[a])
    BY LenProperties DEF TypeOK
  <2>2. PICK i \in 1 .. Len(topic[a]) :
          topic' = [topic EXCEPT ![a] = Append(@, topic[a][i])]
    BY <1>15, <2>1 DEF Republish
  <2>3. /\ UNCHANGED <<databases, connector, committed, owner, loops>>
        /\ faults' \in 0 .. MaxFaults
    BY <1>15 DEF Republish, Fault, TypeOK
  <2>4. topic[a][i] \in 1 .. Len(Rows(a))
    BY DEF TypeOK, IdsExist
  <2>5. IdsExist'
    <3>1. \A b \in Aggregates : Rows(b)' = Rows(b)
      BY <2>3 DEF Rows, databases
    <3>2. \A b \in Aggregates : /\ topic'[b] \in Seq(Nat)
                               /\ \A k \in 1 .. Len(topic'[b]) : topic'[b][k] \in 1 .. Len(Rows(b))
      BY <2>2, <2>4, TopicGrows DEF TypeOK, IdsExist
    <3> QED
      BY <2>3, <3>1, <3>2 DEF TypeOK, IdsExist, databases, connector
  <2>6. topic' \in [Aggregates -> Seq(Nat)]
    BY <2>2, <2>4, TopicGrows
  <2> QED
    BY <2>3, <2>5, <2>6 DEF TypeOK, databases, connector, loops
<1>16. ASSUME NEW a \in Aggregates, ResetOffsets(a)
      PROVE  TypeOK'
  <2>1. faults' \in 0 .. MaxFaults
    BY <1>16, FaultCounted DEF ResetOffsets
  <2>2. IdsExist'
    BY <1>16 DEF ResetOffsets, TypeOK, IdsExist, Rows, databases, connector
  <2>3. /\ committed' \in [Aggregates -> Nat]
        /\ owner' \in [Aggregates -> Consumers \cup {NoMember}]
    BY <1>16 DEF ResetOffsets, TypeOK
  <2> QED
    BY <1>16, <2>1, <2>2, <2>3 DEF ResetOffsets, TypeOK, databases, connector, loops
<1>17. CASE UNCHANGED vars
  BY <1>17 DEF TypeOK, vars, IdsExist, Rows
<1> QED
  BY <1>1, <1>2, <1>3, <1>4, <1>5, <1>6, <1>7, <1>8, <1>9, <1>10, <1>11, <1>12, <1>13,
     <1>14, <1>15, <1>16, <1>17 DEF Next, Loop, Faulty

-----------------------------------------------------------------------------
(* What the three transactions do to the tables.                           *)

LEMMA DataSteps ==
  ASSUME [Next]_vars
  PROVE  \/ \E o \in Orders, fail \in BOOLEAN : PlaceOrder(o, fail)
         \/ \E m \in Consumers : Charge(m)
         \/ \E m \in Consumers : Settle(m)
         \/ UNCHANGED databases
<1>1. ASSUME NEW a \in Aggregates, Publish(a) PROVE UNCHANGED databases
  BY <1>1 DEF Publish
<1>2. ASSUME NEW m \in Consumers,
             \/ Join(m) \/ Revoke(m) \/ Fetch(m) \/ Select(m) \/ CommitOffset(m)
             \/ Conflict(m) \/ Restart(m) \/ Fail(m) \/ Kill(m) \/ Steal(m)
      PROVE  UNCHANGED databases
  BY <1>2 DEF Join, Revoke, Fetch, Select, CommitOffset, Conflict, Restart, Fail, Kill, Steal
<1>3. ASSUME NEW a \in Aggregates,
             Rewind(a) \/ Recreate(a) \/ Republish(a) \/ ResetOffsets(a)
      PROVE  UNCHANGED databases
  BY <1>3 DEF Rewind, Recreate, Republish, ResetOffsets
<1>4. CASE UNCHANGED vars
  BY <1>4 DEF vars, databases
<1> QED
  BY <1>1, <1>2, <1>3, <1>4 DEF Next, Loop, Faulty

LEMMA PlaceOrderEffect ==
  ASSUME TypeOK, NEW o \in Orders, NEW fail \in BOOLEAN, PlaceOrder(o, fail)
  PROVE  /\ orders[o] = "NONE"
         /\ orders' = [orders EXCEPT ![o] = "CREATED"]
         /\ failPayment' = [failPayment EXCEPT ![o] = fail]
         /\ Len(orderOutbox) \in Nat
         /\ Len(orderOutbox') = Len(orderOutbox) + 1
         /\ \A i \in 1 .. Len(orderOutbox) : orderOutbox'[i] = orderOutbox[i]
         /\ orderOutbox'[Len(orderOutbox) + 1].order = o
         /\ orderOutbox'[Len(orderOutbox) + 1].fail = fail
         /\ UNCHANGED <<payments, paymentOutbox, processed>>
<1>1. orderOutbox \in Seq(OrderRow) /\ [order |-> o, fail |-> fail] \in OrderRow
  BY DEF TypeOK, OrderRow
<1>2. orderOutbox' = Append(orderOutbox, [order |-> o, fail |-> fail])
  BY DEF PlaceOrder
<1>3. /\ Len(orderOutbox) \in Nat
      /\ Len(orderOutbox') = Len(orderOutbox) + 1
      /\ \A i \in 1 .. Len(orderOutbox) : orderOutbox'[i] = orderOutbox[i]
      /\ orderOutbox'[Len(orderOutbox) + 1] = [order |-> o, fail |-> fail]
  BY <1>1, <1>2, AppendProperties, LenProperties
<1> QED
  BY <1>3 DEF PlaceOrder

LEMMA ChargeEffect ==
  ASSUME TypeOK, HandsInv, NEW m \in Consumers, Charge(m)
  PROVE  \E i \in 1 .. Len(orderOutbox) :
           \E o \in Orders :
             /\ o = orderOutbox[i].order
             /\ i = current[m]
             /\ Reads(m) = "Order"
             /\ i \notin processed["Order"]
             /\ processed'["Order"] = processed["Order"] \cup {i}
             /\ processed'["Payment"] = processed["Payment"]
             /\ payments' = [payments EXCEPT ![o] =
                   IF @ = "NONE" THEN PaymentStatus(orderOutbox[i].fail) ELSE @]
             /\ Len(paymentOutbox) \in Nat
             /\ Len(paymentOutbox') = Len(paymentOutbox) + 1
             /\ \A j \in 1 .. Len(paymentOutbox) : paymentOutbox'[j] = paymentOutbox[j]
             /\ paymentOutbox'[Len(paymentOutbox) + 1].order = o
             /\ paymentOutbox'[Len(paymentOutbox) + 1].status =
                   PaymentStatus(orderOutbox[i].fail)
             /\ UNCHANGED <<orders, failPayment, orderOutbox>>
<1> DEFINE i == current[m]
           o == orderOutbox[i].order
           row == [order |-> o, status |-> PaymentStatus(orderOutbox[i].fail)]
<1>1. Reads(m) = "Order"
  BY DEF Charge, Reads
<1>2. i \in 1 .. Len(orderOutbox)
  BY <1>1 DEF HandsInv, Charge, Finish, Rows
<1>3. o \in Orders /\ orderOutbox[i].fail \in BOOLEAN
  BY <1>2, RowTypes DEF OrderRow
<1>4. paymentOutbox \in Seq(PaymentRow) /\ row \in PaymentRow
  BY <1>3 DEF TypeOK, PaymentRow, PaymentStatus
<1>5. paymentOutbox' = Append(paymentOutbox, row)
  BY <1>1 DEF Charge, Subject, Rows
<1>6. /\ Len(paymentOutbox) \in Nat
      /\ Len(paymentOutbox') = Len(paymentOutbox) + 1
      /\ \A j \in 1 .. Len(paymentOutbox) : paymentOutbox'[j] = paymentOutbox[j]
      /\ paymentOutbox'[Len(paymentOutbox) + 1] = row
  BY <1>4, <1>5, AppendProperties, LenProperties
<1>7. /\ i \notin processed["Order"]
      /\ processed' = [processed EXCEPT !["Order"] = @ \cup {i}]
      /\ payments' = [payments EXCEPT ![o] =
            IF @ = "NONE" THEN PaymentStatus(orderOutbox[i].fail) ELSE @]
      /\ UNCHANGED <<orders, failPayment, orderOutbox>>
  BY <1>1 DEF Charge, Finish, Unprocessed, Subject, Rows
<1>8. /\ processed'["Order"] = processed["Order"] \cup {i}
      /\ processed'["Payment"] = processed["Payment"]
  BY <1>7 DEF TypeOK, Aggregates
<1>9. row.order = o /\ row.status = PaymentStatus(orderOutbox[i].fail)
  OBVIOUS
<1> HIDE DEF i, o, row
<1> QED
  BY <1>1, <1>2, <1>3, <1>6, <1>7, <1>8, <1>9 DEF i, o

LEMMA SettleEffect ==
  ASSUME TypeOK, HandsInv, NEW m \in Consumers, Settle(m)
  PROVE  \E j \in 1 .. Len(paymentOutbox) :
           \E o \in Orders :
             /\ o = paymentOutbox[j].order
             /\ j = current[m]
             /\ Reads(m) = "Payment"
             /\ j \notin processed["Payment"]
             /\ processed'["Payment"] = processed["Payment"] \cup {j}
             /\ processed'["Order"] = processed["Order"]
             /\ orders' = [orders EXCEPT ![o] =
                   IF @ = "NONE" THEN @ ELSE NewStatus(paymentOutbox[j].status)]
             /\ UNCHANGED <<failPayment, payments, orderOutbox, paymentOutbox>>
<1> DEFINE j == current[m]
           o == paymentOutbox[j].order
<1>1. Reads(m) = "Payment"
  BY PartiesAssumption DEF Settle, Reads
<1>2. j \in 1 .. Len(paymentOutbox)
  BY <1>1 DEF HandsInv, Settle, Finish, Rows
<1>3. o \in Orders
  BY <1>2, RowTypes DEF PaymentRow
<1>4. /\ j \notin processed["Payment"]
      /\ processed' = [processed EXCEPT !["Payment"] = @ \cup {j}]
      /\ orders' = [orders EXCEPT ![o] =
            IF @ = "NONE" THEN @ ELSE NewStatus(paymentOutbox[j].status)]
      /\ UNCHANGED <<failPayment, payments, orderOutbox, paymentOutbox>>
  BY <1>1 DEF Settle, Finish, Unprocessed
<1>5. /\ processed'["Payment"] = processed["Payment"] \cup {j}
      /\ processed'["Order"] = processed["Order"]
  BY <1>4 DEF TypeOK, Aggregates
<1> HIDE DEF j, o
<1> QED
  BY <1>1, <1>2, <1>3, <1>4, <1>5 DEF j, o

-----------------------------------------------------------------------------
(* The event in a consumer's hands exists.                                 *)

LEMMA RowsGrow ==
  ASSUME TypeOK, HandsInv, [Next]_vars
  PROVE  \A a \in Aggregates : /\ Len(Rows(a)) \in Nat
                               /\ Len(Rows(a)') \in Nat
                               /\ Len(Rows(a)) <= Len(Rows(a)')
<1>1. Len(orderOutbox) \in Nat /\ Len(paymentOutbox) \in Nat
  BY RowsType DEF Rows, Aggregates
<1>2. ASSUME NEW o \in Orders, NEW fail \in BOOLEAN, PlaceOrder(o, fail)
      PROVE  Len(orderOutbox') = Len(orderOutbox) + 1 /\ paymentOutbox' = paymentOutbox
  BY <1>2, PlaceOrderEffect
<1>3. ASSUME NEW m \in Consumers, Charge(m)
      PROVE  Len(paymentOutbox') = Len(paymentOutbox) + 1 /\ orderOutbox' = orderOutbox
  BY <1>3, ChargeEffect
<1>4. ASSUME NEW m \in Consumers, Settle(m)
      PROVE  paymentOutbox' = paymentOutbox /\ orderOutbox' = orderOutbox
  BY <1>4 DEF Settle
<1>5. CASE UNCHANGED databases
  BY <1>1, <1>5 DEF databases, Rows
<1> QED
  BY <1>1, <1>2, <1>3, <1>4, <1>5, DataSteps DEF Rows

LEMMA HandsStep ==
  ASSUME TypeOK, HandsInv, [Next]_vars
  PROVE  HandsInv'
<1> SUFFICES ASSUME NEW n \in Consumers, pc'[n] \in {"select", "write"}
             PROVE  current'[n] \in 1 .. Len(Rows(Reads(n))')
  BY DEF HandsInv, Reads
<1>1. /\ Reads(n) \in Aggregates
      /\ Len(Rows(Reads(n))) \in Nat
      /\ Len(Rows(Reads(n))') \in Nat
      /\ Len(Rows(Reads(n))) <= Len(Rows(Reads(n))')
  BY ReadsType, RowsGrow
<1>2. ASSUME pc[n] \in {"select", "write"}, current'[n] = current[n]
      PROVE  current'[n] \in 1 .. Len(Rows(Reads(n))')
  BY <1>1, <1>2 DEF HandsInv
<1>3. ASSUME NEW m \in Consumers, Fetch(m)
      PROVE  current'[n] \in 1 .. Len(Rows(Reads(n))')
  <2>1. CASE m = n
    <3>1. pos[n] + 1 \in 1 .. Len(topic[Reads(n)])
      <4>1. topic[Reads(n)] \in Seq(Nat) /\ pos[n] \in Nat
        BY ReadsType DEF TypeOK
      <4>2. Len(topic[Reads(n)]) \in Nat /\ pos[n] < Len(topic[Reads(n)])
        BY <1>3, <2>1, <4>1, LenProperties DEF Fetch
      <4> QED
        BY <4>1, <4>2
    <3>2. topic[Reads(n)][pos[n] + 1] \in 1 .. Len(Rows(Reads(n)))
      BY <3>1, ReadsType DEF TypeOK, IdsExist
    <3>3. current'[n] = topic[Reads(n)][pos[n] + 1]
      BY <1>3, <2>1 DEF Fetch, TypeOK
    <3> QED
      BY <1>1, <3>2, <3>3
  <2>2. CASE m # n
    <3>1. pc'[n] = pc[n] /\ current'[n] = current[n]
      BY <1>3, <2>2 DEF Fetch, TypeOK
    <3> QED
      BY <1>2, <3>1
  <2> QED
    BY <2>1, <2>2
<1>4. ASSUME NEW m \in Consumers, Select(m) \/ Charge(m) \/ Settle(m)
      PROVE  pc[n] \in {"select", "write"} /\ current'[n] = current[n]
  BY <1>4 DEF Select, Charge, Settle, Finish, TypeOK
<1>5. ASSUME NEW m \in Consumers, NEW state \in {"down", "dead", "killed"}, Stop(m, state)
      PROVE  pc[n] \in {"select", "write"} /\ current'[n] = current[n]
  BY <1>5 DEF Stop, TypeOK
<1>6. ASSUME NEW m \in Consumers, Conflict(m) \/ Fail(m) \/ Kill(m)
      PROVE  pc[n] \in {"select", "write"} /\ current'[n] = current[n]
  BY <1>5, <1>6 DEF Conflict, Fail, Kill, Stopped
<1>7. ASSUME NEW m \in Consumers,
             Join(m) \/ Revoke(m) \/ CommitOffset(m) \/ Restart(m) \/ Steal(m)
      PROVE  pc[n] \in {"select", "write"} /\ current'[n] = current[n]
  BY <1>7 DEF Join, Revoke, CommitOffset, Restart, Steal, loops, TypeOK
<1>8. ASSUME NEW a \in Aggregates,
             Publish(a) \/ Rewind(a) \/ Recreate(a) \/ Republish(a) \/ ResetOffsets(a)
      PROVE  pc[n] \in {"select", "write"} /\ current'[n] = current[n]
  BY <1>8 DEF Publish, Rewind, Recreate, Republish, ResetOffsets, loops
<1>9. ASSUME NEW o \in Orders, NEW fail \in BOOLEAN, PlaceOrder(o, fail)
      PROVE  pc[n] \in {"select", "write"} /\ current'[n] = current[n]
  BY <1>9 DEF PlaceOrder, loops
<1>10. CASE UNCHANGED vars
  BY <1>2, <1>10 DEF vars
<1> QED
  BY <1>2, <1>3, <1>4, <1>6, <1>7, <1>8, <1>9, <1>10 DEF Next, Loop, Faulty

-----------------------------------------------------------------------------
(* The tables of the two databases stay consistent.                        *)

LEMMA PlaceOrderData ==
  ASSUME TypeOK, DataInv, NEW o \in Orders, NEW fail \in BOOLEAN, PlaceOrder(o, fail)
  PROVE  DataInv'
<1> DEFINE n == Len(orderOutbox)
<1>1. /\ orders[o] = "NONE"
      /\ orders' = [orders EXCEPT ![o] = "CREATED"]
      /\ failPayment' = [failPayment EXCEPT ![o] = fail]
      /\ n \in Nat
      /\ Len(orderOutbox') = n + 1
      /\ \A i \in 1 .. n : orderOutbox'[i] = orderOutbox[i]
      /\ orderOutbox'[n + 1].order = o
      /\ orderOutbox'[n + 1].fail = fail
      /\ UNCHANGED <<payments, paymentOutbox, processed>>
  BY PlaceOrderEffect
<1>2. \A i \in 1 .. n : orderOutbox[i].order \in Orders /\ orderOutbox[i].order # o
  BY <1>1, RowTypes DEF DataInv, OrderRows, OrderRow
<1>3. \A p \in Orders \ {o} : orders'[p] = orders[p] /\ failPayment'[p] = failPayment[p]
  BY <1>1 DEF TypeOK
<1>4. orders'[o] = "CREATED" /\ failPayment'[o] = fail /\ payments[o] = "NONE"
  BY <1>1 DEF TypeOK, DataInv, PaymentRows
<1>5. n + 1 \notin processed["Order"]
  BY <1>1 DEF TypeOK, IdsExist, Rows, Aggregates
<1>6. \A j \in 1 .. Len(paymentOutbox) :
        paymentOutbox[j].order \in Orders /\ paymentOutbox[j].order # o
  BY <1>4, RowTypes DEF PaymentRow, DataInv, PaymentRows
<1> HIDE DEF n
<1>7. OrderRows'
  <2>1. \A i \in 1 .. n + 1 : i \in 1 .. n \/ i = n + 1
    BY <1>1
  <2>2. Len(orderOutbox') = n + 1 /\ n = Len(orderOutbox)
    BY <1>1 DEF n
  <2>3. \A i \in 1 .. n + 1 : /\ orders'[orderOutbox'[i].order] # "NONE"
                            /\ orderOutbox'[i].fail = failPayment'[orderOutbox'[i].order]
    BY <1>1, <1>2, <1>3, <1>4, <2>1, <2>2 DEF DataInv, OrderRows
  <2>4. \A i, j \in 1 .. n + 1 : orderOutbox'[i].order = orderOutbox'[j].order => i = j
    BY <1>1, <1>2, <2>1, <2>2 DEF DataInv, OrderRows
  <2> QED
    BY <2>2, <2>3, <2>4 DEF OrderRows
<1>8. PaymentRows'
  BY <1>1, <1>2, <1>3, <1>4, <1>5 DEF DataInv, PaymentRows, n
<1>9. SettledOnce'
  BY <1>1, <1>3, <1>6 DEF DataInv, SettledOnce, Decided
<1>10. Verdicts'
  BY <1>1, <1>3, <1>4 DEF DataInv, Verdicts, Decided
<1> QED
  BY <1>7, <1>8, <1>9, <1>10 DEF DataInv

LEMMA ChargeData ==
  ASSUME TypeOK, HandsInv, DataInv, NEW m \in Consumers, Charge(m)
  PROVE  DataInv'
<1> DEFINE n == Len(paymentOutbox)
<1>1. PICK i \in 1 .. Len(orderOutbox), o \in Orders :
        /\ o = orderOutbox[i].order
        /\ i \notin processed["Order"]
        /\ processed'["Order"] = processed["Order"] \cup {i}
        /\ processed'["Payment"] = processed["Payment"]
        /\ payments' = [payments EXCEPT ![o] =
              IF @ = "NONE" THEN PaymentStatus(orderOutbox[i].fail) ELSE @]
        /\ n \in Nat
        /\ Len(paymentOutbox') = n + 1
        /\ \A j \in 1 .. n : paymentOutbox'[j] = paymentOutbox[j]
        /\ paymentOutbox'[n + 1].order = o
        /\ paymentOutbox'[n + 1].status = PaymentStatus(orderOutbox[i].fail)
        /\ UNCHANGED <<orders, failPayment, orderOutbox>>
  BY ChargeEffect
<1> HIDE DEF n
<1>2. payments[o] = "NONE" /\ orders[o] = "CREATED"
  <2>1. payments[o] = "NONE" /\ orders[o] # "NONE"
    BY <1>1 DEF DataInv, PaymentRows, OrderRows
  <2>2. ~Decided(o)
    BY <2>1 DEF DataInv, Verdicts
  <2> QED
    BY <2>1, <2>2 DEF TypeOK, Decided
<1>3. /\ payments'[o] = PaymentStatus(failPayment[o])
      /\ payments'[o] = PaymentStatus(orderOutbox[i].fail)
      /\ payments'[o] # "NONE"
  BY <1>1, <1>2 DEF TypeOK, PaymentStatus, DataInv, OrderRows
<1>4. \A p \in Orders \ {o} : payments'[p] = payments[p]
  BY <1>1 DEF TypeOK
<1>5. \A j \in 1 .. n : paymentOutbox[j].order \in Orders /\ paymentOutbox[j].order # o
  <2>1. \A j \in 1 .. n : /\ paymentOutbox[j].order \in Orders
                          /\ paymentOutbox[j].status # "NONE"
    BY RowTypes DEF PaymentRow, n
  <2> QED
    BY <1>2, <2>1 DEF DataInv, PaymentRows, n
<1>6. \A k \in 1 .. Len(orderOutbox) :
        /\ orderOutbox[k].order \in Orders
        /\ orderOutbox[k].order = o => k = i
  BY <1>1, RowTypes DEF OrderRow, DataInv, OrderRows
<1>7. OrderRows'
  BY <1>1 DEF DataInv, OrderRows
<1>8. PaymentRows'
  <2>1. (\A k \in 1 .. Len(orderOutbox) :
          k \in processed["Order"] <=> payments[orderOutbox[k].order] # "NONE")'
    BY <1>1, <1>3, <1>4, <1>6 DEF DataInv, PaymentRows
  <2>2. (\A p \in Orders : payments[p] # "NONE" =>
          /\ orders[p] # "NONE"
          /\ payments[p] = PaymentStatus(failPayment[p])
          /\ \E j \in 1 .. Len(paymentOutbox) : paymentOutbox[j].order = p)'
    BY <1>1, <1>2, <1>3, <1>4 DEF DataInv, PaymentRows, PaymentStatus, n
  <2>3. (\A j \in 1 .. Len(paymentOutbox) :
          payments[paymentOutbox[j].order] = paymentOutbox[j].status)'
    BY <1>1, <1>3, <1>4, <1>5 DEF DataInv, PaymentRows, n
  <2>4. (\A j, k \in 1 .. Len(paymentOutbox) :
          paymentOutbox[j].order = paymentOutbox[k].order => j = k)'
    BY <1>1, <1>5 DEF DataInv, PaymentRows, n
  <2> QED
    BY <2>1, <2>2, <2>3, <2>4 DEF PaymentRows
<1>9. SettledOnce'
  <2>1. n + 1 \notin processed["Payment"]
    BY <1>1 DEF TypeOK, IdsExist, Rows, Aggregates, n
  <2> QED
    BY <1>1, <1>2, <2>1 DEF DataInv, SettledOnce, Decided, n
<1>10. Verdicts'
  BY <1>1, <1>2, <1>4 DEF DataInv, Verdicts, Decided, NewStatus
<1> QED
  BY <1>7, <1>8, <1>9, <1>10 DEF DataInv

LEMMA SettleData ==
  ASSUME TypeOK, HandsInv, DataInv, NEW m \in Consumers, Settle(m)
  PROVE  DataInv'
<1>1. PICK j \in 1 .. Len(paymentOutbox), o \in Orders :
        /\ o = paymentOutbox[j].order
        /\ j \notin processed["Payment"]
        /\ processed'["Payment"] = processed["Payment"] \cup {j}
        /\ processed'["Order"] = processed["Order"]
        /\ orders' = [orders EXCEPT ![o] =
              IF @ = "NONE" THEN @ ELSE NewStatus(paymentOutbox[j].status)]
        /\ UNCHANGED <<failPayment, payments, orderOutbox, paymentOutbox>>
  BY SettleEffect
<1>2. /\ payments[o] = paymentOutbox[j].status
      /\ payments[o] # "NONE"
      /\ orders[o] # "NONE"
  BY <1>1, RowTypes DEF PaymentRow, DataInv, PaymentRows
<1>3. orders'[o] = NewStatus(payments[o]) /\ orders'[o] \in {"CONFIRMED", "CANCELLED"}
  BY <1>1, <1>2 DEF TypeOK, NewStatus
<1>4. \A p \in Orders \ {o} : orders'[p] = orders[p]
  BY <1>1 DEF TypeOK
<1>5. OrderRows'
  BY <1>1, <1>3, <1>4, RowTypes DEF OrderRow, DataInv, OrderRows
<1>6. PaymentRows'
  BY <1>1, <1>3, <1>4 DEF DataInv, PaymentRows
<1>7. SettledOnce'
  <2>1. \A k \in 1 .. Len(paymentOutbox) :
          /\ paymentOutbox[k].order \in Orders
          /\ paymentOutbox[k].order = o => k = j
    BY <1>1, RowTypes DEF PaymentRow, DataInv, PaymentRows
  <2> QED
    BY <1>1, <1>3, <1>4, <2>1 DEF DataInv, SettledOnce, Decided
<1>8. Verdicts'
  BY <1>1, <1>2, <1>3, <1>4 DEF DataInv, Verdicts, Decided
<1> QED
  BY <1>5, <1>6, <1>7, <1>8 DEF DataInv

LEMMA DataStep ==
  ASSUME TypeOK, HandsInv, DataInv, [Next]_vars
  PROVE  DataInv'
<1>1. CASE UNCHANGED databases
  BY <1>1 DEF databases, DataInv, OrderRows, PaymentRows, SettledOnce, Verdicts, Decided
<1> QED
  BY <1>1, DataSteps, PlaceOrderData, ChargeData, SettleData

-----------------------------------------------------------------------------
(* Offsets never run ahead of the transactions.                            *)

LEMMA ProcessedGrows ==
  ASSUME TypeOK, HandsInv, [Next]_vars
  PROVE  \A a \in Aggregates : processed[a] \subseteq processed'[a]
<1>1. ASSUME NEW o \in Orders, NEW fail \in BOOLEAN, PlaceOrder(o, fail)
      PROVE  processed' = processed
  BY <1>1 DEF PlaceOrder
<1>2. ASSUME NEW m \in Consumers, Charge(m) \/ Settle(m)
      PROVE  \A a \in Aggregates : processed[a] \subseteq processed'[a]
  <2>1. processed \in [Aggregates -> SUBSET Nat]
    BY DEF TypeOK
  <2>2. processed' = [processed EXCEPT ![Reads(m)] = @ \cup {current[m]}]
    BY <1>2 DEF Charge, Settle, Finish
  <2> QED
    BY <2>1, <2>2
<1> QED
  BY <1>1, <1>2, DataSteps DEF databases

LEMMA TopicPrefix ==
  ASSUME TypeOK, [Next]_vars
  PROVE  \A a \in Aggregates :
           /\ Len(topic[a]) \in Nat
           /\ Len(topic'[a]) \in Nat
           /\ Len(topic[a]) <= Len(topic'[a])
           /\ \A k \in 1 .. Len(topic[a]) : topic'[a][k] = topic[a][k]
<1>1. \A a \in Aggregates : Len(topic[a]) \in Nat
  BY LenProperties DEF TypeOK
<1>2. ASSUME NEW a \in Aggregates, Publish(a)
      PROVE  \E e \in 1 .. Len(Rows(a)) : topic' = [topic EXCEPT ![a] = Append(@, e)]
  <2>1. relay[a] + 1 \in 1 .. Len(Rows(a))
    BY <1>2, PublishNext
  <2> QED
    BY <1>2, <2>1 DEF Publish
<1>3. ASSUME NEW a \in Aggregates, Republish(a)
      PROVE  \E e \in 1 .. Len(Rows(a)) : topic' = [topic EXCEPT ![a] = Append(@, e)]
  <2>1. DOMAIN topic[a] = 1 .. Len(topic[a])
    BY LenProperties DEF TypeOK
  <2> QED
    BY <1>3, <2>1 DEF Republish, TypeOK, IdsExist
<1>4. ASSUME NEW m \in Consumers, Loop(m) \/ CommitOffset(m) \/ Fail(m) \/ Kill(m) \/ Steal(m)
      PROVE  topic' = topic
  BY <1>4 DEF Loop, Join, Revoke, Fetch, Select, Charge, Settle, Conflict, Restart,
              CommitOffset, Fail, Kill, Steal, broker
<1>5. ASSUME NEW a \in Aggregates, Rewind(a) \/ Recreate(a) \/ ResetOffsets(a)
      PROVE  topic' = topic
  BY <1>5 DEF Rewind, Recreate, ResetOffsets, broker
<1>6. ASSUME NEW o \in Orders, NEW fail \in BOOLEAN, PlaceOrder(o, fail)
      PROVE  topic' = topic
  BY <1>6 DEF PlaceOrder, broker
<1>7. CASE topic' = topic
  BY <1>1, <1>7
<1>8. CASE \E a \in Aggregates : \E e \in 1 .. Len(Rows(a)) :
             topic' = [topic EXCEPT ![a] = Append(@, e)]
  BY <1>8, TopicGrows
<1>9. CASE UNCHANGED vars
  BY <1>7, <1>9 DEF vars
<1> QED
  BY <1>2, <1>3, <1>4, <1>5, <1>6, <1>7, <1>8, <1>9 DEF Next, Faulty

\* A committed offset is one an idle member reached, or zero, or unchanged.
LEMMA CommittedStep ==
  ASSUME TypeOK, HandsInv, OffsetInv, [Next]_vars
  PROVE  CommittedProcessed'
<1> USE ReadsType
<1>1. ASSUME committed' = committed
      PROVE  CommittedProcessed'
  <2> SUFFICES ASSUME NEW a \in Aggregates, NEW i \in 1 .. committed[a]
               PROVE  i <= Len(topic'[a]) /\ topic'[a][i] \in processed'[a]
    BY <1>1 DEF CommittedProcessed
  <2>1. i <= Len(topic[a]) /\ topic[a][i] \in processed[a] /\ i \in Nat /\ i >= 1
    BY DEF OffsetInv, CommittedProcessed, TypeOK
  <2>2. i \in 1 .. Len(topic[a])
    BY <2>1, TopicPrefix
  <2> QED
    BY <2>1, <2>2, ProcessedGrows, TopicPrefix
<1>2. ASSUME NEW m \in Consumers, CommitOffset(m)
      PROVE  CommittedProcessed'
  <2>1. \A i \in 1 .. pos[m] :
          i <= Len(topic[Reads(m)]) /\ topic[Reads(m)][i] \in processed[Reads(m)]
    <3>1. pos[m] \in Nat /\ Len(topic[Reads(m)]) \in Nat
      BY TopicPrefix DEF TypeOK
    <3> QED
      BY <1>2, <3>1 DEF CommitOffset, OffsetInv, FetchedProcessed
  <2>2. /\ committed' = [committed EXCEPT ![Reads(m)] = pos[m]]
        /\ topic' = topic
        /\ processed' = processed
    BY <1>2 DEF CommitOffset, databases
  <2> QED
    BY <2>1, <2>2 DEF OffsetInv, CommittedProcessed, TypeOK
<1>3. ASSUME NEW a \in Aggregates, ResetOffsets(a)
      PROVE  CommittedProcessed'
  BY <1>3 DEF ResetOffsets, databases, OffsetInv, CommittedProcessed, TypeOK
<1>4. ASSUME NEW m \in Consumers, Loop(m) \/ Fail(m) \/ Kill(m) \/ Steal(m)
      PROVE  committed' = committed
  BY <1>4 DEF Loop, Join, Revoke, Fetch, Select, Charge, Settle, Conflict, Restart,
              Fail, Kill, Steal, broker
<1>5. ASSUME NEW a \in Aggregates, Publish(a) \/ Rewind(a) \/ Recreate(a) \/ Republish(a)
      PROVE  committed' = committed
  BY <1>5 DEF Publish, Rewind, Recreate, Republish, broker
<1>6. ASSUME NEW o \in Orders, NEW fail \in BOOLEAN, PlaceOrder(o, fail)
      PROVE  committed' = committed
  BY <1>6 DEF PlaceOrder, broker
<1>7. CASE UNCHANGED vars
  BY <1>1, <1>7 DEF vars
<1> QED
  BY <1>1, <1>2, <1>3, <1>4, <1>5, <1>6, <1>7 DEF Next, Faulty

LEMMA FetchedStep ==
  ASSUME TypeOK, HandsInv, OffsetInv, [Next]_vars
  PROVE  FetchedProcessed'
<1> DEFINE Good(n) ==
      /\ pos[n] <= Len(topic[Reads(n)])
      /\ \A i \in 1 .. pos[n] :
           \/ topic[Reads(n)][i] \in processed[Reads(n)]
           \/ i = pos[n] /\ pc[n] \in {"select", "write"} /\ current[n] = topic[Reads(n)][i]
<1> SUFFICES ASSUME NEW n \in Consumers, assigned'[n]
             PROVE  Good(n)'
  BY DEF FetchedProcessed, Reads
<1> DEFINE a == Reads(n)
<1>1. /\ a \in Aggregates
      /\ pos[n] \in Nat
      /\ committed[a] \in Nat
      /\ Len(topic[a]) \in Nat
      /\ Len(topic'[a]) \in Nat
      /\ Len(topic[a]) <= Len(topic'[a])
      /\ \A k \in 1 .. Len(topic[a]) : topic'[a][k] = topic[a][k]
      /\ processed[a] \subseteq processed'[a]
  BY ReadsType, TopicPrefix, ProcessedGrows DEF TypeOK
<1>2. assigned[n] => Good(n)
  BY DEF OffsetInv, FetchedProcessed
<1>3. Good(n)' <=>
        /\ pos'[n] <= Len(topic'[a])
        /\ \A i \in 1 .. pos'[n] :
             \/ topic'[a][i] \in processed'[a]
             \/ i = pos'[n] /\ pc'[n] \in {"select", "write"} /\ current'[n] = topic'[a][i]
  BY DEF Reads
<1>4. ASSUME assigned[n], pos'[n] = pos[n], pc'[n] = pc[n], current'[n] = current[n]
      PROVE  Good(n)'
  BY <1>1, <1>2, <1>3, <1>4
<1>5. ASSUME pos'[n] = committed[a], processed' = processed, topic' = topic
      PROVE  Good(n)'
  <2>1. \A i \in 1 .. committed[a] : i <= Len(topic[a]) /\ topic[a][i] \in processed[a]
    BY <1>1 DEF OffsetInv, CommittedProcessed
  <2>2. committed[a] <= Len(topic[a])
    BY <1>1, <2>1
  <2> QED
    BY <1>3, <1>5, <2>1, <2>2
<1>6. ASSUME NEW m \in Consumers, Join(m) \/ Steal(m)
      PROVE  Good(n)'
  <2>1. CASE m = n
    BY <1>5, <1>6, <2>1 DEF Join, Steal, databases, TypeOK
  <2>2. CASE m # n
    BY <1>4, <1>6, <2>2 DEF Join, Steal, TypeOK
  <2> QED
    BY <2>1, <2>2
<1>7. ASSUME NEW m \in Consumers, Fetch(m)
      PROVE  Good(n)'
  <2>1. CASE m = n
    <3>1. /\ assigned[n] /\ pc[n] = "poll" /\ pos[n] < Len(topic[a])
          /\ pos'[n] = pos[n] + 1 /\ pc'[n] = "select"
          /\ current'[n] = topic[a][pos[n] + 1]
          /\ topic' = topic /\ processed' = processed
      BY <1>7, <2>1 DEF Fetch, TypeOK, broker, databases
    <3>2. \A i \in 1 .. pos[n] : topic[a][i] \in processed[a]
      BY <1>2, <3>1
    <3> QED
      BY <1>1, <1>3, <3>1, <3>2
  <2>2. CASE m # n
    BY <1>4, <1>7, <2>2 DEF Fetch, TypeOK
  <2> QED
    BY <2>1, <2>2
<1>8. ASSUME NEW m \in Consumers, Select(m) \/ Charge(m) \/ Settle(m)
      PROVE  Good(n)'
  <2>1. CASE m = n
    <3>1. /\ assigned[n] /\ pos'[n] = pos[n] /\ topic' = topic /\ current'[n] = current[n]
          /\ pc'[n] \in {"select", "write"} \/ current[n] \in processed'[a]
      BY <1>1, <1>8, <2>1 DEF Select, Charge, Settle, Finish, TypeOK, broker, databases
    <3> QED
      BY <1>1, <1>2, <1>3, <3>1
  <2>2. CASE m # n
    BY <1>4, <1>8, <2>2 DEF Select, Charge, Settle, Finish, TypeOK
  <2> QED
    BY <2>1, <2>2
<1>9. ASSUME NEW m \in Consumers, Conflict(m) \/ Fail(m) \/ Kill(m)
      PROVE  Good(n)'
  <2>1. PICK state : Stop(m, state)
    BY <1>9 DEF Conflict, Fail, Kill
  <2>2. m # n
    BY <2>1 DEF Stop, TypeOK
  <2>3. pos' = pos
    BY <1>9 DEF Conflict, Fail, Kill
  <2> QED
    BY <1>4, <2>1, <2>2, <2>3 DEF Stop, TypeOK
<1>10. ASSUME NEW m \in Consumers, Revoke(m) \/ CommitOffset(m)
       PROVE  Good(n)'
  BY <1>4, <1>10 DEF Revoke, CommitOffset, loops, TypeOK
<1>11. ASSUME NEW m \in Consumers, Restart(m)
       PROVE  Good(n)'
  <2>1. CASE m = n
    <3>1. /\ assigned[n] /\ pc[n] = "down" /\ pos'[n] = pos[n]
          /\ topic' = topic /\ processed' = processed
      BY <1>11, <2>1 DEF Restart, TypeOK, broker, databases
    <3>2. pos[n] <= Len(topic[a]) /\ \A i \in 1 .. pos[n] : topic[a][i] \in processed[a]
      BY <1>2, <3>1
    <3> QED
      BY <1>3, <3>1, <3>2
  <2>2. CASE m # n
    BY <1>4, <1>11, <2>2 DEF Restart, TypeOK
  <2> QED
    BY <2>1, <2>2
<1>12. ASSUME NEW b \in Aggregates,
              Publish(b) \/ Rewind(b) \/ Recreate(b) \/ Republish(b) \/ ResetOffsets(b)
       PROVE  Good(n)'
  BY <1>4, <1>12 DEF Publish, Rewind, Recreate, Republish, ResetOffsets, loops
<1>13. ASSUME NEW o \in Orders, NEW fail \in BOOLEAN, PlaceOrder(o, fail)
       PROVE  Good(n)'
  BY <1>4, <1>13 DEF PlaceOrder, loops
<1>14. CASE UNCHANGED vars
  BY <1>4, <1>14 DEF vars
<1> QED
  BY <1>6, <1>7, <1>8, <1>9, <1>10, <1>11, <1>12, <1>13, <1>14 DEF Next, Loop, Faulty

-----------------------------------------------------------------------------
(* The outbox loses nothing.                                               *)

LEMMA PublishedStep ==
  ASSUME TypeOK, Published, [Next]_vars
  PROVE  Published'
<1> SUFFICES ASSUME NEW b \in Aggregates, NEW i \in (slot'[b] + 1) .. relay'[b]
             PROVE  \E k \in 1 .. Len(topic'[b]) : topic'[b][k] = i
  BY DEF Published
<1>1. /\ relay[b] \in Nat /\ slot[b] \in Nat
      /\ Len(topic[b]) \in Nat /\ Len(topic'[b]) \in Nat
  BY TopicPrefix DEF TypeOK
<1>2. ASSUME i \in (slot[b] + 1) .. relay[b]
      PROVE  \E k \in 1 .. Len(topic'[b]) : topic'[b][k] = i
  <2>1. PICK k \in 1 .. Len(topic[b]) : topic[b][k] = i
    BY <1>2 DEF Published
  <2>2. k \in 1 .. Len(topic'[b]) /\ topic'[b][k] = i
    BY <1>1, <2>1, TopicPrefix
  <2> QED
    BY <2>2
<1>3. ASSUME NEW a \in Aggregates, Publish(a)
      PROVE  \E k \in 1 .. Len(topic'[b]) : topic'[b][k] = i
  <2>1. CASE i = relay[a] + 1 /\ a = b
    <3>1. relay[a] + 1 \in 1 .. Len(Rows(a))
      BY <1>3, PublishNext
    <3>2. topic' = [topic EXCEPT ![a] = Append(@, relay[a] + 1)]
      BY <1>3 DEF Publish
    <3>3. /\ Len(topic'[a]) = Len(topic[a]) + 1
          /\ topic'[a][Len(topic[a]) + 1] = relay[a] + 1
      BY <3>1, <3>2, TopicGrows
    <3> QED
      BY <1>1, <2>1, <3>3
  <2>2. CASE i # relay[a] + 1 \/ a # b
    <3>1. /\ relay' = [relay EXCEPT ![a] = @ + 1] /\ relay \in [Aggregates -> Nat]
          /\ slot' = slot
      BY <1>3 DEF Publish, TypeOK
    <3>2. i \in (slot[b] + 1) .. relay[b]
      BY <1>1, <2>2, <3>1
    <3> QED
      BY <1>2, <3>2
  <2> QED
    BY <2>1, <2>2
<1>4. ASSUME NEW a \in Aggregates, Rewind(a)
      PROVE  i \in (slot[b] + 1) .. relay[b]
  <2>1. PICK p \in slot[a] .. relay[a] : relay' = [relay EXCEPT ![a] = p] /\ slot' = slot
    BY <1>4 DEF Rewind
  <2>2. relay \in [Aggregates -> Nat] /\ slot \in [Aggregates -> Nat]
    BY DEF TypeOK
  <2> QED
    BY <2>1, <2>2
<1>5. ASSUME NEW a \in Aggregates, Republish(a) \/ ResetOffsets(a)
      PROVE  UNCHANGED connector
  BY <1>5 DEF Republish, ResetOffsets
<1>6. ASSUME NEW m \in Consumers, Loop(m) \/ CommitOffset(m) \/ Fail(m) \/ Kill(m) \/ Steal(m)
      PROVE  UNCHANGED connector
  BY <1>6 DEF Loop, Join, Revoke, Fetch, Select, Charge, Settle, Conflict, Restart,
              CommitOffset, Fail, Kill, Steal
<1>7. ASSUME NEW o \in Orders, NEW fail \in BOOLEAN, PlaceOrder(o, fail)
      PROVE  UNCHANGED connector
  BY <1>7 DEF PlaceOrder
<1>8. CASE UNCHANGED vars
  BY <1>2, <1>8 DEF vars
<1>9. CASE UNCHANGED connector
  BY <1>2, <1>9 DEF connector
<1>10. ASSUME NEW a \in Aggregates, Recreate(a)
       PROVE  i \in (slot[b] + 1) .. relay[b]
  <2>1. /\ relay' = [relay EXCEPT ![a] = Len(Rows(a))]
        /\ slot' = [slot EXCEPT ![a] = Len(Rows(a))]
    BY <1>10 DEF Recreate
  <2>2. relay \in [Aggregates -> Nat] /\ slot \in [Aggregates -> Nat]
    BY DEF TypeOK
  <2>3. Len(Rows(a)) \in Nat
    BY RowsType
  <2>4. a # b
    BY <2>1, <2>2, <2>3
  <2> QED
    BY <2>1, <2>2, <2>4
<1> QED
  BY <1>2, <1>3, <1>4, <1>5, <1>6, <1>7, <1>8, <1>9, <1>10 DEF Next, Faulty

-----------------------------------------------------------------------------
(* The inductive invariant holds, and with it the properties of the saga.  *)

LEMMA InitIInv == Init => IInv
<1> SUFFICES ASSUME Init PROVE IInv
  OBVIOUS
<1>1. TypeOK
  BY InitType
<1>2. Len(orderOutbox) = 0 /\ Len(paymentOutbox) = 0
  BY DEF Init
<1>3. DataInv
  BY <1>2 DEF Init, DataInv, OrderRows, PaymentRows, SettledOnce, Verdicts, Decided
<1>4. HandsInv /\ OffsetInv /\ Published
  BY ReadsType DEF Init, HandsInv, OffsetInv, CommittedProcessed, FetchedProcessed, Published
<1> QED
  BY <1>1, <1>3, <1>4 DEF IInv

\* The strengthened invariant: it is inductive, and every safety property
\* below is one of its parts or follows from them.
THEOREM Invariance == Spec => []IInv
<1>1. Init => IInv
  BY InitIInv
<1>2. IInv /\ [Next]_vars => IInv'
  BY TypeStep, HandsStep, DataStep, CommittedStep, FetchedStep, PublishedStep
     DEF IInv, OffsetInv
<1> QED
  BY <1>1, <1>2, PTL DEF Spec

\* The state keeps its type, and every event id names an existing outbox row.
THEOREM TypeCorrect == Spec => []TypeOK
<1>1. IInv => TypeOK
  BY DEF IInv
<1> QED
  BY <1>1, Invariance, PTL

\* No committed offset is ahead of a processed_events row (at-least-once).
THEOREM AtLeastOnce == Spec => []CommittedProcessed
<1>1. IInv => CommittedProcessed
  BY DEF IInv, OffsetInv
<1> QED
  BY <1>1, Invariance, PTL

\* order-db and payment-db never disagree about an order.
THEOREM Consistency == Spec => []SagaConsistent
<1>1. IInv => SagaConsistent
  <2> SUFFICES ASSUME IInv, NEW o \in Orders
               PROVE  /\ orders[o] = "CONFIRMED" => payments[o] = "COMPLETED" /\ ~failPayment[o]
                      /\ orders[o] = "CANCELLED" => payments[o] = "FAILED" /\ failPayment[o]
                      /\ orders[o] = "NONE" => payments[o] = "NONE"
    BY DEF SagaConsistent
  <2>1. payments[o] \in {"NONE", "COMPLETED", "FAILED"} /\ failPayment[o] \in BOOLEAN
    BY DEF IInv, TypeOK
  <2>2. payments[o] # "NONE" =>
          orders[o] # "NONE" /\ payments[o] = PaymentStatus(failPayment[o])
    BY DEF IInv, DataInv, PaymentRows
  <2>3. Decided(o) => payments[o] # "NONE" /\ orders[o] = NewStatus(payments[o])
    BY DEF IInv, DataInv, Verdicts
  <2> QED
    BY <2>1, <2>2, <2>3 DEF Decided, PaymentStatus, NewStatus
<1> QED
  BY <1>1, Invariance, PTL

\* However often an OrderCreated event is delivered, the order is charged once.
THEOREM ExactlyOnceCharge == Spec => []ChargedOnce
<1>1. IInv => ChargedOnce
  <2> SUFFICES ASSUME IInv PROVE ChargedOnce
    OBVIOUS
  <2>1. \A i \in 1 .. Len(orderOutbox) : orderOutbox[i].order \in Orders
    BY RowTypes DEF IInv, OrderRow
  <2>2. \A j \in 1 .. Len(paymentOutbox) :
          /\ paymentOutbox[j] =
                [order |-> paymentOutbox[j].order, status |-> paymentOutbox[j].status]
          /\ paymentOutbox[j].status # "NONE"
          /\ payments[paymentOutbox[j].order] = paymentOutbox[j].status
    BY RowTypes DEF IInv, PaymentRow, DataInv, PaymentRows
  <2>3. ASSUME NEW o \in Orders, payments[o] # "NONE"
        PROVE  \E j \in 1 .. Len(paymentOutbox) :
                 paymentOutbox[j] = [order |-> o, status |-> payments[o]]
    <3>1. PICK j \in 1 .. Len(paymentOutbox) : paymentOutbox[j].order = o
      BY <2>3 DEF IInv, DataInv, PaymentRows
    <3> QED
      BY <2>2, <3>1
  <2>4. ASSUME NEW o \in Orders, NEW j \in 1 .. Len(paymentOutbox),
               paymentOutbox[j] = [order |-> o, status |-> payments[o]]
        PROVE  payments[o] # "NONE"
    BY <2>2, <2>4
  <2> QED
    BY <2>1, <2>3, <2>4 DEF IInv, DataInv, PaymentRows, ChargedOnce
<1> QED
  BY <1>1, Invariance, PTL

\* A payment event decides its order exactly when it is marked processed.
THEOREM ExactlyOnceSettle == Spec => []SettledOnce
<1>1. IInv => SettledOnce
  BY DEF IInv, DataInv
<1> QED
  BY <1>1, Invariance, PTL

\* Every unprocessed event will be read, but for those older than a new slot.
THEOREM NothingLost == Spec => []EventNeverLost
<1>1. IInv => EventNeverLost
  <2> SUFFICES ASSUME IInv, NEW a \in Aggregates,
                      NEW i \in (1 .. Len(Rows(a))) \ processed[a],
                      ~(i > relay[a]), ~(i <= slot[a])
               PROVE  \E k \in 1 .. Len(topic[a]) : k > committed[a] /\ topic[a][k] = i
    BY DEF EventNeverLost
  <2>1. /\ relay[a] \in Nat /\ slot[a] \in Nat
        /\ committed[a] \in Nat /\ Len(Rows(a)) \in Nat
    BY RowsType DEF IInv, TypeOK
  <2>2. PICK k \in 1 .. Len(topic[a]) : topic[a][k] = i
    BY <2>1 DEF IInv, Published
  <2>3. ~(k \in 1 .. committed[a])
    BY <2>2 DEF IInv, OffsetInv, CommittedProcessed
  <2>4. Len(topic[a]) \in Nat
    BY LenProperties DEF IInv, TypeOK
  <2> QED
    BY <2>1, <2>2, <2>3, <2>4
<1> QED
  BY <1>1, Invariance, PTL

-----------------------------------------------------------------------------
(* The services implement the abstract saga.                               *)

\* A charge is the first one of its order, and the order is still open.
LEMMA ChargeIsFirst ==
  ASSUME TypeOK, HandsInv, DataInv, NEW m \in Consumers, Charge(m)
  PROVE  \E o \in Orders :
           /\ orders[o] = "CREATED"
           /\ payments[o] = "NONE"
           /\ payments' = [payments EXCEPT ![o] = PaymentStatus(failPayment[o])]
           /\ UNCHANGED <<orders, failPayment>>
<1>1. PICK i \in 1 .. Len(orderOutbox), o \in Orders :
        /\ o = orderOutbox[i].order
        /\ i \notin processed["Order"]
        /\ payments' = [payments EXCEPT ![o] =
              IF @ = "NONE" THEN PaymentStatus(orderOutbox[i].fail) ELSE @]
        /\ UNCHANGED <<orders, failPayment, orderOutbox>>
  BY ChargeEffect
<1>2. /\ payments[o] = "NONE"
      /\ orders[o] # "NONE"
      /\ orderOutbox[i].fail = failPayment[o]
  BY <1>1 DEF DataInv, PaymentRows, OrderRows
<1>3. orders[o] = "CREATED"
  BY <1>2 DEF TypeOK, DataInv, Verdicts, Decided
<1> QED
  BY <1>1, <1>2, <1>3

\* A verdict falls on an open order and is the one its payment calls for.
LEMMA SettleIsVerdict ==
  ASSUME TypeOK, HandsInv, DataInv, NEW m \in Consumers, Settle(m)
  PROVE  \E o \in Orders :
           /\ orders[o] = "CREATED"
           /\ payments[o] # "NONE"
           /\ orders' = [orders EXCEPT ![o] = NewStatus(payments[o])]
           /\ UNCHANGED <<failPayment, payments>>
<1>1. PICK j \in 1 .. Len(paymentOutbox), o \in Orders :
        /\ o = paymentOutbox[j].order
        /\ j \notin processed["Payment"]
        /\ orders' = [orders EXCEPT ![o] =
              IF @ = "NONE" THEN @ ELSE NewStatus(paymentOutbox[j].status)]
        /\ UNCHANGED <<failPayment, payments>>
  BY SettleEffect
<1>2. /\ payments[o] = paymentOutbox[j].status
      /\ payments[o] # "NONE"
      /\ orders[o] # "NONE"
      /\ ~Decided(o)
  BY <1>1, RowTypes DEF PaymentRow, DataInv, PaymentRows, SettledOnce
<1>3. orders[o] = "CREATED"
  BY <1>2 DEF TypeOK, Decided
<1> QED
  BY <1>1, <1>2, <1>3

\* Every behaviour of the two services, their outboxes, relays, topics and
\* consumers, with all the faults, is a behaviour of the abstract saga.
THEOREM Refinement == Spec => ImplementsSaga
<1>1. Init => Abstract!Init
  BY DEF Init, Abstract!Init
<1>2. IInv /\ [Next]_vars => [Abstract!Next]_(Abstract!vars)
  <2> SUFFICES ASSUME TypeOK, HandsInv, DataInv, [Next]_vars
               PROVE  Abstract!Next \/ UNCHANGED <<orders, failPayment, payments>>
    BY DEF IInv, Abstract!vars
  <2>1. ASSUME NEW o \in Orders, NEW fail \in BOOLEAN, PlaceOrder(o, fail)
        PROVE  Abstract!Next
    <3>1. Abstract!Place(o, fail)
      BY <2>1 DEF PlaceOrder, Abstract!Place
    <3> QED
      BY <3>1 DEF Abstract!Next
  <2>2. ASSUME NEW m \in Consumers, Charge(m)
        PROVE  Abstract!Next
    <3>1. PICK o \in Orders :
            /\ orders[o] = "CREATED"
            /\ payments[o] = "NONE"
            /\ payments' = [payments EXCEPT ![o] = PaymentStatus(failPayment[o])]
            /\ UNCHANGED <<orders, failPayment>>
      BY <2>2, ChargeIsFirst
    <3>2. Abstract!Pay(o)
      BY <3>1 DEF Abstract!Pay, Abstract!Result, PaymentStatus
    <3> QED
      BY <3>2 DEF Abstract!Next
  <2>3. ASSUME NEW m \in Consumers, Settle(m)
        PROVE  Abstract!Next
    <3>1. PICK o \in Orders :
            /\ orders[o] = "CREATED"
            /\ payments[o] # "NONE"
            /\ orders' = [orders EXCEPT ![o] = NewStatus(payments[o])]
            /\ UNCHANGED <<failPayment, payments>>
      BY <2>3, SettleIsVerdict
    <3>2. Abstract!Decide(o)
      BY <3>1 DEF Abstract!Decide, Abstract!Verdict, NewStatus
    <3> QED
      BY <3>2 DEF Abstract!Next
  <2> QED
    BY <2>1, <2>2, <2>3, DataSteps DEF databases
<1> QED
  BY <1>1, <1>2, Invariance, PTL DEF Spec, ImplementsSaga, Abstract!Spec

=============================================================================
