------------------------- MODULE OrderStatusProofs --------------------------
(***************************************************************************)
(* The safety properties of OrderStatus, for any number of orders,         *)
(* clients, poll attempts and failovers.  While its row is not lost an     *)
(* order's payment is settled once, so a decision agrees with it for good; *)
(* each acknowledgement, given or on its way, is paid for by a row that is *)
(* there or was lost; and what a handler has read is among what the row    *)
(* has been since its request came.                                        *)
(***************************************************************************)
EXTENDS OrderStatus, FiniteSetTheorems, TLAPS

\* A decided row agrees with its payment.
RowsPaid == \A o \in Orders : losses[o] = 0 => Agrees(o, orders[o])

\* The three parts of DecisionsTrue besides the types.
CacheTrue == \A o \in Orders : losses[o] = 0 => Agrees(o, cache[o])
RowTrue(k) == losses[Order(k)] = 0 => Agrees(Order(k), req[k].row)
AnswerTrue(k) == losses[Order(k)] = 0 => Agrees(Order(k), answer[k].status)
ClientsTrue == \A k \in Clients : RowTrue(k) /\ AnswerTrue(k)

\* The requests whose insert has committed and that are not answered yet.
Committed(k) == At(k, "place", "committed")
InFlight(o) == {k \in Clients : Committed(k) /\ Order(k) = o}

\* A row that is there, or was lost, is behind each 200 given or under way.
AckInv ==
  \A o \in Orders : acks[o] + Cardinality(InFlight(o)) <= losses[o] + Exists(o)

\* The row is seen by the requests under way, and what a handler has of it was
\* seen before; a poll that has not read anything yet shows nothing.
SeenInv ==
  \A k \in Clients :
    /\ req[k].at # "done" => orders[Order(k)] \in seen[k]
    /\ At(k, "status", "fill") => req[k].row # "NONE" /\ req[k].row \in seen[k]
    /\ At(k, "poll", "query") => (req[k].tries = 0 /\ req[k].row = "NONE") \/ req[k].row \in seen[k]
    /\ Committed(k) => "CREATED" \in seen[k]

IInv == TypeOK /\ RowsPaid /\ CacheTrue /\ ClientsTrue /\ AckInv /\ SeenInv

-----------------------------------------------------------------------------
\* Nothing is placed, cached, asked or answered at first.
LEMMA InitIInv == Init => IInv
<1> SUFFICES ASSUME Init PROVE IInv
  OBVIOUS
<1>1. failPayment \in [Orders -> BOOLEAN]
  BY Zenon DEF Init, Db!Init
<1>2. TypeOK
  <2>1. /\ orders \in [Orders -> Statuses] /\ payments \in [Orders -> {"NONE", "COMPLETED", "FAILED"}]
        /\ cache \in [Orders -> {"MISS", "CREATED"} \cup Decisions]
    BY DEF Init, Db!Init, Statuses
  <2>2. req \in [Clients -> Requests]
    BY AttemptsAssumption DEF Init, Over, Statuses, Requests, Operations
  <2>3. answer \in [Clients -> Answers] /\ seen \in [Clients -> SUBSET Statuses]
    BY DEF Init, Statuses, Answers, NoAnswer
  <2>4. 0 \in 0 .. Many
    BY FailoversAssumption DEF Many
  <2>5. /\ acks \in [Orders -> 0 .. Many] /\ failovers \in 0 .. MaxFailovers
        /\ losses \in [Orders -> Nat] /\ undone \subseteq Orders
    BY <2>4, FailoversAssumption DEF Init
  <2> QED BY <1>1, <2>1, <2>2, <2>3, <2>5, Zenon DEF TypeOK
<1>3. RowsPaid /\ CacheTrue /\ ClientsTrue
  BY DEF Init, Over, Db!Init, RowsPaid, CacheTrue, ClientsTrue, RowTrue, AnswerTrue, Agrees,
         Decisions, NoAnswer
<1>4. AckInv
  <2> SUFFICES ASSUME NEW o \in Orders
               PROVE  acks[o] + Cardinality(InFlight(o)) <= losses[o] + Exists(o)
    BY DEF AckInv
  <2>1. InFlight(o) = {}
    BY DEF Init, Over, InFlight, Committed, At
  <2>2. Cardinality(InFlight(o)) = 0
    BY <2>1, FS_EmptySet
  <2>3. acks[o] = 0 /\ losses[o] = 0 /\ Exists(o) = 0
    BY DEF Init, Db!Init, Exists
  <2> QED BY <2>2, <2>3
<1>5. SeenInv
  BY DEF Init, Over, SeenInv, Committed, At
<1> QED BY <1>2, <1>3, <1>4, <1>5 DEF IInv

-----------------------------------------------------------------------------
\* Steps of the database.  None loses sight of a row lost before, and one that
\* does not lose the row of o keeps what may be told of it.
Kept(o) ==
  losses'[o] = 0 =>
    losses[o] = 0 /\ \A status \in Statuses \cup {"MISS"} : Agrees(o, status) => Agrees(o, status)'

\* A row that appears or is lost pays for one acknowledgement.
Paid(o) == losses[o] + Exists(o) <= losses'[o] + Exists(o)'

\* A step of the database keeps the invariant if it keeps those two facts and
\* is seen by the requests under way.
LEMMA DbStep ==
  ASSUME IInv, TypeOK', RowsPaid', RowsSeen, UNCHANGED <<cache, req, answer, acks>>,
         \A o \in Orders : Kept(o) /\ Paid(o)
  PROVE  IInv'
<1>1. /\ \A k \in Clients : Order(k) \in Orders /\ Order(k)' = Order(k)
      /\ \A k \in Clients : req[k].row \in Statuses /\ answer[k].status \in Statuses
      /\ \A o \in Orders : cache[o] \in Statuses \cup {"MISS"}
  BY DEF IInv, TypeOK, Requests, Answers, Order, Statuses, Decisions
<1>2. CacheTrue'
  BY <1>1 DEF IInv, CacheTrue, Kept, Agrees
<1>3. ClientsTrue'
  BY <1>1 DEF IInv, ClientsTrue, RowTrue, AnswerTrue, Kept, Agrees, Order
<1>4. AckInv'
  <2> SUFFICES ASSUME NEW o \in Orders
               PROVE  acks'[o] + Cardinality(InFlight(o)') <= losses'[o] + Exists(o)'
    BY DEF AckInv
  <2>1. InFlight(o)' = InFlight(o)
    BY <1>1 DEF InFlight, Committed, At
  <2>2. Cardinality(InFlight(o)) \in Nat
    BY FailoversAssumption, FS_Subset, FS_CardinalityType DEF InFlight
  <2>3. /\ acks[o] \in Nat /\ losses[o] \in Nat /\ losses'[o] \in Nat
        /\ Exists(o) \in Nat /\ Exists(o)' \in Nat
    BY FailoversAssumption DEF IInv, TypeOK, Many, Exists
  <2> QED BY <2>1, <2>2, <2>3 DEF IInv, AckInv, Paid
<1>5. /\ \A k \in Clients : seen[k] \subseteq seen'[k]
      /\ \A k \in Clients : req[k].at # "done" => orders'[Order(k)] \in seen'[k]
  BY DEF RowsSeen
<1>6. SeenInv'
  BY <1>1, <1>5 DEF IInv, SeenInv, Committed, At, Order
<1> QED BY <1>2, <1>3, <1>4, <1>6 DEF IInv

\* The types of what a step of the database changes.
LEMMA DbTypes ==
  ASSUME TypeOK, RowsSeen, UNCHANGED <<cache, req, answer, acks>>,
         orders' \in [Orders -> Statuses],
         failPayment' \in [Orders -> BOOLEAN],
         payments' \in [Orders -> {"NONE", "COMPLETED", "FAILED"}],
         failovers' \in 0 .. MaxFailovers, losses' \in [Orders -> Nat], undone' \subseteq Orders
  PROVE  TypeOK'
<1>1. seen' \in [Clients -> SUBSET Statuses]
  <2>1. \A k \in Clients : orders'[Order(k)] \in Statuses
    BY DEF TypeOK, Requests, Order
  <2> QED BY <2>1 DEF RowsSeen, TypeOK
<1> QED BY <1>1 DEF TypeOK

\* A payment, and the decision it calls for.
LEMMA SagaSteps ==
  ASSUME IInv, NEW o \in Orders, Pay(o) \/ Decide(o)
  PROVE  IInv'
<1>1. RowsSeen /\ UNCHANGED <<cache, req, answer, acks, failovers, losses, undone, failPayment>>
  BY DEF Pay, Decide, Db!Pay, Db!Decide, cluster
<1>2. TypeOK'
  <2>1. orders' \in [Orders -> Statuses] /\ payments' \in [Orders -> {"NONE", "COMPLETED", "FAILED"}]
    BY DEF Pay, Decide, Db!Pay, Db!Decide, Db!Verdict, Db!Result, IInv, TypeOK, Statuses
  <2>2. failPayment' \in [Orders -> BOOLEAN]
    BY <1>1, Zenon DEF IInv, TypeOK
  <2> QED BY <1>1, <2>1, <2>2, DbTypes DEF IInv, TypeOK
<1>3. \A p \in Orders : Kept(p) /\ Paid(p)
  <2>1. CASE Pay(o)
    <3>1. /\ orders[o] = "CREATED" /\ payments[o] = "NONE" /\ orders' = orders
          /\ \A p \in Orders \ {o} : payments'[p] = payments[p]
      BY <2>1 DEF Pay, Db!Pay, IInv, TypeOK
    <3> QED BY <1>1, <3>1 DEF Kept, Paid, Agrees, Exists, IInv, TypeOK
  <2>2. CASE Decide(o)
    <3>1. /\ orders[o] = "CREATED" /\ payments[o] # "NONE" /\ payments' = payments
          /\ orders'[o] = Db!Verdict(payments[o])
          /\ \A p \in Orders \ {o} : orders'[p] = orders[p]
      BY <2>2 DEF Decide, Db!Decide, IInv, TypeOK
    <3>2. orders'[o] # "NONE"
      BY <3>1 DEF Db!Verdict
    <3> QED BY <1>1, <3>1, <3>2 DEF Kept, Paid, Agrees, Exists, IInv, TypeOK
  <2> QED BY <2>1, <2>2
<1>4. RowsPaid'
  BY <1>1 DEF Pay, Decide, Db!Pay, Db!Decide, Agrees, RowsPaid, IInv, TypeOK, Decisions
<1> QED BY <1>1, <1>2, <1>3, <1>4, DbStep

\* A failover takes rows and decisions back and counts what it takes.
LEMMA FailoverStep ==
  ASSUME IInv, Failover
  PROVE  IInv'
<1>1. /\ RowsSeen /\ UNCHANGED <<cache, req, answer, acks, failPayment, payments>>
      /\ orders' \in [Orders -> Statuses] /\ \A o \in Orders : orders'[o] \in Before(orders[o])
      /\ failovers' \in 0 .. MaxFailovers
  BY FailoversAssumption DEF Failover, IInv, TypeOK
<1>2. losses \in [Orders -> Nat] /\ orders \in [Orders -> Statuses] /\ undone \subseteq Orders
  BY DEF IInv, TypeOK
<1>3. \A o \in Orders : losses'[o] = IF orders'[o] # orders[o] /\ orders'[o] = "NONE"
                                     THEN losses[o] + 1 ELSE losses[o]
  BY DEF Failover
<1>4. losses' \in [Orders -> Nat]
  BY <1>2 DEF Failover
<1>5. undone' = undone \cup {o \in Orders : orders[o] \in Decisions /\ orders'[o] = "CREATED"}
  BY DEF Failover
<1>6. TypeOK'
  <2>1. failPayment' \in [Orders -> BOOLEAN]
    BY <1>1, Zenon DEF IInv, TypeOK
  <2> QED BY <1>1, <1>2, <1>4, <1>5, <2>1, DbTypes DEF IInv, TypeOK
<1>7. ASSUME NEW o \in Orders PROVE Kept(o) /\ Paid(o)
  <2>1. orders'[o] = orders[o] \/ orders'[o] = "NONE"
          \/ (orders[o] \in Decisions /\ orders'[o] = "CREATED")
    BY <1>1 DEF Before
  <2>2. Paid(o)
    BY <1>2, <1>3, <2>1 DEF Paid, Exists, Decisions
  <2>3. ASSUME losses'[o] = 0 PROVE losses[o] = 0 /\ (orders'[o] = "NONE" => orders[o] = "NONE")
    BY <1>2, <1>3, <2>3
  <2>4. Kept(o)
    BY <1>1, <1>5, <2>1, <2>3 DEF Kept, Agrees, Decisions
  <2> QED BY <2>2, <2>4
<1>8. RowsPaid'
  <2> SUFFICES ASSUME NEW o \in Orders, losses'[o] = 0 PROVE Agrees(o, orders[o])'
    BY DEF RowsPaid
  <2>1. losses[o] = 0
    BY <1>7 DEF Kept
  <2>2. orders'[o] = orders[o] \/ orders'[o] \notin Decisions
    BY <1>1 DEF Before, Decisions
  <2> QED BY <1>1, <2>1, <2>2 DEF IInv, RowsPaid, Agrees
<1> QED BY <1>1, <1>6, <1>7, <1>8, DbStep

\* Events of a lost placement touch only orders that have lost a row.
LEMMA StraySteps ==
  ASSUME IInv, NEW o \in Orders, StrayPayment(o) \/ StrayDecision(o)
  PROVE  IInv'
<1>1. /\ UNCHANGED <<cache, req, answer, acks, failPayment, failovers, losses, undone>>
      /\ losses[o] > 0
  BY DEF StrayPayment, StrayDecision, cluster
<1>2. RowsSeen
  <2>1. CASE StrayPayment(o)
    <3>1. seen' = seen /\ orders' = orders /\ seen \in [Clients -> SUBSET Statuses]
      BY <2>1 DEF StrayPayment, IInv, TypeOK
    <3>2. \A k \in Clients : seen[k] = IF req[k].at = "done" THEN seen[k]
                                       ELSE seen[k] \cup {orders[Order(k)]}
      BY DEF IInv, SeenInv
    <3> QED BY <3>1, <3>2 DEF RowsSeen
  <2>2. CASE StrayDecision(o)
    BY <2>2 DEF StrayDecision
  <2> QED BY <2>1, <2>2
<1>3. TypeOK'
  <2>1. orders' \in [Orders -> Statuses] /\ payments' \in [Orders -> {"NONE", "COMPLETED", "FAILED"}]
    BY DEF StrayPayment, StrayDecision, Db!Result, IInv, TypeOK, Statuses, Decisions
  <2>2. failPayment' \in [Orders -> BOOLEAN]
    BY <1>1, Zenon DEF IInv, TypeOK
  <2> QED BY <1>1, <1>2, <2>1, <2>2, DbTypes DEF IInv, TypeOK
<1>4. /\ \A p \in Orders \ {o} : orders'[p] = orders[p] /\ payments'[p] = payments[p]
      /\ orders'[o] = "NONE" <=> orders[o] = "NONE"
  BY DEF StrayPayment, StrayDecision, IInv, TypeOK, Decisions
<1>5. \A p \in Orders : Kept(p) /\ Paid(p)
  BY <1>1, <1>4 DEF Kept, Paid, Agrees, Exists, IInv, TypeOK
<1>6. RowsPaid'
  BY <1>1, <1>4 DEF RowsPaid, Agrees, IInv
<1> QED BY <1>1, <1>2, <1>3, <1>5, <1>6, DbStep

-----------------------------------------------------------------------------
\* A key leaves the cache.
LEMMA ExpireStep ==
  ASSUME IInv, NEW o \in Orders, Expire(o)
  PROVE  IInv'
<1>1. /\ UNCHANGED <<orders, failPayment, payments, req, answer, seen, acks>>
      /\ UNCHANGED <<failovers, losses, undone>>
      /\ cache' = [cache EXCEPT ![o] = "MISS"]
  BY DEF Expire, saga, cluster
<1>2. cache' \in [Orders -> {"MISS", "CREATED"} \cup Decisions]
  BY <1>1 DEF IInv, TypeOK
<1>3. TypeOK' /\ CacheTrue'
  BY <1>1, <1>2 DEF IInv, TypeOK, CacheTrue, Agrees, Decisions
<1>4. RowsPaid' /\ ClientsTrue'
  BY <1>1 DEF IInv, RowsPaid, ClientsTrue, RowTrue, AnswerTrue, Agrees, Order
<1>5. AckInv' /\ SeenInv'
  BY <1>1 DEF IInv, AckInv, InFlight, Committed, Exists, SeenInv,
              At, Order
<1> QED BY <1>3, <1>4, <1>5 DEF IInv

\* A request arrives with nothing read and nothing answered, and sees the row.
LEMMA RequestStep ==
  ASSUME IInv, NEW k \in Clients, NEW op \in Operations, NEW o \in Orders, Request(k, op, o)
  PROVE  IInv'
<1> DEFINE new == [op |-> op, order |-> o, row |-> "NONE", tries |-> 0, at |-> FirstStep(op)]
<1>1. FirstStep(op) \in {"insert", "cache", "query"} /\ (op # "poll" => FirstStep(op) # "query")
  BY DEF FirstStep, Operations
<1>2. new \in Requests
  BY <1>1, AttemptsAssumption DEF Requests, Statuses
<1>3. /\ req' = [req EXCEPT ![k] = new]
      /\ seen' = [seen EXCEPT ![k] = {orders[o]}]
      /\ answer' = [answer EXCEPT ![k] = NoAnswer]
      /\ orders' = orders /\ failPayment' = failPayment /\ payments' = payments
      /\ cache' = cache /\ acks' = acks
      /\ failovers' = failovers /\ losses' = losses /\ undone' = undone
  BY DEF Request, saga, cluster
<1>4. TypeOK'
  <2>1. NoAnswer \in Answers /\ {orders[o]} \subseteq Statuses
    BY DEF Answers, NoAnswer, Statuses, IInv, TypeOK
  <2> QED BY <1>2, <1>3, <2>1 DEF IInv, TypeOK
<1> HIDE DEF new
<1>5. /\ req'[k] = new /\ seen'[k] = {orders[o]} /\ answer'[k] = NoAnswer
      /\ \A j \in Clients \ {k} :
           req'[j] = req[j] /\ seen'[j] = seen[j] /\ answer'[j] = answer[j]
  BY <1>3 DEF IInv, TypeOK
<1>6. /\ new.op = op /\ new.order = o /\ new.row = "NONE" /\ new.tries = 0
      /\ new.at = FirstStep(op)
  BY DEF new
<1>7. RowsPaid' /\ CacheTrue' /\ ClientsTrue'
  BY <1>3, <1>5, <1>6
  DEF IInv, RowsPaid, CacheTrue, ClientsTrue, RowTrue, AnswerTrue, Agrees, Order, Decisions,
      NoAnswer
<1>8. ~Committed(k)' /\ ~Committed(k)
  BY <1>1, <1>5, <1>6 DEF Request, Committed, At
<1>9. AckInv'
  <2>1. \A p \in Orders : InFlight(p)' = InFlight(p)
    BY <1>5, <1>8 DEF InFlight, Committed, At, Order
  <2> QED BY <1>3, <2>1 DEF IInv, AckInv, Exists
<1>10. SeenInv'
  BY <1>1, <1>3, <1>5, <1>6, <1>8
  DEF IInv, SeenInv, Committed, At, Order, NoAnswer
<1> QED BY <1>4, <1>7, <1>9, <1>10 DEF IInv

-----------------------------------------------------------------------------
\* The insert commits a row where there was none: it pays for the answer.
LEMMA InsertStep ==
  ASSUME IInv, NEW k \in Clients, NEW fail \in BOOLEAN, Insert(k, fail)
  PROVE  IInv'
<1> DEFINE o == Order(k)
<1>1. o \in Orders /\ orders \in [Orders -> Statuses] /\ req \in [Clients -> Requests]
  BY DEF IInv, TypeOK, Requests, Order
<1>2. /\ orders[o] = "NONE" /\ orders'[o] = "CREATED"
      /\ \A p \in Orders \ {o} : orders'[p] = orders[p]
      /\ orders' \in [Orders -> Statuses]
  BY <1>1 DEF Insert, Db!Place, Statuses
<1>3. /\ UNCHANGED <<payments, cache, answer, acks, failovers, losses, undone>>
      /\ RowsSeen
  BY DEF Insert, Db!Place, cluster
<1>4. At(k, "place", "insert") /\ req' = [req EXCEPT ![k].at = "committed"]
  BY DEF Insert
<1>5. /\ req' \in [Clients -> Requests]
      /\ req'[k].at = "committed" /\ req'[k].op = "place" /\ req'[k].row = req[k].row
      /\ req'[k].order = o
      /\ \A j \in Clients \ {k} : req'[j] = req[j]
  BY <1>1, <1>4 DEF Requests, At, Order
<1>6. \A j \in Clients : req'[j].order = req[j].order /\ req[j].order \in Orders
                          /\ req'[j].row = req[j].row
  BY <1>1, <1>5 DEF Requests, Order
<1>7. failPayment' \in [Orders -> BOOLEAN]
  BY Zenon DEF Insert, Db!Place, IInv, TypeOK
<1>8. /\ \A j \in Clients : seen[j] \subseteq seen'[j]
      /\ \A j \in Clients : req[j].at # "done" => orders'[Order(j)] \in seen'[j]
      /\ seen' \in [Clients -> SUBSET Statuses]
  <2>1. \A j \in Clients : orders'[Order(j)] \in Statuses
    BY <1>2, <1>6 DEF Order
  <2> QED BY <1>3, <2>1 DEF RowsSeen, IInv, TypeOK
<1>9. TypeOK'
  BY <1>2, <1>3, <1>5, <1>7, <1>8 DEF IInv, TypeOK
<1>10. \A p \in Orders, status \in Statuses \cup {"MISS"} :
         losses[p] = 0 /\ Agrees(p, status) => Agrees(p, status)'
  BY <1>2, <1>3 DEF Agrees, Decisions
<1>11. RowsPaid' /\ CacheTrue'
  BY <1>2, <1>3, <1>10 DEF IInv, RowsPaid, CacheTrue, TypeOK, Agrees, Decisions
<1>12. ClientsTrue'
  <2>1. \A j \in Clients : req[j].row \in Statuses /\ answer[j].status \in Statuses
    BY DEF IInv, TypeOK, Requests, Answers
  <2> QED BY <1>3, <1>6, <1>10, <2>1 DEF IInv, ClientsTrue, RowTrue, AnswerTrue, Agrees, Order
<1>13. AckInv'
  <2> SUFFICES ASSUME NEW p \in Orders
               PROVE  acks'[p] + Cardinality(InFlight(p)') <= losses'[p] + Exists(p)'
    BY DEF AckInv
  <2>1. IsFiniteSet(InFlight(p)) /\ Cardinality(InFlight(p)) \in Nat
    BY FailoversAssumption, FS_Subset, FS_CardinalityType DEF InFlight
  <2>2. acks[p] \in Nat /\ losses[p] \in Nat
    BY FailoversAssumption DEF IInv, TypeOK, Many
  <2>3. acks[p] + Cardinality(InFlight(p)) <= losses[p] + Exists(p)
    BY DEF IInv, AckInv
  <2>4. CASE p = o
    <3>1. InFlight(p)' = InFlight(p) \cup {k} /\ k \notin InFlight(p)
      BY <1>4, <1>5, <2>4 DEF InFlight, Committed, At, Order
    <3>2. Cardinality(InFlight(p)') = Cardinality(InFlight(p)) + 1
      BY <2>1, <3>1, FS_AddElement
    <3>3. Exists(p) = 0 /\ Exists(p)' = 1
      BY <1>2, <2>4 DEF Exists
    <3> QED BY <1>3, <2>1, <2>2, <2>3, <3>2, <3>3
  <2>5. CASE p # o
    <3>1. InFlight(p)' = InFlight(p)
      BY <1>4, <1>5, <2>5 DEF InFlight, Committed, At, Order
    <3>2. Exists(p)' = Exists(p)
      BY <1>2, <2>5 DEF Exists
    <3> QED BY <1>3, <2>3, <3>1, <3>2
  <2> QED BY <2>4, <2>5
<1>14. SeenInv'
  <2>1. "CREATED" \in seen'[k]
    BY <1>2, <1>4, <1>8 DEF At
  <2> QED BY <1>3, <1>4, <1>5, <1>6, <1>8, <2>1
      DEF IInv, SeenInv, Committed, At, Order
<1> QED BY <1>9, <1>11, <1>12, <1>13, <1>14 DEF IInv

\* A handler that answers keeps what is said of requests if the answer agrees
\* with the payment.
LEMMA FinishStep ==
  ASSUME IInv, NEW k \in Clients, NEW a \in Answers, Finish(k, a), UNCHANGED saga,
         losses[Order(k)] = 0 => Agrees(Order(k), a.status)
  PROVE  /\ req' \in [Clients -> Requests] /\ answer' \in [Clients -> Answers]
         /\ seen' \in [Clients -> SUBSET Statuses]
         /\ UNCHANGED <<failovers, losses, undone>>
         /\ ClientsTrue' /\ SeenInv' /\ RowsPaid'
         /\ \A o \in Orders : InFlight(o)' = InFlight(o) \ {k}
<1>0. /\ req \in [Clients -> Requests] /\ answer \in [Clients -> Answers]
      /\ seen \in [Clients -> SUBSET Statuses] /\ Order(k) \in Orders
  BY DEF IInv, TypeOK, Requests, Order
<1>a. Over(Order(k)) \in Requests
  BY <1>0, AttemptsAssumption DEF Over, Requests, Operations, Statuses
<1>b. /\ req' \in [Clients -> Requests] /\ req'[k] = Over(Order(k))
      /\ req'[k].at = "done" /\ req'[k].row = "NONE" /\ req'[k].order = req[k].order
      /\ \A j \in Clients \ {k} : req'[j] = req[j]
  <2>1. req' = [req EXCEPT ![k] = Over(Order(k))]
    BY DEF Finish
  <2>2. /\ req' \in [Clients -> Requests] /\ req'[k] = Over(Order(k))
        /\ \A j \in Clients \ {k} : req'[j] = req[j]
    BY <1>0, <1>a, <2>1
  <2> QED BY <2>2 DEF Over, Order
<1>1. /\ answer' \in [Clients -> Answers] /\ answer'[k] = a
      /\ seen' \in [Clients -> SUBSET Statuses]
      /\ \A j \in Clients \ {k} : answer'[j] = answer[j] /\ seen'[j] = seen[j]
      /\ UNCHANGED <<failovers, losses, undone, orders, payments>>
  BY <1>0 DEF Finish, saga, cluster
<1>2. ClientsTrue'
  BY <1>b, <1>1 DEF IInv, ClientsTrue, RowTrue, AnswerTrue, Agrees, Order, Decisions
<1>3. SeenInv'
  BY <1>b, <1>1 DEF IInv, SeenInv, Committed, Order, At
<1>4. RowsPaid'
  BY <1>1 DEF IInv, RowsPaid, Agrees
<1>5. \A o \in Orders : InFlight(o)' = InFlight(o) \ {k}
  BY <1>b DEF InFlight, Committed, At, Order
<1> QED BY <1>b, <1>1, <1>2, <1>3, <1>4, <1>5

\* One request in flight less.
LEMMA InFlightLess ==
  ASSUME NEW o \in Orders, NEW k \in Clients
  PROVE  /\ Cardinality(InFlight(o)) \in Nat /\ Cardinality(InFlight(o) \ {k}) \in Nat
         /\ Cardinality(InFlight(o) \ {k}) = IF k \in InFlight(o) THEN Cardinality(InFlight(o)) - 1
                                                              ELSE Cardinality(InFlight(o))
<1>1. IsFiniteSet(InFlight(o))
  BY FailoversAssumption, FS_Subset DEF InFlight
<1> QED BY <1>1, FS_RemoveElement, FS_CardinalityType

\* Answers that change nothing but the handler.
LEMMA AnswerSteps ==
  ASSUME IInv, NEW k \in Clients,
         \/ InsertFails(k) \/ CommitUnknown(k) \/ CacheHit(k) \/ PollEnds(k) \/ Drop(k)
         \/ QueryRow(k) /\ NotFound(k)
  PROVE  IInv'
<1>1. /\ req \in [Clients -> Requests] /\ Order(k) \in Orders
      /\ cache[Order(k)] \in {"MISS", "CREATED"} \cup Decisions
      /\ req[k].row \in Statuses /\ req[k].tries \in 0 .. MaxAttempts
  BY DEF IInv, TypeOK, Requests, Order
<1>2. PICK a \in Answers :
        /\ Finish(k, a)
        /\ losses[Order(k)] = 0 => Agrees(Order(k), a.status)
  <2>1. CASE InsertFails(k) \/ CommitUnknown(k)
    BY <2>1 DEF InsertFails, CommitUnknown, Error, Answers, Statuses, Decisions, Agrees
  <2>2. CASE Drop(k)
    BY <2>2 DEF Drop, NoAnswer, Answers, Statuses, Decisions, Agrees
  <2>3. CASE CacheHit(k)
    <3> DEFINE a == [source |-> "cache", status |-> cache[Order(k)]]
    <3>1. Finish(k, a) /\ a \in Answers
      BY <1>1, <2>3 DEF CacheHit, Key, Answers, Statuses, Decisions
    <3> QED BY <1>1, <3>1 DEF IInv, CacheTrue
  <2>4. CASE PollEnds(k)
    <3>1. Finish(k, FromDb(req[k].row)) /\ FromDb(req[k].row) \in Answers
      BY <1>1, <2>4 DEF PollEnds, FromDb, Answers
    <3>2. losses[Order(k)] = 0 => Agrees(Order(k), req[k].row)
      BY DEF IInv, ClientsTrue, RowTrue
    <3> QED BY <3>1, <3>2 DEF FromDb
  <2>5. CASE QueryRow(k) /\ NotFound(k)
    <3>1. Finish(k, FromDb("NONE")) /\ FromDb("NONE") \in Answers
      BY <2>5 DEF QueryRow, FromDb, Answers, Statuses
    <3> QED BY <3>1 DEF FromDb, Decisions, Agrees
  <2> QED BY <2>1, <2>2, <2>3, <2>4, <2>5
<1>3. UNCHANGED <<saga, cache, acks>>
  BY DEF InsertFails, CommitUnknown, CacheHit, PollEnds, Drop, QueryRow
<1>4. /\ req' \in [Clients -> Requests] /\ answer' \in [Clients -> Answers]
      /\ seen' \in [Clients -> SUBSET Statuses]
      /\ UNCHANGED <<failovers, losses, undone>>
      /\ ClientsTrue' /\ SeenInv' /\ RowsPaid'
      /\ \A o \in Orders : InFlight(o)' = InFlight(o) \ {k}
  BY <1>2, <1>3, FinishStep
<1>5. TypeOK' /\ CacheTrue'
  BY <1>3, <1>4 DEF IInv, TypeOK, CacheTrue, Agrees, saga
<1>6. AckInv'
  <2> SUFFICES ASSUME NEW o \in Orders
               PROVE  acks'[o] + Cardinality(InFlight(o)') <= losses'[o] + Exists(o)'
    BY DEF AckInv
  <2>1. /\ Cardinality(InFlight(o)) \in Nat /\ Cardinality(InFlight(o)') \in Nat
        /\ Cardinality(InFlight(o)') <= Cardinality(InFlight(o))
    BY <1>4, InFlightLess
  <2>2. acks[o] \in Nat /\ losses[o] \in Nat /\ Exists(o) \in Nat
    BY FailoversAssumption DEF IInv, TypeOK, Many, Exists
  <2>3. acks[o] + Cardinality(InFlight(o)) <= losses[o] + Exists(o)
    BY DEF IInv, AckInv
  <2>4. acks' = acks /\ losses' = losses /\ Exists(o)' = Exists(o)
    BY <1>3, <1>4 DEF saga, Exists
  <2> QED BY <2>1, <2>2, <2>3, <2>4
<1> QED BY <1>4, <1>5, <1>6 DEF IInv

\* The request that committed the insert is told 200: its row pays for it.
LEMMA PlacedStep ==
  ASSUME IInv, NEW k \in Clients, Placed(k)
  PROVE  IInv'
<1> DEFINE o == Order(k)
<1>1. Committed(k) /\ o \in Orders
  BY DEF Placed, Committed, IInv, TypeOK, Requests, Order
<1>2. /\ req' \in [Clients -> Requests] /\ answer' \in [Clients -> Answers]
      /\ seen' \in [Clients -> SUBSET Statuses]
      /\ UNCHANGED <<failovers, losses, undone>>
      /\ ClientsTrue' /\ SeenInv' /\ RowsPaid'
      /\ \A p \in Orders : InFlight(p)' = InFlight(p) \ {k}
  <2>1. Finish(k, FromDb("CREATED")) /\ UNCHANGED saga /\ FromDb("CREATED") \in Answers
    BY DEF Placed, FromDb, Answers, Statuses
  <2>2. Agrees(o, "CREATED")
    BY DEF Agrees, Decisions
  <2> QED BY <2>1, <2>2, FinishStep DEF FromDb
<1>3. UNCHANGED saga /\ cache' = cache
  BY DEF Placed
<1>4. /\ acks \in [Orders -> 0 .. Many] /\ acks' \in [Orders -> 0 .. Many]
      /\ acks'[o] <= acks[o] + 1 /\ \A p \in Orders \ {o} : acks'[p] = acks[p]
  <2>1. /\ acks \in [Orders -> 0 .. Many] /\ Many \in Nat
        /\ acks' = [acks EXCEPT ![o] = IF @ < Many THEN @ + 1 ELSE @]
    BY FailoversAssumption DEF Placed, IInv, TypeOK, Many
  <2>2. /\ acks'[o] = IF acks[o] < Many THEN acks[o] + 1 ELSE acks[o]
        /\ \A p \in Orders \ {o} : acks'[p] = acks[p]
        /\ DOMAIN acks' = Orders /\ acks' = [p \in Orders |-> acks'[p]]
    BY <1>1, <2>1
  <2>3. acks[o] \in 0 .. Many /\ acks'[o] \in 0 .. Many /\ acks'[o] <= acks[o] + 1
    BY <1>1, <2>1, <2>2
  <2>4. \A p \in Orders : acks'[p] \in 0 .. Many
    BY <2>1, <2>2, <2>3
  <2>5. acks' \in [Orders -> 0 .. Many]
    BY <2>2, <2>4
  <2> QED BY <2>1, <2>2, <2>3, <2>5
<1>5. TypeOK' /\ CacheTrue'
  BY <1>2, <1>3, <1>4 DEF IInv, TypeOK, CacheTrue, Agrees, saga
<1>6. AckInv'
  <2> SUFFICES ASSUME NEW p \in Orders
               PROVE  acks'[p] + Cardinality(InFlight(p)') <= losses'[p] + Exists(p)'
    BY DEF AckInv
  <2>1. /\ Cardinality(InFlight(p)) \in Nat /\ Cardinality(InFlight(p)') \in Nat
        /\ Cardinality(InFlight(p)') <= Cardinality(InFlight(p))
        /\ p = o => Cardinality(InFlight(p)') = Cardinality(InFlight(p)) - 1
    <3>1. InFlight(p)' = InFlight(p) \ {k}
      BY <1>2
    <3>2. p = o => k \in InFlight(p)
      BY <1>1 DEF InFlight
    <3> QED BY <3>1, <3>2, InFlightLess
  <2>2. acks[p] \in Nat /\ acks'[p] \in Nat /\ losses[p] \in Nat /\ Exists(p) \in Nat
    BY <1>4, FailoversAssumption DEF IInv, TypeOK, Many, Exists
  <2>3. acks[p] + Cardinality(InFlight(p)) <= losses[p] + Exists(p)
    BY DEF IInv, AckInv
  <2>4. losses' = losses /\ Exists(p)' = Exists(p)
    BY <1>2, <1>3 DEF saga, Exists
  <2> QED BY <1>4, <2>1, <2>2, <2>3, <2>4
<1> QED BY <1>2, <1>5, <1>6 DEF IInv

\* The row that a handler has read goes into the cache and into the answer.
LEMMA FillStep ==
  ASSUME IInv, NEW k \in Clients, Fill(k)
  PROVE  IInv'
<1> DEFINE o == Order(k)
           row == req[k].row
<1>1. o \in Orders /\ row \in Statuses
  BY DEF IInv, TypeOK, Requests, Order
<1>2. row # "NONE"
  BY DEF Fill, IInv, SeenInv
<1>3. losses[o] = 0 => Agrees(o, row)
  BY DEF IInv, ClientsTrue, RowTrue
<1>4. /\ req' \in [Clients -> Requests] /\ answer' \in [Clients -> Answers]
      /\ seen' \in [Clients -> SUBSET Statuses]
      /\ UNCHANGED <<failovers, losses, undone>>
      /\ ClientsTrue' /\ SeenInv' /\ RowsPaid'
      /\ \A p \in Orders : InFlight(p)' = InFlight(p) \ {k}
  <2>1. Finish(k, FromDb(row)) /\ UNCHANGED saga /\ FromDb(row) \in Answers
    BY <1>1 DEF Fill, FromDb, Answers
  <2> QED BY <1>2, <1>3, <2>1, FinishStep DEF FromDb
<1>5. UNCHANGED saga /\ acks' = acks
  BY DEF Fill
<1>6. cache' = cache \/ cache' = [cache EXCEPT ![o] = row]
  BY DEF Fill, Key
<1>7. cache' \in [Orders -> {"MISS", "CREATED"} \cup Decisions]
  BY <1>1, <1>2, <1>6 DEF IInv, TypeOK, Statuses, Decisions
<1>8. TypeOK'
  BY <1>4, <1>5, <1>7 DEF IInv, TypeOK, saga
<1>9. CacheTrue'
  BY <1>1, <1>3, <1>4, <1>5, <1>6 DEF IInv, TypeOK, CacheTrue, Agrees, saga
<1>10. AckInv'
  <2>1. \A p \in Orders : k \notin InFlight(p)
    BY DEF Fill, InFlight, Committed, At
  <2>2. ASSUME NEW p \in Orders PROVE InFlight(p)' = InFlight(p)
    BY <1>4, <2>1
  <2> QED BY <1>4, <1>5, <2>2 DEF IInv, AckInv, Exists, saga
<1> QED BY <1>4, <1>8, <1>9, <1>10 DEF IInv

\* A handler that goes on: what it reads is the row as it is now.
LEMMA ReadSteps ==
  ASSUME IInv, NEW k \in Clients,
         CacheMiss(k) \/ Poll(k) \/ (QueryRow(k) /\ ~NotFound(k))
  PROVE  IInv'
<1>1. /\ req \in [Clients -> Requests] /\ Order(k) \in Orders /\ orders[Order(k)] \in Statuses
      /\ UNCHANGED <<saga, cache, answer, seen, acks, failovers, losses, undone>>
      /\ req[k].at # "done" /\ ~Committed(k)
  BY DEF CacheMiss, Poll, QueryRow, IInv, TypeOK, Requests, Order, cluster, Committed, At
<1>2. /\ req' \in [Clients -> Requests] /\ req'[k].order = req[k].order
      /\ req'[k].row \in {req[k].row, orders[Order(k)]}
      /\ ~Committed(k)'
      /\ \A j \in Clients \ {k} : req'[j] = req[j]
  <2>1. CASE CacheMiss(k)
    BY <1>1, <2>1 DEF CacheMiss, Requests, Committed, At
  <2>2. CASE QueryRow(k) /\ ~NotFound(k)
    BY <1>1, <2>2 DEF QueryRow, Row, Requests, Committed, At
  <2>3. CASE Poll(k)
    BY <1>1, <2>3, AttemptsAssumption DEF Poll, Polling, Row, Requests, Committed, At
  <2> QED BY <2>1, <2>2, <2>3
<1>3. TypeOK' /\ CacheTrue' /\ RowsPaid'
  BY <1>1, <1>2 DEF IInv, TypeOK, CacheTrue, RowsPaid, Agrees, saga
<1>4. ClientsTrue'
  BY <1>1, <1>2
  DEF IInv, RowsPaid, ClientsTrue, RowTrue, AnswerTrue, Agrees, Order, saga
<1>5. AckInv'
  <2>1. \A o \in Orders : InFlight(o)' = InFlight(o)
    BY <1>1, <1>2 DEF InFlight, Committed, At, Order
  <2> QED BY <1>1, <2>1 DEF IInv, AckInv, Exists, saga
<1>6. /\ At(k, "status", "fill")' => req'[k].row # "NONE" /\ req'[k].row = orders[Order(k)]
      /\ At(k, "poll", "query")' => req'[k].row = orders[Order(k)]
  <2>1. CASE CacheMiss(k)
    BY <1>1, <2>1 DEF CacheMiss, At, Requests
  <2>2. CASE QueryRow(k) /\ ~NotFound(k)
    BY <1>1, <2>2 DEF QueryRow, NotFound, Row, At, Requests
  <2>3. CASE Poll(k)
    BY <1>1, <2>3 DEF Poll, Row, At, Requests
  <2> QED BY <2>1, <2>2, <2>3
<1>7. SeenInv'
  BY <1>1, <1>2, <1>6
  DEF IInv, SeenInv, Committed, At, Order, saga
<1> QED BY <1>3, <1>4, <1>5, <1>7 DEF IInv

\* A step that changes no variable changes nothing the invariant speaks of.
LEMMA StutterStep == IInv /\ UNCHANGED vars => IInv'
BY DEF vars, IInv, TypeOK, RowsPaid, CacheTrue, ClientsTrue, RowTrue, AnswerTrue, Agrees,
       AckInv, InFlight, Committed, Exists, SeenInv, At, Order

LEMMA StepIInv == IInv /\ [Next]_vars => IInv'
<1> SUFFICES ASSUME IInv, [Next]_vars PROVE IInv'
  OBVIOUS
<1>1. ASSUME NEW k \in Clients, NEW op \in Operations, NEW o \in Orders, Request(k, op, o)
      PROVE  IInv'
  BY <1>1, RequestStep
<1>2. ASSUME NEW k \in Clients, Serve(k) PROVE IInv'
  <2>1. ASSUME NEW fail \in BOOLEAN, Insert(k, fail) PROVE IInv'
    BY <2>1, InsertStep
  <2>2. CASE Placed(k)
    BY <2>2, PlacedStep
  <2>3. CASE Fill(k)
    BY <2>3, FillStep
  <2>4. CASE CacheMiss(k) \/ Poll(k)
    BY <2>4, ReadSteps
  <2>5. CASE InsertFails(k) \/ CommitUnknown(k) \/ CacheHit(k) \/ PollEnds(k)
    BY <2>5, AnswerSteps
  <2>6. CASE QueryRow(k)
    BY <2>6, ReadSteps, AnswerSteps
  <2> QED BY <1>2, <2>1, <2>2, <2>3, <2>4, <2>5, <2>6 DEF Serve
<1>3. ASSUME NEW k \in Clients, Drop(k) PROVE IInv'
  BY <1>3, AnswerSteps
<1>4. ASSUME NEW o \in Orders, Expire(o) PROVE IInv'
  BY <1>4, ExpireStep
<1>5. ASSUME NEW o \in Orders, Pay(o) \/ Decide(o) PROVE IInv'
  BY <1>5, SagaSteps
<1>6. ASSUME NEW o \in Orders, StrayPayment(o) \/ StrayDecision(o) PROVE IInv'
  BY <1>6, StraySteps
<1>7. CASE Failover
  BY <1>7, FailoverStep
<1>8. CASE UNCHANGED vars
  BY <1>8, StutterStep
<1> QED BY <1>1, <1>2, <1>3, <1>4, <1>5, <1>6, <1>7, <1>8 DEF Next

-----------------------------------------------------------------------------
\* The strengthened invariant holds in every reachable state.
THEOREM Invariance == Spec => []IInv
BY InitIInv, StepIInv, PTL DEF Spec

\* Whatever the cache, a handler or a response says of the decision of an order
\* agrees with its payment for good, however late it was filled in, and with
\* its row unless a failover has taken the decision back (server.py:178-213).
THEOREM NoFalseDecision == Spec => []DecisionsTrue
<1>1. IInv => DecisionsTrue
  BY DEF IInv, CacheTrue, ClientsTrue, RowTrue, AnswerTrue, DecisionsTrue
<1> QED BY <1>1, Invariance, PTL

\* A second request that places an order is told 200 only after a failover has
\* lost the row of the first (place_order).
THEOREM OneAcknowledgement == Spec => []AcknowledgedOnce
<1>1. IInv => AcknowledgedOnce
  <2> SUFFICES ASSUME IInv, NEW o \in Orders PROVE acks[o] <= losses[o] + Exists(o)
    BY DEF AcknowledgedOnce
  <2>1. Cardinality(InFlight(o)) \in Nat
    BY FailoversAssumption, FS_Subset, FS_CardinalityType DEF InFlight
  <2>2. acks[o] \in Nat /\ losses[o] \in Nat /\ Exists(o) \in Nat
    BY FailoversAssumption DEF IInv, TypeOK, Many, Exists
  <2> QED BY <2>1, <2>2 DEF IInv, AckInv
<1> QED BY <1>1, Invariance, PTL

\* The answers that say source db, one way of ending after the other, say what
\* was seen; no other step makes such an answer.
LEMMA SeenAnswers ==
  ASSUME IInv, [Next]_vars, MaxAttempts # 0, NEW k \in Clients,
         answer'[k] # answer[k], answer'[k].source = "db"
  PROVE  answer'[k].status \in seen[k]
<1>1. req[k].tries \in 0 .. MaxAttempts /\ answer \in [Clients -> Answers]
  BY DEF IInv, TypeOK, Requests
<1>2. ASSUME NEW j \in Clients, NEW a, Finish(j, a)
      PROVE  j = k /\ answer'[k] = a
  BY <1>1, <1>2 DEF Finish
<1>3. ASSUME NEW j \in Clients, NEW op \in Operations, NEW o \in Orders, Request(j, op, o)
      PROVE  FALSE
  BY <1>1, <1>3 DEF Request, NoAnswer
<1>4. ASSUME NEW j \in Clients, Drop(j) PROVE FALSE
  BY <1>2, <1>4 DEF Drop, NoAnswer
<1>5. ASSUME NEW j \in Clients, InsertFails(j) \/ CommitUnknown(j) \/ CacheHit(j) PROVE FALSE
  BY <1>2, <1>5 DEF InsertFails, CommitUnknown, CacheHit, Error
<1>6. ASSUME NEW j \in Clients, Placed(j) PROVE answer'[k].status \in seen[k]
  <2>1. j = k /\ answer'[k] = FromDb("CREATED")
    BY <1>2, <1>6 DEF Placed
  <2> QED BY <1>6, <2>1 DEF Placed, FromDb, IInv, SeenInv, Committed
<1>7. ASSUME NEW j \in Clients, QueryRow(j) PROVE answer'[k].status \in seen[k]
  <2>1. NotFound(j) /\ Finish(j, FromDb("NONE"))
    BY <1>7 DEF QueryRow
  <2>2. j = k /\ answer'[k] = FromDb("NONE")
    BY <1>2, <2>1
  <2>3. orders[Order(k)] = "NONE" /\ req[k].at # "done"
    BY <1>7, <2>1, <2>2 DEF QueryRow, NotFound, Row, At
  <2> QED BY <2>2, <2>3 DEF FromDb, IInv, SeenInv
<1>8. ASSUME NEW j \in Clients, Fill(j) PROVE answer'[k].status \in seen[k]
  <2>1. j = k /\ answer'[k] = FromDb(req[k].row)
    BY <1>2, <1>8 DEF Fill
  <2> QED BY <1>8, <2>1 DEF Fill, FromDb, IInv, SeenInv
<1>9. ASSUME NEW j \in Clients, PollEnds(j) PROVE answer'[k].status \in seen[k]
  <2>1. j = k /\ answer'[k] = FromDb(req[k].row)
    BY <1>2, <1>9 DEF PollEnds
  <2>2. req[k].row \in seen[k]
    BY <1>1, <1>9, <2>1, AttemptsAssumption
    DEF PollEnds, Polling, Satisfied, IInv, SeenInv
  <2> QED BY <2>1, <2>2 DEF FromDb
<1>10. ASSUME NEW j \in Clients, NEW fail \in BOOLEAN, Insert(j, fail) PROVE FALSE
  BY <1>10 DEF Insert
<1>11. ASSUME NEW j \in Clients, CacheMiss(j) \/ Poll(j) PROVE FALSE
  BY <1>11 DEF CacheMiss, Poll
<1>12. ASSUME NEW o \in Orders,
              Expire(o) \/ Pay(o) \/ Decide(o) \/ StrayPayment(o) \/ StrayDecision(o)
       PROVE  FALSE
  BY <1>12 DEF Expire, Pay, Decide, StrayPayment, StrayDecision
<1>13. CASE Failover
  BY <1>13 DEF Failover
<1>14. CASE UNCHANGED vars
  BY <1>14 DEF vars
<1> QED BY <1>3, <1>4, <1>5, <1>6, <1>7, <1>8, <1>9, <1>10, <1>11, <1>12, <1>13, <1>14
    DEF Next, Serve

\* What is answered from the database is what the row was at some moment of the
\* request, if a poll is allowed any attempt at all: with RETRY_MAX_ATTEMPTS at
\* 0 it answers that there is no such order without a look (server.py:238-249).
THEOREM FreshAnswers ==
  ASSUME MaxAttempts # 0
  PROVE  Spec => DbAnswersFresh
<1> DEFINE Fresh == \A k \in Clients :
                      answer'[k] # answer[k] /\ answer'[k].source = "db" =>
                        answer'[k].status \in seen[k]
<1>1. IInv /\ [Next]_vars => Fresh
  BY SeenAnswers
<1> QED BY <1>1, Invariance, PTL DEF Spec, DbAnswersFresh
=============================================================================
