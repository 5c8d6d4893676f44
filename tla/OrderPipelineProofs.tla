------------------------- MODULE OrderPipelineProofs ------------------------
(***************************************************************************)
(* The safety properties of OrderPipeline, for any events, consumers,      *)
(* batch sizes and numbers of deliveries and faults.  The two bounds on    *)
(* burials are arguments by counting: each delivery of an event that is    *)
(* not processed is in a consumer's batch or was taken by a fault.         *)
(***************************************************************************)
EXTENDS OrderPipeline, FiniteSets, FiniteSetTheorems, SequenceTheorems, TLAPS

\* An event is published once: it is in the topic or in the queue, not both, and
\* an order nobody has asked for is in neither.
TopicInv ==
  /\ \A e \in topic : place[e] = "absent"
  /\ \A e \in Valid : request[e] = "none" => Unused(e)

\* What is deleted is processed, what is processed is archived, and only the
\* last receive allowed leads to the dead-letter queue.
PlaceInv ==
  /\ \A e \in Events :
       /\ place[e] = "deleted" => e \in table
       /\ place[e] = "dlq" => receives[e] = MaxReceives
  /\ table \subseteq archive

\* What a consumer has received came from the queue, and what process() has
\* done with the first of it is done.
HandInv ==
  \A c \in Consumers :
    /\ \A i \in 1 .. Len(batch[c]) : place[batch[c][i].event] # "absent"
    /\ step[c] \in {"validate", "save", "delete"} => Event(c) \in archive
    /\ step[c] \in {"save", "delete"} => Event(c) \in Valid
    /\ step[c] = "delete" => Event(c) \in table

Holds(c, e) == \E i \in 1 .. Len(batch[c]) : batch[c][i].event = e
Holders(e) == {c \in Consumers : Holds(c, e)}
Open(e) == e \notin archive \/ (e \in Valid /\ e \notin table)

\* Deliveries of an event with something left to do are in hand or were lost,
\* each to a fault of its own.
CountInv ==
  \A e \in Events :
    /\ IsFiniteSet(Holders(e))
    /\ Open(e) => receives[e] <= faults + Cardinality(Holders(e))

IInv == TypeOK /\ TopicInv /\ PlaceInv /\ HandInv /\ CountInv

-----------------------------------------------------------------------------
\* Nothing is published or received at first.
LEMMA InitIInv == Init => IInv
<1> SUFFICES ASSUME Init PROVE IInv
  OBVIOUS
<1>1. \A c \in Consumers : batch[c] = <<>> /\ step[c] = "poll" /\ Len(batch[c]) = 0
  BY EmptySeq DEF Init
<1>2. batch \in [Consumers -> Seq(Receipts)]
  BY EmptySeq DEF Init
<1>3. TypeOK
  BY <1>1, <1>2, BoundsAssumption DEF Init, TypeOK, Places
<1>4. \A e \in Events : Holders(e) = {}
  BY <1>1 DEF Holders, Holds
<1>5. TopicInv /\ PlaceInv /\ HandInv
  BY <1>1 DEF Init, TopicInv, PlaceInv, HandInv, Unused, Events
<1>6. CountInv
  <2>1. \A e \in Events : receives[e] = 0 /\ faults = 0
    BY DEF Init
  <2>2. \A e \in Events : IsFiniteSet(Holders(e)) /\ Cardinality(Holders(e)) = 0
    BY <1>4, FS_EmptySet
  <2> QED BY <2>1, <2>2 DEF CountInv
<1> QED BY <1>3, <1>5, <1>6 DEF IInv

\* What is held is an event.
LEMMA HeldEvents ==
  ASSUME TypeOK, NEW c \in Consumers, NEW i \in 1 .. Len(batch[c])
  PROVE  batch[c][i].event \in Events
<1>1. batch[c] \in Seq(Receipts)
  BY DEF TypeOK
<1>2. batch[c][i] \in Receipts
  BY <1>1, ElementOfSeq
<1> QED BY <1>2 DEF Receipts

\* What a consumer at work holds.
LEMMA HandTypes ==
  ASSUME TypeOK, NEW c \in Consumers, step[c] # "poll"
  PROVE  /\ batch[c] \in Seq(Receipts) /\ batch[c] # <<>> /\ Len(batch[c]) \in Nat \ {0}
         /\ Event(c) = batch[c][1].event /\ Event(c) \in Events
         /\ Head(batch[c]).receipt \in 1 .. MaxReceives
         /\ Holds(c, Event(c))
<1>1. batch[c] \in Seq(Receipts) /\ batch[c] # <<>>
  BY DEF TypeOK
<1>2. Head(batch[c]) = batch[c][1] /\ Head(batch[c]) \in Receipts
  BY <1>1, HeadTailProperties
<1>3. Len(batch[c]) \in Nat \ {0}
  BY <1>1, EmptySeq, LenProperties
<1> QED BY <1>1, <1>2, <1>3 DEF Event, Receipts, Holds

\* One holder fewer is one less in the count at most.
LEMMA OneFewer ==
  ASSUME NEW S, NEW T \in SUBSET S, NEW c, IsFiniteSet(S), S \ {c} \subseteq T
  PROVE  IsFiniteSet(T) /\ Cardinality(T) \in Nat /\ Cardinality(T) + 1 >= Cardinality(S)
<1>1. IsFiniteSet(T) /\ Cardinality(T) \in Nat /\ Cardinality(S) \in Nat
  BY FS_Subset, FS_CardinalityType
<1>2. Cardinality(S \ {c}) = IF c \in S THEN Cardinality(S) - 1 ELSE Cardinality(S)
  BY FS_RemoveElement
<1>3. Cardinality(S \ {c}) <= Cardinality(T)
  BY <1>1, FS_Subset
<1> QED BY <1>1, <1>2, <1>3

\* The loop goes on: what a consumer holds after it is some of what it held.
LEMMA NextMessageFacts ==
  ASSUME TypeOK, NEW c \in Consumers, step[c] # "poll", NextMessage(c)
  PROVE  /\ batch' \in [Consumers -> Seq(Receipts)]
         /\ step' \in [Consumers -> {"poll", "archive", "validate", "save", "delete"}]
         /\ \A d \in Consumers :
              Len(batch'[d]) <= BatchSize /\ (batch'[d] = <<>> <=> step'[d] = "poll")
         /\ step'[c] \in {"poll", "archive"}
         /\ \A d \in Consumers \ {c} : batch'[d] = batch[d] /\ step'[d] = step[d]
         /\ \A d \in Consumers : \A i \in 1 .. Len(batch'[d]) :
              \E j \in 1 .. Len(batch[d]) : batch'[d][i] = batch[d][j]
         /\ \A e \in Events : Holders(e)' \subseteq Holders(e)
         /\ \A e \in Events : Holders(e) \ {c} \subseteq Holders(e)'
         /\ \A e \in Events : e # Event(c) => Holders(e)' = Holders(e)
<1> DEFINE tail == Tail(batch[c])
<1>1. /\ batch[c] \in Seq(Receipts) /\ batch[c] # <<>> /\ Len(batch[c]) \in Nat \ {0}
      /\ Event(c) = batch[c][1].event
  BY HandTypes
<1>2. /\ tail \in Seq(Receipts) /\ Len(tail) = Len(batch[c]) - 1
      /\ \A i \in 1 .. Len(tail) : tail[i] = batch[c][i + 1]
  BY <1>1, HeadTailProperties
<1>3. batch \in [Consumers -> Seq(Receipts)] /\ batch' = [batch EXCEPT ![c] = tail]
  BY DEF TypeOK, NextMessage
<1>4. /\ step \in [Consumers -> {"poll", "archive", "validate", "save", "delete"}]
      /\ step' = [step EXCEPT ![c] = IF tail = <<>> THEN "poll" ELSE "archive"]
  BY DEF TypeOK, NextMessage
<1> HIDE DEF tail
<1>5. /\ batch' \in [Consumers -> Seq(Receipts)]
      /\ step' \in [Consumers -> {"poll", "archive", "validate", "save", "delete"}]
      /\ batch'[c] = tail /\ step'[c] = (IF tail = <<>> THEN "poll" ELSE "archive")
      /\ \A d \in Consumers \ {c} : batch'[d] = batch[d] /\ step'[d] = step[d]
  BY <1>2, <1>3, <1>4
<1>6. \A d \in Consumers :
        Len(batch'[d]) <= BatchSize /\ (batch'[d] = <<>> <=> step'[d] = "poll")
  BY <1>1, <1>2, <1>5, BoundsAssumption DEF TypeOK
<1>7. \A i \in 1 .. Len(tail) : i + 1 \in 1 .. Len(batch[c])
  BY <1>1, <1>2
<1>8. \A d \in Consumers : \A i \in 1 .. Len(batch'[d]) :
        \E j \in 1 .. Len(batch[d]) : batch'[d][i] = batch[d][j]
  BY <1>2, <1>5, <1>7
<1>9. \A e \in Events, d \in Consumers : Holds(d, e)' => Holds(d, e)
  BY <1>8 DEF Holds
<1>10. \A e \in Events, d \in Consumers \ {c} : Holds(d, e) => Holds(d, e)'
  BY <1>5 DEF Holds
<1>11. \A e \in Events : e # Event(c) /\ Holds(c, e) => Holds(c, e)'
  <2> SUFFICES ASSUME NEW e \in Events, e # Event(c), NEW i \in 1 .. Len(batch[c]),
                      batch[c][i].event = e
               PROVE  Holds(c, e)'
    BY DEF Holds
  <2>1. i # 1 /\ i - 1 \in 1 .. Len(tail) /\ (i - 1) + 1 = i
    BY <1>1, <1>2
  <2>2. tail[i - 1] = batch[c][i]
    BY <1>2, <2>1
  <2> QED BY <1>5, <2>1, <2>2 DEF Holds
<1> QED BY <1>5, <1>6, <1>8, <1>9, <1>10, <1>11 DEF Holders

-----------------------------------------------------------------------------
\* SNS and SQS move an event without any consumer noticing.
LEMMA QueueSteps ==
  ASSUME IInv,
         \/ \E e \in Valid : Publish(e) \/ Accepted(e) \/ PublishFails(e)
         \/ \E e \in Invalid : PublishDirectly(e)
         \/ \E e \in Events : Forward(e) \/ Expire(e) \/ Redrive(e)
  PROVE  IInv'
<1>1. UNCHANGED <<receives, batch, step, archive, table, faults>>
  BY DEF Publish, Accepted, PublishFails, PublishDirectly, Forward, Expire, Redrive, queue
<1>2. TypeOK'
  BY <1>1 DEF IInv, TypeOK, Events, Places, Publish, Accepted, PublishFails,
              PublishDirectly, Forward, Expire, Redrive, queue
<1>3. TopicInv'
  <2>1. CASE \E e \in Valid : Publish(e) \/ Accepted(e) \/ PublishFails(e)
    BY <2>1 DEF IInv, TypeOK, TopicInv, Unused, Publish, Accepted, PublishFails, queue
  <2>2. CASE \E e \in Invalid : PublishDirectly(e)
    BY <2>2, EventsAssumption DEF IInv, TypeOK, TopicInv, Unused, PublishDirectly
  <2>3. CASE \E e \in Events : Forward(e) \/ Expire(e) \/ Redrive(e)
    BY <2>3 DEF IInv, TypeOK, TopicInv, Unused, Events, Forward, Expire, Redrive
  <2> QED BY <2>1, <2>2, <2>3
<1>4. PlaceInv'
  <2>1. \A e \in Events : place'[e] = place[e] \/ place'[e] = "visible"
                          \/ (place'[e] = "dlq" /\ receives[e] = MaxReceives)
    BY DEF IInv, TypeOK, Events, Publish, Accepted, PublishFails, PublishDirectly,
           Forward, Expire, Redrive, queue
  <2> QED BY <1>1, <2>1 DEF IInv, PlaceInv
<1>5. HandInv'
  <2>1. \A e \in Events : place[e] # "absent" => place'[e] # "absent"
    BY DEF IInv, TypeOK, Events, Publish, Accepted, PublishFails, PublishDirectly,
           Forward, Expire, Redrive, queue
  <2>2. \A c \in Consumers : \A i \in 1 .. Len(batch[c]) : batch[c][i].event \in Events
    BY HeldEvents DEF IInv
  <2> QED BY <1>1, <2>1, <2>2 DEF IInv, HandInv, Event
<1>6. CountInv'
  BY <1>1 DEF IInv, CountInv, Open, Holders, Holds
<1> QED BY <1>2, <1>3, <1>4, <1>5, <1>6 DEF IInv

-----------------------------------------------------------------------------
\* A batch of receivable events, each with the number of this delivery.
LEMMA BatchFacts ==
  ASSUME TypeOK, NEW q \in Batches
  PROVE  LET b == [i \in DOMAIN q |-> [event |-> q[i], receipt |-> receives[q[i]] + 1]] IN
         /\ b \in Seq(Receipts) /\ b # <<>> /\ Len(b) <= BatchSize /\ DOMAIN q = 1 .. Len(b)
         /\ \A i \in 1 .. Len(b) : b[i].event = q[i] /\ q[i] \in Events /\ Receivable(q[i])
<1> DEFINE b == [i \in DOMAIN q |-> [event |-> q[i], receipt |-> receives[q[i]] + 1]]
<1>1. PICK n \in 1 .. BatchSize : q \in [1 .. n -> Events]
  BY DEF Batches
<1>2. \A i \in 1 .. n : Receivable(q[i]) /\ q[i] \in Events
  BY <1>1 DEF Batches
<1>3. n \in Nat /\ n > 0 /\ n <= BatchSize
  BY BoundsAssumption
<1>4. \A i \in 1 .. n : [event |-> q[i], receipt |-> receives[q[i]] + 1] \in Receipts
  BY <1>2, BoundsAssumption DEF TypeOK, Receivable, Receipts
<1>5. b = [i \in 1 .. n |-> [event |-> q[i], receipt |-> receives[q[i]] + 1]]
  BY <1>1
<1>6. b \in [1 .. n -> Receipts]
  BY <1>4, <1>5
<1>7. b \in Seq(Receipts) /\ Len(b) = n
  BY <1>3, <1>6
<1>8. b # <<>>
  BY <1>3, <1>7, EmptySeq
<1>9. \A i \in 1 .. n : b[i].event = q[i]
  BY <1>5
<1> QED BY <1>1, <1>2, <1>3, <1>7, <1>8, <1>9

\* Whatever is received goes into one more pair of hands.
LEMMA ReceiveStep ==
  ASSUME IInv, NEW c \in Consumers, Receive(c)
  PROVE  IInv'
<1>1. PICK q \in Batches :
        /\ place' = [e \in Events |-> IF e \in Received(q) THEN "inflight" ELSE place[e]]
        /\ receives' = [e \in Events |-> IF e \in Received(q) THEN receives[e] + 1 ELSE receives[e]]
        /\ batch' = [batch EXCEPT ![c] =
                       [i \in DOMAIN q |-> [event |-> q[i], receipt |-> receives[q[i]] + 1]]]
  BY DEF Receive
<1> DEFINE b == [i \in DOMAIN q |-> [event |-> q[i], receipt |-> receives[q[i]] + 1]]
<1>2. /\ b \in Seq(Receipts) /\ b # <<>> /\ Len(b) <= BatchSize /\ DOMAIN q = 1 .. Len(b)
      /\ \A i \in 1 .. Len(b) : b[i].event = q[i] /\ q[i] \in Events /\ Receivable(q[i])
  BY BatchFacts DEF IInv
<1>3. batch' = [batch EXCEPT ![c] = b]
  BY <1>1
<1>4. /\ step[c] = "poll" /\ step' = [step EXCEPT ![c] = "archive"]
      /\ UNCHANGED <<request, topic, archive, table, faults>>
  BY DEF Receive
<1> HIDE DEF b
<1>5. Received(q) = {b[i].event : i \in 1 .. Len(b)}
  BY <1>2 DEF Received
<1>6. \A e \in Received(q) : e \in Events /\ place[e] = "visible" /\ receives[e] < MaxReceives
  BY <1>2, <1>5 DEF Receivable
<1>7. /\ batch' \in [Consumers -> Seq(Receipts)] /\ batch'[c] = b /\ batch[c] = <<>>
      /\ \A d \in Consumers \ {c} : batch'[d] = batch[d]
  BY <1>2, <1>3, <1>4 DEF IInv, TypeOK
<1>8. TypeOK'
  <2>1. place' \in [Events -> Places]
    BY <1>1 DEF IInv, TypeOK, Places
  <2>2. receives' \in [Events -> 0 .. MaxReceives]
    BY <1>1, <1>6, BoundsAssumption DEF IInv, TypeOK
  <2>3. step' \in [Consumers -> {"poll", "archive", "validate", "save", "delete"}]
    BY <1>4 DEF IInv, TypeOK
  <2>4. \A d \in Consumers :
          Len(batch'[d]) <= BatchSize /\ (batch'[d] = <<>> <=> step'[d] = "poll")
    BY <1>2, <1>4, <1>7 DEF IInv, TypeOK
  <2> QED BY <1>4, <1>7, <2>1, <2>2, <2>3, <2>4 DEF IInv, TypeOK
<1>9. TopicInv' /\ PlaceInv'
  <2>1. \A e \in Events : place[e] # "visible" => place'[e] = place[e] /\ receives'[e] = receives[e]
    BY <1>1, <1>6
  <2>2. \A e \in Events : place[e] = "visible" => place'[e] \in {"visible", "inflight"}
    BY <1>1
  <2>3. Valid \subseteq Events /\ topic \subseteq Events
    BY DEF IInv, TypeOK, Events
  <2> QED BY <1>4, <2>1, <2>2, <2>3 DEF IInv, TopicInv, PlaceInv, Unused
<1>10. HandInv'
  <2>1. \A e \in Events : place[e] # "absent" => place'[e] # "absent"
    BY <1>1
  <2>2. \A d \in Consumers : \A i \in 1 .. Len(batch[d]) : batch[d][i].event \in Events
    BY HeldEvents DEF IInv
  <2>3. \A i \in 1 .. Len(b) : place'[b[i].event] = "inflight"
    BY <1>1, <1>5, <1>6
  <2>4. \A d \in Consumers \ {c} : step'[d] = step[d] /\ Event(d)' = Event(d)
    BY <1>4, <1>7 DEF IInv, TypeOK, Event
  <2>5. step'[c] = "archive"
    BY <1>4 DEF IInv, TypeOK
  <2>6. ASSUME NEW d \in Consumers, NEW i \in 1 .. Len(batch'[d])
        PROVE  place'[batch'[d][i].event] # "absent"
    <3>1. CASE d = c
      BY <1>7, <2>3, <3>1
    <3>2. CASE d # c
      <4>1. batch'[d] = batch[d] /\ i \in 1 .. Len(batch[d])
        BY <1>7, <3>2
      <4>2. place[batch[d][i].event] # "absent" /\ batch[d][i].event \in Events
        BY <2>2, <4>1 DEF IInv, HandInv
      <4> QED BY <2>1, <4>1, <4>2
    <3> QED BY <3>1, <3>2
  <2> QED BY <1>4, <2>4, <2>5, <2>6 DEF IInv, HandInv
<1>11. CountInv'
  <2> SUFFICES ASSUME NEW e \in Events
               PROVE  /\ IsFiniteSet(Holders(e)')
                      /\ Open(e) => receives'[e] <= faults + Cardinality(Holders(e)')
    BY <1>4 DEF CountInv, Open
  <2>1. ~Holds(c, e)
    BY <1>7, EmptySeq DEF Holds
  <2>2. \A d \in Consumers \ {c} : Holds(d, e)' <=> Holds(d, e)
    BY <1>7 DEF Holds
  <2>3. Holds(c, e)' <=> e \in Received(q)
    BY <1>5, <1>7 DEF Holds
  <2>4. Holders(e)' = IF e \in Received(q) THEN Holders(e) \cup {c} ELSE Holders(e)
    BY <2>1, <2>2, <2>3 DEF Holders
  <2>5. IsFiniteSet(Holders(e)) /\ Cardinality(Holders(e)) \in Nat
        /\ (Open(e) => receives[e] <= faults + Cardinality(Holders(e)))
    BY FS_CardinalityType DEF IInv, CountInv
  <2>6. CASE e \in Received(q)
    <3>1. Holders(e)' = Holders(e) \cup {c} /\ c \notin Holders(e)
      BY <2>1, <2>4, <2>6 DEF Holders
    <3>2. IsFiniteSet(Holders(e)') /\ Cardinality(Holders(e)') = Cardinality(Holders(e)) + 1
      BY <2>5, <3>1, FS_AddElement
    <3>3. receives'[e] = receives[e] + 1 /\ receives[e] \in Nat /\ faults \in Nat
      BY <1>1, <2>6 DEF IInv, TypeOK
    <3> QED BY <2>5, <3>2, <3>3
  <2>7. CASE e \notin Received(q)
    BY <1>1, <2>4, <2>5, <2>7
  <2> QED BY <2>6, <2>7
<1> QED BY <1>8, <1>9, <1>10, <1>11 DEF IInv

-----------------------------------------------------------------------------
\* A call of process() that returns: archive and table only grow.
LEMMA GoSteps ==
  ASSUME IInv, NEW c \in Consumers, Archive(c) \/ Validate(c) \/ Save(c)
  PROVE  IInv'
<1>1. /\ UNCHANGED <<request, topic, place, receives, batch, faults>>
      /\ archive \subseteq archive' /\ table \subseteq table'
      /\ step[c] # "poll"
  BY DEF Archive, Validate, Save, Go, queue
<1>2. Event(c) \in Events
  BY <1>1, HandTypes DEF IInv
<1>3. step' \in [Consumers -> {"poll", "archive", "validate", "save", "delete"}]
  BY DEF Archive, Validate, Save, Go, IInv, TypeOK
<1>4. /\ step'[c] # "poll"
      /\ \A d \in Consumers \ {c} : step'[d] = step[d]
  BY DEF Archive, Validate, Save, Go, IInv, TypeOK
<1>5. archive' \subseteq Events /\ table' \subseteq Valid /\ table' \subseteq archive'
  <2>1. CASE Archive(c) \/ Validate(c)
    BY <1>2, <2>1 DEF Archive, Validate, IInv, TypeOK, PlaceInv
  <2>2. CASE Save(c)
    BY <1>2, <2>2 DEF Save, IInv, TypeOK, PlaceInv, HandInv
  <2> QED BY <2>1, <2>2
<1>6. TypeOK'
  BY <1>1, <1>3, <1>4, <1>5 DEF IInv, TypeOK
<1>7. TopicInv' /\ PlaceInv'
  BY <1>1, <1>5 DEF IInv, TopicInv, PlaceInv, Unused
<1>8. HandInv'
  <2>1. \A d \in Consumers : Event(d)' = Event(d)
    BY <1>1 DEF Event
  <2>2. /\ step'[c] \in {"validate", "save", "delete"} => Event(c) \in archive'
        /\ step'[c] \in {"save", "delete"} => Event(c) \in Valid
        /\ step'[c] = "delete" => Event(c) \in table'
    BY DEF Archive, Validate, Save, Go, IInv, TypeOK, HandInv
  <2> QED BY <1>1, <1>4, <2>1, <2>2 DEF IInv, HandInv
<1>9. CountInv'
  BY <1>1 DEF IInv, CountInv, Open, Holders, Holds
<1> QED BY <1>6, <1>7, <1>8, <1>9 DEF IInv

\* The count after a message is let go: it has nothing left to do, or a fault
\* took this delivery of it.
LEMMA CountAfterNext ==
  ASSUME TypeOK, CountInv, NEW c \in Consumers, step[c] # "poll", NextMessage(c),
         UNCHANGED <<receives, archive, table>>,
         faults' = faults + 1 \/ (faults' = faults /\ ~Open(Event(c)))
  PROVE  CountInv'
<1> SUFFICES ASSUME NEW e \in Events
             PROVE  /\ IsFiniteSet(Holders(e)')
                    /\ Open(e) => receives[e] <= faults' + Cardinality(Holders(e)')
  BY DEF CountInv, Open
<1>1. /\ Holders(e)' \subseteq Holders(e) /\ Holders(e) \ {c} \subseteq Holders(e)'
      /\ e # Event(c) => Holders(e)' = Holders(e)
  BY NextMessageFacts
<1>2. IsFiniteSet(Holders(e)) /\ (Open(e) => receives[e] <= faults + Cardinality(Holders(e)))
  BY DEF CountInv
<1>3. /\ IsFiniteSet(Holders(e)') /\ Cardinality(Holders(e)') \in Nat
      /\ Cardinality(Holders(e)') + 1 >= Cardinality(Holders(e))
  BY <1>1, <1>2, OneFewer
<1>4. Cardinality(Holders(e)) \in Nat /\ receives[e] \in Nat /\ faults \in Nat
  BY <1>2, FS_CardinalityType DEF TypeOK
<1>5. CASE faults' = faults + 1
  BY <1>2, <1>3, <1>4, <1>5
<1>6. CASE faults' = faults /\ ~Open(Event(c))
  <2>1. Open(e) => Holders(e)' = Holders(e)
    BY <1>1, <1>6
  <2> QED BY <1>2, <1>3, <1>6, <2>1
<1> QED BY <1>5, <1>6

\* The first message of a batch is let go, whatever became of it.
LEMMA NextSteps ==
  ASSUME IInv, NEW c \in Consumers, Reject(c) \/ Delete(c) \/ Fail(c)
  PROVE  IInv'
<1>1. /\ step[c] # "poll" /\ NextMessage(c)
      /\ UNCHANGED <<request, topic, receives, archive, table>>
  BY DEF Reject, Delete, Fail, queue
<1>2. Event(c) \in Events
  BY <1>1, HandTypes DEF IInv
<1>3. \/ faults' = faults + 1 /\ faults' \in 0 .. MaxFaults
      \/ faults' = faults /\ ~Open(Event(c))
  <2>1. CASE Fail(c)
    BY <2>1, BoundsAssumption DEF Fail, Fault, IInv, TypeOK
  <2>2. CASE Reject(c)
    BY <2>2, EventsAssumption DEF Reject, IInv, HandInv, Open
  <2>3. CASE Delete(c)
    BY <2>3 DEF Delete, IInv, HandInv, PlaceInv, Open
  <2> QED BY <2>1, <2>2, <2>3
<1>4. place' = place \/ (place' = [place EXCEPT ![Event(c)] = "deleted"]
                         /\ place[Event(c)] \in {"visible", "inflight"} /\ Event(c) \in table)
  BY DEF Reject, Delete, Fail, queue, IInv, HandInv
<1>5. /\ place' \in [Events -> Places]
      /\ \A e \in Events : \/ place'[e] = place[e]
                           \/ /\ place'[e] = "deleted" /\ e \in table
                              /\ place[e] \in {"visible", "inflight"}
  BY <1>2, <1>4 DEF IInv, TypeOK, Places
<1>6. /\ batch' \in [Consumers -> Seq(Receipts)]
      /\ step' \in [Consumers -> {"poll", "archive", "validate", "save", "delete"}]
      /\ \A d \in Consumers :
           Len(batch'[d]) <= BatchSize /\ (batch'[d] = <<>> <=> step'[d] = "poll")
      /\ step'[c] \in {"poll", "archive"}
      /\ \A d \in Consumers \ {c} : batch'[d] = batch[d] /\ step'[d] = step[d]
      /\ \A d \in Consumers : \A i \in 1 .. Len(batch'[d]) :
           \E j \in 1 .. Len(batch[d]) : batch'[d][i] = batch[d][j]
  BY <1>1, NextMessageFacts DEF IInv
<1>7. TypeOK'
  BY <1>1, <1>3, <1>5, <1>6 DEF IInv, TypeOK
<1>8. TopicInv' /\ PlaceInv'
  <2>1. Valid \subseteq Events /\ topic \subseteq Events
    BY DEF IInv, TypeOK, Events
  <2> QED BY <1>1, <1>5, <2>1 DEF IInv, TopicInv, PlaceInv, Unused
<1>9. HandInv'
  <2>1. ASSUME NEW d \in Consumers, NEW i \in 1 .. Len(batch'[d])
        PROVE  place'[batch'[d][i].event] # "absent"
    <3>1. PICK j \in 1 .. Len(batch[d]) : batch'[d][i] = batch[d][j]
      BY <1>6
    <3>2. batch[d][j].event \in Events /\ place[batch[d][j].event] # "absent"
      BY HeldEvents DEF IInv, HandInv
    <3> QED BY <1>5, <3>1, <3>2
  <2>2. \A d \in Consumers \ {c} : Event(d)' = Event(d) /\ step'[d] = step[d]
    BY <1>6 DEF Event
  <2>3. \A d \in Consumers \ {c} :
          /\ step'[d] \in {"validate", "save", "delete"} => Event(d)' \in archive'
          /\ step'[d] \in {"save", "delete"} => Event(d)' \in Valid
          /\ step'[d] = "delete" => Event(d)' \in table'
    BY <1>1, <2>2 DEF IInv, HandInv
  <2>4. step'[c] \notin {"validate", "save", "delete"}
    BY <1>6
  <2> QED BY <2>1, <2>3, <2>4 DEF HandInv
<1>10. CountInv'
  BY <1>1, <1>3, CountAfterNext DEF IInv
<1> QED BY <1>7, <1>8, <1>9, <1>10 DEF IInv

\* A killed consumer loses at most one delivery of each event.
LEMMA KillStep ==
  ASSUME IInv, NEW c \in Consumers, Kill(c)
  PROVE  IInv'
<1>1. /\ batch' = [batch EXCEPT ![c] = <<>>] /\ step' = [step EXCEPT ![c] = "poll"]
      /\ UNCHANGED <<request, topic, place, receives, archive, table>>
  BY DEF Kill, queue
<1>2. faults' = faults + 1 /\ faults \in Nat /\ faults' \in 0 .. MaxFaults
  BY BoundsAssumption DEF Kill, Fault, IInv, TypeOK
<1>3. <<>> \in Seq(Receipts) /\ Len(<<>>) = 0
  BY EmptySeq
<1>4. /\ batch' \in [Consumers -> Seq(Receipts)] /\ batch'[c] = <<>>
      /\ step' \in [Consumers -> {"poll", "archive", "validate", "save", "delete"}]
      /\ step'[c] = "poll"
      /\ \A d \in Consumers \ {c} : batch'[d] = batch[d] /\ step'[d] = step[d]
  BY <1>1, <1>3 DEF IInv, TypeOK
<1>5. TypeOK'
  <2>1. \A d \in Consumers :
          Len(batch'[d]) <= BatchSize /\ (batch'[d] = <<>> <=> step'[d] = "poll")
    BY <1>3, <1>4, BoundsAssumption DEF IInv, TypeOK
  <2> QED BY <1>1, <1>2, <1>4, <2>1 DEF IInv, TypeOK
<1>6. TopicInv' /\ PlaceInv'
  BY <1>1 DEF IInv, TopicInv, PlaceInv, Unused
<1>7. HandInv'
  <2>1. \A d \in Consumers \ {c} : Event(d)' = Event(d)
    BY <1>4 DEF Event
  <2> QED BY <1>1, <1>3, <1>4, <2>1 DEF IInv, HandInv
<1>8. CountInv'
  <2> SUFFICES ASSUME NEW e \in Events
               PROVE  /\ IsFiniteSet(Holders(e)')
                      /\ Open(e) => receives[e] <= faults + 1 + Cardinality(Holders(e)')
    BY <1>1, <1>2 DEF CountInv, Open
  <2>1. ~Holds(c, e)'
    BY <1>3, <1>4 DEF Holds
  <2>2. \A d \in Consumers \ {c} : Holds(d, e)' <=> Holds(d, e)
    BY <1>4 DEF Holds
  <2>3. Holders(e)' \subseteq Holders(e) /\ Holders(e) \ {c} \subseteq Holders(e)'
    BY <2>1, <2>2 DEF Holders
  <2>4. IsFiniteSet(Holders(e)) /\ (Open(e) => receives[e] <= faults + Cardinality(Holders(e)))
    BY DEF IInv, CountInv
  <2>5. /\ IsFiniteSet(Holders(e)') /\ Cardinality(Holders(e)') \in Nat
        /\ Cardinality(Holders(e)') + 1 >= Cardinality(Holders(e))
    BY <2>3, <2>4, OneFewer
  <2>6. Cardinality(Holders(e)) \in Nat /\ receives[e] \in Nat
    BY <2>4, FS_CardinalityType DEF IInv, TypeOK
  <2> QED BY <1>2, <2>4, <2>5, <2>6
<1> QED BY <1>5, <1>6, <1>7, <1>8 DEF IInv

LEMMA StepIInv == IInv /\ [Next]_vars => IInv'
<1> SUFFICES ASSUME IInv, [Next]_vars PROVE IInv'
  OBVIOUS
<1>1. CASE UNCHANGED vars
  <2>1. TypeOK'
    BY <1>1 DEF vars, IInv, TypeOK
  <2>2. TopicInv' /\ PlaceInv' /\ HandInv'
    BY <1>1 DEF vars, IInv, TopicInv, Unused, PlaceInv, HandInv, Event
  <2>3. CountInv'
    BY <1>1 DEF vars, IInv, CountInv, Open, Holders, Holds
  <2> QED BY <2>1, <2>2, <2>3 DEF IInv
<1>2. ASSUME NEW c \in Consumers, Receive(c) \/ Process(c) \/ Fail(c) \/ Kill(c)
      PROVE  IInv'
  <2>1. CASE Receive(c)
    BY <2>1, ReceiveStep
  <2>2. CASE Archive(c) \/ Validate(c) \/ Save(c)
    BY <2>2, GoSteps
  <2>3. CASE Reject(c) \/ Delete(c) \/ Fail(c)
    BY <2>3, NextSteps
  <2>4. CASE Kill(c)
    BY <2>4, KillStep
  <2> QED BY <1>2, <2>1, <2>2, <2>3, <2>4 DEF Process
<1>3. CASE \/ \E e \in Valid : Publish(e) \/ Accepted(e) \/ PublishFails(e)
           \/ \E e \in Invalid : PublishDirectly(e)
           \/ \E e \in Events : Forward(e) \/ Expire(e) \/ Redrive(e)
  BY <1>3, QueueSteps
<1> QED BY <1>1, <1>2, <1>3 DEF Next

\* The strengthened invariant holds in every reachable state.
THEOREM Invariance == Spec => []IInv
BY InitIInv, StepIInv, PTL DEF Spec

\* What is buried and not in hand has used up its deliveries on faults, or has
\* nothing left to do.
LEMMA BuriedEvent ==
  ASSUME IInv, NEW e \in Events, place[e] = "dlq", Open(e), ~InHand(e)
  PROVE  faults >= MaxReceives
<1>1. Holders(e) = {}
  BY DEF Holders, Holds, InHand
<1>2. MaxReceives <= faults + Cardinality(Holders(e))
  BY DEF IInv, PlaceInv, CountInv
<1>3. Cardinality(Holders(e)) = 0 /\ faults \in Nat /\ MaxReceives \in Nat
  BY <1>1, FS_EmptySet, BoundsAssumption DEF IInv, TypeOK
<1> QED BY <1>2, <1>3

\* A valid order that was buried without a row, and is in nobody's hands any
\* more, lost every delivery allowed to it to a fault of its own (redrive
\* policy, OrderProcessingService.process).
THEOREM BurialNeedsFaults == Spec => []BuriedByFaultsOnly
<1>1. IInv => BuriedByFaultsOnly
  <2> SUFFICES ASSUME IInv, NEW e \in Events, place[e] = "dlq", Open(e), ~InHand(e)
               PROVE  faults >= MaxReceives
    BY DEF BuriedByFaultsOnly, IInv, Open, Events
  <2> QED BY BuriedEvent
<1> QED BY <1>1, Invariance, PTL

\* Every row has its object in the archive, and an event that was buried
\* without one lost every delivery to a fault.
THEOREM ArchiveNeedsFaults == Spec => []ArchivedUnlessFaults
<1>1. IInv => ArchivedUnlessFaults
  <2>1. ASSUME IInv PROVE table \subseteq archive
    BY <2>1 DEF IInv, PlaceInv
  <2>2. ASSUME IInv, NEW e \in Events, place[e] = "dlq", e \notin archive, ~InHand(e)
        PROVE  faults >= MaxReceives
    BY <2>2, BuriedEvent DEF Open
  <2> QED BY <2>1, <2>2 DEF ArchivedUnlessFaults
<1> QED BY <1>1, Invariance, PTL

-----------------------------------------------------------------------------
\* Every step is one of the abstract queue's, or one it does not see.
LEMMA DeliveryStep ==
  ASSUME IInv, [Next]_vars
  PROVE  [Queue!Next]_(Queue!vars)
<1> DEFINE Waits(e) == place[e] \in {"visible", "inflight"}
           pending == topic \cup {e \in Events : Waits(e)}
           buried == {e \in Events : place[e] = "dlq"}
<1> SUFFICES Queue!Next \/ (pending' = pending /\ table' = table /\ buried' = buried)
  BY DEF Queue!vars
<1>1. CASE UNCHANGED vars
  BY <1>1 DEF vars
<1>2. topic \subseteq Events /\ Valid \subseteq Events /\ Invalid \subseteq Events
  BY DEF IInv, TypeOK, Events
<1>3. ASSUME NEW e \in Events, Publish(e) \/ PublishDirectly(e)
      PROVE  Queue!Next
  <2>1. pending' = pending \cup {e} /\ table' = table /\ buried' = buried
    BY <1>3 DEF Publish, PublishDirectly
  <2> QED BY <2>1 DEF Queue!Next, Queue!Accept
<1>4. ASSUME NEW e \in Valid, Accepted(e) \/ PublishFails(e)
      PROVE  pending' = pending /\ table' = table /\ buried' = buried
  BY <1>4 DEF Accepted, PublishFails, queue
<1>5. ASSUME NEW e \in Events, Forward(e) \/ Expire(e)
      PROVE  pending' = pending /\ table' = table /\ buried' = buried
  BY <1>5, <1>2 DEF Forward, Expire, IInv, TypeOK, TopicInv
<1>6. ASSUME NEW e \in Events, Redrive(e)
      PROVE  Queue!Next
  <2>1. pending' = pending \ {e} /\ table' = table /\ buried' = buried \cup {e} /\ e \in pending
    BY <1>6 DEF Redrive, IInv, TypeOK, TopicInv
  <2> QED BY <2>1 DEF Queue!Next, Queue!Bury
<1>7. ASSUME NEW c \in Consumers, Receive(c)
      PROVE  pending' = pending /\ table' = table /\ buried' = buried
  <2>1. PICK q \in Batches :
          place' = [e \in Events |-> IF e \in Received(q) THEN "inflight" ELSE place[e]]
    BY <1>7 DEF Receive
  <2>2. \A e \in Received(q) : place[e] = "visible"
    BY DEF Received, Batches, Receivable
  <2> QED BY <1>7, <2>1, <2>2 DEF Receive, IInv, TypeOK
<1>8. ASSUME NEW c \in Consumers, Save(c)
      PROVE  Queue!Next \/ (pending' = pending /\ table' = table /\ buried' = buried)
  <2>1. Event(c) \in Events /\ place[Event(c)] \in Places /\ place[Event(c)] # "absent"
    <3>1. Event(c) = batch[c][1].event /\ Event(c) \in Events /\ 1 \in 1 .. Len(batch[c])
      BY <1>8, HandTypes DEF Save, IInv
    <3> QED BY <3>1 DEF IInv, TypeOK, HandInv
  <2>2. pending' = pending /\ table' = table \cup {Event(c)} /\ buried' = buried
    BY <1>8 DEF Save, queue
  <2>3. CASE place[Event(c)] = "deleted"
    BY <2>1, <2>2, <2>3 DEF IInv, PlaceInv
  <2>4. CASE place[Event(c)] # "deleted"
    <3>1. Event(c) \in pending \cup buried
      BY <2>1, <2>4 DEF Places
    <3> QED BY <2>1, <2>2, <3>1 DEF Queue!Next, Queue!Work
  <2> QED BY <2>3, <2>4
<1>9. ASSUME NEW c \in Consumers, Delete(c)
      PROVE  Queue!Next \/ (pending' = pending /\ table' = table /\ buried' = buried)
  <2>1. Event(c) \in Events /\ Event(c) \in table /\ table' = table /\ topic' = topic
    BY <1>9, HandTypes DEF Delete, IInv, HandInv
  <2>2. CASE place' = place
    BY <2>1, <2>2
  <2>3. CASE Waits(Event(c)) /\ place' = [place EXCEPT ![Event(c)] = "deleted"]
    <3>1. pending' = pending \ {Event(c)} /\ buried' = buried /\ Event(c) \in pending
      BY <2>1, <2>3 DEF IInv, TypeOK, TopicInv
    <3> QED BY <2>1, <3>1 DEF Queue!Next, Queue!Finish
  <2> QED BY <1>9, <2>2, <2>3 DEF Delete
<1>10. ASSUME NEW c \in Consumers,
              Archive(c) \/ Validate(c) \/ Reject(c) \/ Fail(c) \/ Kill(c)
       PROVE  pending' = pending /\ table' = table /\ buried' = buried
  BY <1>10 DEF Archive, Validate, Reject, Fail, Kill, queue
<1> HIDE DEF pending, buried
<1> QED BY <1>1, <1>2, <1>3, <1>4, <1>5, <1>6, <1>7, <1>8, <1>9, <1>10 DEF Next, Process

\* SNS, SQS and the consumers together deliver at least once.
THEOREM DeliversAtLeastOnce == Spec => ImplementsDelivery
<1>1. Init => Queue!Init
  BY DEF Init, Queue!Init
<1>2. IInv /\ [Next]_vars => [Queue!Next]_(Queue!vars)
  BY DeliveryStep
<1> QED BY <1>1, <1>2, Invariance, PTL DEF Spec, ImplementsDelivery, Queue!Spec
=============================================================================
