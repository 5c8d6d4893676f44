--------------------------- MODULE OrderPipeline ----------------------------
(***************************************************************************)
(* The order pipeline of event-pipeline: POST /orders publishes to an SNS  *)
(* topic, SNS forwards to an SQS queue, and a consumer takes messages in   *)
(* batches, archives each to S3, validates it, writes it to DynamoDB and   *)
(* deletes it.  A failure leaves the message in the queue: SQS shows it    *)
(* again after the visibility timeout and, once it has been received       *)
(* max_receive_count times, moves it to the dead-letter queue.             *)
(*                                                                         *)
(* The timeout of every message of a batch starts when the batch is        *)
(* received and the batch is handled one message after the other, so a     *)
(* message may be received by another consumer while the first one is      *)
(* still on its way to it.  Both consumer classes call the same service    *)
(* and delete on success, so one model stands for both.                    *)
(***************************************************************************)
EXTENDS Naturals, Sequences

CONSTANTS
  Valid,            \* orders accepted by the controller's validation
  Invalid,          \* malformed events published to the topic directly
  Consumers,        \* consumer threads, of one instance or of several
  MaxReceives,      \* max_receive_count
  BatchSize,        \* maxNumberOfMessages
  MaxFaults         \* bound on failing AWS calls and killed consumers

ASSUME BoundsAssumption ==
  MaxReceives \in Nat \ {0} /\ BatchSize \in Nat \ {0} /\ MaxFaults \in Nat
ASSUME EventsAssumption == Valid \cap Invalid = {}

VARIABLES
  request,          \* request[e]: what became of POST /orders for order e
  topic,            \* events SNS has and has not forwarded
  place,            \* place[e]: where e's message is
  receives,         \* receives[e]: ApproximateReceiveCount, also the number
                    \* of the latest receipt handle
  batch,            \* batch[c]: messages received and not yet handled
  step,             \* step[c]: where process() is with the first of them
  archive,          \* events in the S3 bucket
  table,            \* orders with a PROCESSED row
  faults            \* faults so far

queue == <<topic, place, receives>>
vars == <<request, topic, place, receives, batch, step, archive, table, faults>>

Events == Valid \cup Invalid
Places == {"absent", "visible", "inflight", "deleted", "dlq"}
Receipts == [event : Events, receipt : 1 .. MaxReceives]

Init ==
  /\ request = [e \in Valid |-> "none"]
  /\ topic = {}
  /\ place = [e \in Events |-> "absent"]
  /\ receives = [e \in Events |-> 0]
  /\ batch = [c \in Consumers |-> <<>>]
  /\ step = [c \in Consumers |-> "poll"]
  /\ archive = {} /\ table = {}
  /\ faults = 0

Fault == faults < MaxFaults /\ faults' = faults + 1

-----------------------------------------------------------------------------
\* OrderController, OrderEventPublisher and SNS.

Unused(e) == e \notin topic /\ place[e] = "absent"

\* SNS takes the event; the caller does not know it yet.
Publish(e) ==
  /\ request[e] = "none"
  /\ request' = [request EXCEPT ![e] = "sent"]
  /\ topic' = topic \cup {e}
  /\ UNCHANGED <<place, receives, batch, step, archive, table, faults>>

\* 202 with the id of the SNS message.
Accepted(e) ==
  /\ request[e] = "sent"
  /\ request' = [request EXCEPT ![e] = "accepted"]
  /\ UNCHANGED <<queue, batch, step, archive, table, faults>>

\* listTopics or publish throws, with the event taken or not: RuntimeException.
PublishFails(e) ==
  /\ request[e] \in {"none", "sent"}
  /\ request' = [request EXCEPT ![e] = "failed"]
  /\ UNCHANGED <<queue, batch, step, archive, table, faults>>

PublishDirectly(e) ==
  /\ Unused(e)
  /\ topic' = topic \cup {e}
  /\ UNCHANGED <<request, place, receives, batch, step, archive, table, faults>>

Forward(e) ==
  /\ e \in topic
  /\ topic' = topic \ {e}
  /\ place' = [place EXCEPT ![e] = "visible"]
  /\ UNCHANGED <<request, receives, batch, step, archive, table, faults>>

-----------------------------------------------------------------------------
\* SQS.

\* Mutant of Expire: what is received never comes back.
ExpireNever(e) == FALSE /\ UNCHANGED vars

\* The visibility timeout ends, whoever may still be working on the message.
Expire(e) ==
  /\ place[e] = "inflight"
  /\ place' = [place EXCEPT ![e] = "visible"]
  /\ UNCHANGED <<request, topic, receives, batch, step, archive, table, faults>>

\* One receive too many moves the message to the dead-letter queue.
Redrive(e) ==
  /\ place[e] = "visible" /\ receives[e] = MaxReceives
  /\ place' = [place EXCEPT ![e] = "dlq"]
  /\ UNCHANGED <<request, topic, receives, batch, step, archive, table, faults>>

Receivable(e) == place[e] = "visible" /\ receives[e] < MaxReceives

\* The batches receiveMessage may return.
Batches ==
  {q \in UNION {[1 .. n -> Events] : n \in 1 .. BatchSize} :
     \A i, j \in DOMAIN q : Receivable(q[i]) /\ (q[i] = q[j] => i = j)}

Received(q) == {q[i] : i \in DOMAIN q}

Receive(c) ==
  /\ step[c] = "poll"
  /\ \E q \in Batches :
       /\ place' = [e \in Events |-> IF e \in Received(q) THEN "inflight" ELSE place[e]]
       /\ receives' = [e \in Events |-> IF e \in Received(q) THEN receives[e] + 1 ELSE receives[e]]
       /\ batch' = [batch EXCEPT ![c] =
                      [i \in DOMAIN q |-> [event |-> q[i], receipt |-> receives[q[i]] + 1]]]
  /\ step' = [step EXCEPT ![c] = "archive"]
  /\ UNCHANGED <<request, topic, archive, table, faults>>

-----------------------------------------------------------------------------
\* OrderProcessingService.process and the loop around it.

Event(c) == Head(batch[c]).event

Go(c, there) == step' = [step EXCEPT ![c] = there] /\ UNCHANGED batch

\* On to the next message of the batch; the message itself stays as it is.
NextMessage(c) ==
  /\ batch' = [batch EXCEPT ![c] = Tail(@)]
  /\ step' = [step EXCEPT ![c] = IF Tail(batch[c]) = <<>> THEN "poll" ELSE "archive"]

\* Mutant of Archive: the event is validated first.
ArchiveValid(c) ==
  /\ step[c] = "archive"
  /\ IF Event(c) \in Valid
       THEN archive' = archive \cup {Event(c)} /\ Go(c, "validate")
       ELSE NextMessage(c) /\ UNCHANGED archive
  /\ UNCHANGED <<request, queue, table, faults>>

\* Mutant of Archive: an object that exists is not written again (If-None-Match).
ArchiveOnce(c) ==
  /\ step[c] = "archive"
  /\ IF Event(c) \notin archive
       THEN archive' = archive \cup {Event(c)} /\ Go(c, "validate")
       ELSE NextMessage(c) /\ UNCHANGED archive
  /\ UNCHANGED <<request, queue, table, faults>>

Archive(c) ==
  /\ step[c] = "archive"
  /\ archive' = archive \cup {Event(c)}
  /\ Go(c, "validate")
  /\ UNCHANGED <<request, queue, table, faults>>

Validate(c) ==
  /\ step[c] = "validate" /\ Event(c) \in Valid
  /\ Go(c, "save")
  /\ UNCHANGED <<request, queue, archive, table, faults>>

\* readValue or the range check throws; the message is left for a retry.
Reject(c) ==
  /\ step[c] = "validate" /\ Event(c) \in Invalid
  /\ NextMessage(c)
  /\ UNCHANGED <<request, queue, archive, table, faults>>

\* putItem overwrites whatever an earlier delivery wrote.
Save(c) ==
  /\ step[c] = "save"
  /\ table' = table \cup {Event(c)}
  /\ Go(c, "delete")
  /\ UNCHANGED <<request, queue, archive, faults>>

\* deleteMessage with the receipt of this delivery.  SQS acts on the latest
\* receipt of a message; with an older one it answers alike and may do nothing.
Delete(c) ==
  LET e == Event(c) IN
  /\ step[c] = "delete"
  /\ \/ /\ place[e] \in {"visible", "inflight"}
        /\ place' = [place EXCEPT ![e] = "deleted"]
     \/ /\ Head(batch[c]).receipt < receives[e] \/ place[e] \in {"deleted", "dlq"}
        /\ UNCHANGED place
  /\ NextMessage(c)
  /\ UNCHANGED <<request, topic, receives, archive, table, faults>>

\* Mutant of Fail: the message is deleted in a finally block.
FailAndDelete(c) ==
  /\ Fault
  /\ step[c] \in {"archive", "save", "delete"}
  /\ place' = [place EXCEPT ![Event(c)] = IF @ = "dlq" THEN @ ELSE "deleted"]
  /\ NextMessage(c)
  /\ UNCHANGED <<request, topic, receives, archive, table>>

\* putObject, putItem or deleteMessage throws; the loop logs it and goes on.
Fail(c) ==
  /\ Fault
  /\ step[c] \in {"archive", "save", "delete"}
  /\ NextMessage(c)
  /\ UNCHANGED <<request, queue, archive, table>>

\* The instance is killed and started again: the rest of its batch is forgotten.
Kill(c) ==
  /\ Fault
  /\ step[c] # "poll"
  /\ batch' = [batch EXCEPT ![c] = <<>>]
  /\ step' = [step EXCEPT ![c] = "poll"]
  /\ UNCHANGED <<request, queue, archive, table>>

Process(c) ==
  \/ Archive(c) \/ Validate(c) \/ Reject(c) \/ Save(c) \/ Delete(c)

Next ==
  \/ \E e \in Valid : Publish(e) \/ Accepted(e) \/ PublishFails(e)
  \/ \E e \in Invalid : PublishDirectly(e)
  \/ \E e \in Events : Forward(e) \/ Expire(e) \/ Redrive(e)
  \/ \E c \in Consumers : Receive(c) \/ Process(c) \/ Fail(c) \/ Kill(c)

Spec == Init /\ [][Next]_vars

\* SNS forwards, timeouts end, the scheduled poll runs every three seconds and
\* a handler goes on.  No client has to publish.
Fairness ==
  /\ \A e \in Events : WF_vars(Forward(e)) /\ WF_vars(Expire(e)) /\ WF_vars(Redrive(e))
  /\ \A c \in Consumers : WF_vars(Receive(c)) /\ WF_vars(Process(c))

LiveSpec == Spec /\ Fairness

-----------------------------------------------------------------------------

\* Variables keep their types, and a consumer has a batch exactly when it works.
TypeOK ==
  /\ request \in [Valid -> {"none", "sent", "accepted", "failed"}]
  /\ topic \subseteq Events
  /\ place \in [Events -> Places]
  /\ receives \in [Events -> 0 .. MaxReceives]
  /\ step \in [Consumers -> {"poll", "archive", "validate", "save", "delete"}]
  /\ batch \in [Consumers -> Seq(Receipts)]
  /\ \A c \in Consumers :
       Len(batch[c]) <= BatchSize /\ (batch[c] = <<>> <=> step[c] = "poll")
  /\ archive \subseteq Events /\ table \subseteq Valid
  /\ faults \in 0 .. MaxFaults

\* Topic and queue together deliver at least once: an event leaves them only for
\* the dead-letter queue or with its row written, and nothing is written that
\* was not published (OrderEventPublisher to OrderRepository.save).
Queue == INSTANCE Delivery WITH
  Messages <- Events,
  pending  <- topic \cup {e \in Events : place[e] \in {"visible", "inflight"}},
  worked   <- table,
  buried   <- {e \in Events : place[e] = "dlq"}
ImplementsDelivery == Queue!Spec

InHand(e) == \E c \in Consumers : \E i \in 1 .. Len(batch[c]) : batch[c][i].event = e

\* A valid order is buried unprocessed only if every delivery allowed to it was
\* lost to a fault; timeouts that overlap the handler do not use them up.
BuriedByFaultsOnly ==
  /\ TypeOK
  /\ \A e \in Valid :
       place[e] = "dlq" => e \in table \/ InHand(e) \/ faults >= MaxReceives

\* What is processed is archived, and so is what is buried unless as many
\* faults happened as deliveries are allowed.
ArchivedUnlessFaults ==
  /\ table \subseteq archive
  /\ \A e \in Events :
       place[e] = "dlq" => e \in archive \/ InHand(e) \/ faults >= MaxReceives

\* Every order answered 202 is processed, or it is buried and as many faults
\* happened as deliveries are allowed; a malformed event ends in the
\* dead-letter queue and stays there (publisher to redrive policy).
EventsSettle ==
  /\ \A e \in Valid :
       request[e] = "accepted" ~>
         e \in table \/ (place[e] = "dlq" /\ faults >= MaxReceives)
  /\ \A e \in Invalid : e \in topic ~> [](place[e] = "dlq")
=============================================================================
