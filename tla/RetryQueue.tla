----------------------------- MODULE RetryQueue -----------------------------
(***************************************************************************)
(* The message consumer of labs/r7-messaging and the copy of it in         *)
(* labs/r13-incident-investigation/03-queue-backlog, which writes a row    *)
(* before it logs a "normal" message: a RabbitMQ queue "orders", three     *)
(* delay queues that dead-letter back to it, and a dead-letter queue.      *)
(*                                                                         *)
(* A consumer is a single-threaded process with one AMQP connection.  What *)
(* it sends is in flight (wire) until the broker takes it, in order; a     *)
(* lost connection loses what is in flight and requeues what was delivered *)
(* and not acknowledged.  The process learns of the loss only when it next *)
(* uses the connection, so for a while it works on a message that the      *)
(* broker has given to somebody else.  The broker learns of the end of a   *)
(* process when the connection closes; a half-open connection keeps what   *)
(* it was given while compose has long started the next process.           *)
(*                                                                         *)
(* A message is named by the order id in it; a copy of a message adds the  *)
(* x-retry-attempt header.  Delays have no length here: an expiry of the   *)
(* head of a delay queue is a step that may happen at any time.            *)
(***************************************************************************)
EXTENDS Naturals, Sequences, FiniteSets, Functions

CONSTANTS
  Normal, Poison, Crash, Idempotent, Ordered, Unknown,
                     \* the messages of each "type" field
  Consumers,         \* names of a process and its connection, used again
                     \* once the process and the connection are gone
  Containers,        \* how many containers run consumer.py
  MaxFaults          \* bound on killed processes, cut connections and
                     \* messages published a second time

ASSUME ConsumersAssumption ==
  IsFiniteSet(Consumers) /\ Containers \in Nat /\ MaxFaults \in Nat

\* A message has one "type" field.
ASSUME TypesAssumption ==
  /\ Normal \cap (Poison \cup Crash \cup Idempotent \cup Ordered \cup Unknown) = {}
  /\ Poison \cap (Crash \cup Idempotent \cup Ordered \cup Unknown) = {}
  /\ Crash \cap (Idempotent \cup Ordered \cup Unknown) = {}
  /\ Idempotent \cap (Ordered \cup Unknown) = {} /\ Ordered \cap Unknown = {}

VARIABLES
  orders,            \* queue "orders": copies, the next to deliver first
  retry,             \* retry[n]: queue "orders-retry-n"
  dlq,               \* queue "orders-dlq"
  open,              \* open[c]: the broker's end of c's connection is open
  held,              \* held[c]: what is delivered to c and not acknowledged
  wire,              \* wire[c]: frames c has sent and the broker not taken
  step,              \* step[c]: where the process is in on_message
  hand,              \* hand[c]: the copy on_message is called with
  rows,              \* table processed_orders (R13-03)
  effects,           \* side_effects.log: lines per order id, up to Many
  processed,         \* processed_ids.log
  log,               \* order_completion.log
  published,         \* order ids in the order they were first published
  tried,             \* tried[m]: attempts at a poison message sent on
  faults,            \* faults so far
  kills              \* how many of them ended a process

broker == <<orders, retry, dlq, open, held>>
files == <<rows, effects, processed, log, tried>>
vars == <<orders, retry, dlq, open, held, wire, step, hand, rows, effects,
          processed, log, published, tried, faults, kills>>

Msgs == Normal \cup Poison \cup Crash \cup Idempotent \cup Ordered \cup Unknown

Attempts == 1 .. 3                       \* the keys of RETRY_QUEUES
Final == 4                                \* the header a buried message carries
Many == 2                                \* "more than one line" in a log
Copies == [id : Msgs, attempt : 0 .. Final]
Frames == [to : {"queue"}, copy : Copies] \cup [to : {"broker"}]

Fresh(m) == [id |-> m, attempt |-> 0]
Send(copy) == [to |-> "queue", copy |-> copy]
Ack == [to |-> "broker"]

Init ==
  /\ orders = <<>> /\ retry = [n \in Attempts |-> <<>>] /\ dlq = <<>>
  /\ open = [c \in Consumers |-> FALSE]
  /\ held = [c \in Consumers |-> <<>>]
  /\ wire = [c \in Consumers |-> <<>>]
  /\ step = [c \in Consumers |-> "down"]
  /\ hand = [c \in Consumers |-> <<>>]
  /\ rows = {} /\ processed = {} /\ log = <<>> /\ published = <<>>
  /\ effects = [m \in Msgs |-> 0]
  /\ tried = [m \in Msgs |-> {}]
  /\ faults = 0 /\ kills = 0

Fault == faults < MaxFaults /\ faults' = faults + 1

-----------------------------------------------------------------------------
\* The producer: one publish and a clean close, run once per message.

Publish(m) ==
  /\ m \notin Range(published)
  /\ published' = Append(published, m)
  /\ orders' = Append(orders, Fresh(m))
  /\ UNCHANGED <<retry, dlq, open, held, wire, step, hand, files, faults, kills>>

\* The operator runs the producer again with an id already used.
Republish(m) ==
  /\ Fault
  /\ m \in Idempotent \cap Range(published)
  /\ orders' = Append(orders, Fresh(m))
  /\ UNCHANGED <<retry, dlq, open, held, wire, step, hand, files, published, kills>>

-----------------------------------------------------------------------------
\* The broker.

\* Mutant of Deliver: auto_ack=True, the broker forgets what it delivers.
DeliverAutoAck(c) ==
  /\ open[c] /\ step[c] = "idle" /\ orders # <<>>
  /\ hand' = [hand EXCEPT ![c] = <<Head(orders)>>]
  /\ step' = [step EXCEPT ![c] = "work"]
  /\ orders' = Tail(orders)
  /\ UNCHANGED <<retry, dlq, open, held, wire, files, published, faults, kills>>

\* prefetch_count=1: nothing is delivered before the last ack is taken.
Deliver(c) ==
  /\ open[c] /\ step[c] = "idle" /\ held[c] = <<>> /\ orders # <<>>
  /\ held' = [held EXCEPT ![c] = <<Head(orders)>>]
  /\ hand' = [hand EXCEPT ![c] = <<Head(orders)>>]
  /\ step' = [step EXCEPT ![c] = "work"]
  /\ orders' = Tail(orders)
  /\ UNCHANGED <<retry, dlq, open, wire, files, published, faults, kills>>

\* A half-open connection is given a message nobody will read.
DeliverToDead(c) ==
  /\ open[c] /\ step[c] = "down" /\ held[c] = <<>> /\ orders # <<>>
  /\ held' = [held EXCEPT ![c] = <<Head(orders)>>]
  /\ orders' = Tail(orders)
  /\ UNCHANGED <<retry, dlq, open, wire, step, hand, files, published, faults, kills>>

NextFrame(c) ==
  /\ open[c] /\ wire[c] # <<>>
  /\ wire' = [wire EXCEPT ![c] = Tail(@)]

\* The default exchange routes a copy to the queue its publisher names.
TakePublish(c) ==
  LET copy == Head(wire[c]).copy IN
  /\ NextFrame(c)
  /\ Head(wire[c]).to = "queue"
  /\ \/ /\ copy.attempt = Final
        /\ dlq' = Append(dlq, copy)
        /\ UNCHANGED retry
     \/ /\ copy.attempt \in Attempts
        /\ retry' = [retry EXCEPT ![copy.attempt] = Append(@, copy)]
        /\ UNCHANGED dlq
  /\ UNCHANGED <<orders, open, held, step, hand, files, published, faults, kills>>

TakeAck(c) ==
  /\ NextFrame(c)
  /\ Head(wire[c]) = Ack
  /\ held' = [held EXCEPT ![c] = <<>>]
  /\ UNCHANGED <<orders, retry, dlq, open, step, hand, files, published, faults, kills>>

\* Mutant of Expire: a delay queue declared without its dead-letter routing.
ExpireDrop(n) ==
  /\ retry[n] # <<>>
  /\ retry' = [retry EXCEPT ![n] = Tail(@)]
  /\ UNCHANGED <<orders, dlq, open, held, wire, step, hand, files, published, faults, kills>>

\* The TTL of a delay queue is the same for all of it, so its head goes first.
Expire(n) ==
  /\ retry[n] # <<>>
  /\ retry' = [retry EXCEPT ![n] = Tail(@)]
  /\ orders' = Append(orders, Head(retry[n]))
  /\ UNCHANGED <<dlq, open, held, wire, step, hand, files, published, faults, kills>>

\* Mutant of Requeue: the redelivered message goes to the back of the queue.
RequeueLast(c) == orders \o held[c]

\* An unacknowledged message goes back to where it was taken from.
Requeue(c) == held[c] \o orders

Disconnect(c) ==
  /\ open[c]
  /\ open' = [open EXCEPT ![c] = FALSE]
  /\ orders' = Requeue(c)
  /\ held' = [held EXCEPT ![c] = <<>>]
  /\ wire' = [wire EXCEPT ![c] = <<>>]
  /\ UNCHANGED <<retry, dlq, step, hand, files, published>>

\* The broker sees that the process has ended; it may take frames before that.
Close(c) == step[c] = "down" /\ Disconnect(c) /\ UNCHANGED <<faults, kills>>

\* Toxiproxy or a missed heartbeat cuts the connection of a running process.
Cut(c) == step[c] # "down" /\ Fault /\ Disconnect(c) /\ UNCHANGED kills

-----------------------------------------------------------------------------
\* on_message, one step per write to a file, a table or the connection.

At(c, here, kind) == step[c] = here /\ Head(hand[c]).id \in kind
Id(c) == Head(hand[c]).id

Go(c, there) ==
  /\ step' = [step EXCEPT ![c] = there]
  /\ UNCHANGED <<broker, wire, hand, published, faults, kills>>

\* The process ends; nothing it sent is taken back and nothing is told.
Exit(c) ==
  /\ step' = [step EXCEPT ![c] = "down"]
  /\ hand' = [hand EXCEPT ![c] = <<>>]
  /\ UNCHANGED <<broker, wire, published>>

AppendEffect(m) == effects' = [effects EXCEPT ![m] = IF @ < Many THEN @ + 1 ELSE @]

\* normal: db_write, then append_side_effect, then the ack.
WriteRow(c) ==
  /\ At(c, "work", Normal)
  /\ rows' = rows \cup {Id(c)}
  /\ Go(c, "effect")
  /\ UNCHANGED <<effects, processed, log, tried>>

LogEffect(c) ==
  /\ At(c, "effect", Normal)
  /\ AppendEffect(Id(c))
  /\ Go(c, "ack")
  /\ UNCHANGED <<rows, processed, log, tried>>

NextAttempt(c) == Head(hand[c]).attempt + 1

\* Mutant of Target: the second failure is already the last.
TargetEarly(next) == IF next >= 3 THEN Final ELSE next

\* A fourth failure exhausts the attempts; the header then reads 4.
Target(next) == IF next > 3 THEN Final ELSE next

Resent(c) == [id |-> Id(c), attempt |-> Target(NextAttempt(c))]

\* Mutant of RetryOrBury: the ack is sent before the copy.
AckFirst(c) ==
  /\ At(c, "work", Poison) /\ open[c]
  /\ wire' = [wire EXCEPT ![c] = @ \o <<Ack, Send(Resent(c))>>]
  /\ tried' = [tried EXCEPT ![Id(c)] = @ \cup {Head(hand[c]).attempt}]
  /\ step' = [step EXCEPT ![c] = "idle"]
  /\ hand' = [hand EXCEPT ![c] = <<>>]
  /\ UNCHANGED <<broker, rows, effects, processed, log, published, faults, kills>>

\* poison: a copy with the next attempt goes to the queue of that attempt.
RetryOrBury(c) ==
  /\ At(c, "work", Poison) /\ open[c]
  /\ wire' = [wire EXCEPT ![c] = Append(@, Send(Resent(c)))]
  /\ tried' = [tried EXCEPT ![Id(c)] = @ \cup {Head(hand[c]).attempt}]
  /\ step' = [step EXCEPT ![c] = "ack"]
  /\ UNCHANGED <<broker, hand, rows, effects, processed, log, published, faults, kills>>

\* crash: the side effect and os._exit, no ack.
EffectAndExit(c) ==
  /\ At(c, "work", Crash) \/ At(c, "effect", Idempotent)
  /\ AppendEffect(Id(c))
  /\ Exit(c)
  /\ UNCHANGED <<rows, processed, log, tried, faults, kills>>

\* crash_idempotent: already_processed, mark_processed, then as for crash.
Check(c) ==
  /\ At(c, "work", Idempotent)
  /\ Go(c, IF Id(c) \in processed THEN "ack" ELSE "mark")
  /\ UNCHANGED files

\* Mutant of Mark: the key is remembered by the process and not in the file.
MarkInMemory(c) ==
  /\ At(c, "mark", Idempotent)
  /\ Go(c, "effect")
  /\ UNCHANGED files

Mark(c) ==
  /\ At(c, "mark", Idempotent)
  /\ processed' = processed \cup {Id(c)}
  /\ Go(c, "effect")
  /\ UNCHANGED <<rows, effects, log, tried>>

Complete(c) ==
  /\ At(c, "work", Ordered)
  /\ log' = Append(log, Id(c))
  /\ Go(c, "ack")
  /\ UNCHANGED <<rows, effects, processed, tried>>

Skip(c) == At(c, "work", Unknown) /\ Go(c, "ack") /\ UNCHANGED files

\* Mutant of SendAck: the handler raises where it should acknowledge.
RaiseAtAck(c) ==
  /\ step[c] = "ack" /\ open[c]
  /\ Exit(c)
  /\ UNCHANGED <<files, faults, kills>>

SendAck(c) ==
  /\ step[c] = "ack" /\ open[c]
  /\ wire' = [wire EXCEPT ![c] = Append(@, Ack)]
  /\ step' = [step EXCEPT ![c] = "idle"]
  /\ hand' = [hand EXCEPT ![c] = <<>>]
  /\ UNCHANGED <<broker, files, published, faults, kills>>

\* The first use of a lost connection raises, and nothing catches it.  (When
\* the process notices before the broker does, it is a Kill.)
ConnectionError(c) ==
  /\ ~open[c]
  /\ step[c] \in {"idle", "ack"} \/ At(c, "work", Poison)
  /\ Exit(c)
  /\ UNCHANGED <<files, faults, kills>>

\* docker stop, or db_write raising in the middle of a "normal" message.
Kill(c) ==
  /\ step[c] # "down" /\ Fault /\ kills' = kills + 1
  /\ Exit(c)
  /\ UNCHANGED files

Running == {c \in Consumers : step[c] # "down"}

\* restart: always waits for nothing: while another name is free, the next
\* process may connect before the broker has closed the last one's connection.
Restart(c) ==
  /\ step[c] = "down" /\ ~open[c]
  /\ Cardinality(Running) < Containers
  /\ step' = [step EXCEPT ![c] = "idle"]
  /\ open' = [open EXCEPT ![c] = TRUE]
  /\ UNCHANGED <<orders, retry, dlq, held, wire, hand, files, published, faults, kills>>

Handle(c) ==
  \/ WriteRow(c) \/ LogEffect(c) \/ RetryOrBury(c) \/ EffectAndExit(c)
  \/ Check(c) \/ Mark(c) \/ Complete(c) \/ Skip(c) \/ SendAck(c)
  \/ ConnectionError(c)

Take(c) == TakePublish(c) \/ TakeAck(c) \/ Close(c)

Next ==
  \/ \E m \in Msgs : Publish(m) \/ Republish(m)
  \/ \E n \in Attempts : Expire(n)
  \/ \E c \in Consumers :
       \/ Deliver(c) \/ DeliverToDead(c) \/ Take(c)
       \/ Handle(c) \/ Restart(c) \/ Cut(c) \/ Kill(c)

Spec == Init /\ [][Next]_vars

\* The broker delivers while some consumer is ready, timers run out, frames
\* arrive, and a process runs and is restarted.  Nobody has to publish.
Fairness ==
  /\ WF_vars(\E c \in Consumers : Deliver(c))
  /\ WF_vars(\E c \in Consumers : Restart(c))
  /\ \A n \in Attempts : WF_vars(Expire(n))
  /\ \A c \in Consumers : WF_vars(Take(c)) /\ WF_vars(Handle(c))

LiveSpec == Spec /\ Fairness

-----------------------------------------------------------------------------

\* Variables keep their types; a connection has at most one message out, and
\* a process works on a message exactly between a delivery and its ack.
TypeOK ==
  /\ orders \in Seq(Copies) /\ dlq \in Seq(Copies)
  /\ retry \in [Attempts -> Seq(Copies)]
  /\ open \in [Consumers -> BOOLEAN]
  /\ step \in [Consumers -> {"down", "idle", "work", "mark", "effect", "ack"}]
  /\ wire \in [Consumers -> Seq(Frames)]
  /\ held \in [Consumers -> Seq(Copies)] /\ hand \in [Consumers -> Seq(Copies)]
  /\ \A c \in Consumers :
       /\ Len(held[c]) <= 1 /\ Len(hand[c]) <= 1
       /\ hand[c] = <<>> <=> step[c] \in {"down", "idle"}
  /\ rows \subseteq Normal /\ processed \subseteq Idempotent
  /\ effects \in [Msgs -> 0 .. Many]
  /\ log \in Seq(Ordered) /\ published \in Seq(Msgs)
  /\ tried \in [Msgs -> SUBSET (0 .. 3)]
  /\ faults \in 0 .. MaxFaults /\ kills \in 0 .. faults

CountIn(q, m) == Cardinality({i \in 1 .. Len(q) : q[i].id = m})

Has(q, m) == \E i \in 1 .. Len(q) : q[i].id = m

HasLiveCopy(m) ==
  \/ Has(orders, m)
  \/ \E n \in Attempts : Has(retry[n], m)
  \/ \E c \in Consumers : Has(held[c], m)

HasCopy(m) == HasLiveCopy(m) \/ Has(dlq, m)

\* What on_message has to have done before a message may disappear.
Done(m) ==
  \/ m \in Normal /\ m \in rows /\ effects[m] > 0
  \/ m \in Idempotent /\ m \in processed
  \/ m \in Ordered /\ \E i \in 1 .. Len(log) : log[i] = m
  \/ m \in Unknown

\* At least once: a published message stays in a queue or with a consumer
\* until its work is durable, and a poison message stays for ever, although
\* the copy that replaces it and its ack are two frames and either can be
\* lost with the connection (consumer.py:109-125).
NothingLost == \A m \in Msgs : m \in Range(published) => HasCopy(m) \/ Done(m)

\* The exchange, the delay queues and the consumers deliver at least once, all
\* copies of a message taken together (producer.py to the last ack).
Queue == INSTANCE Delivery WITH
  Messages <- Msgs \ Unknown,
  pending  <- {m \in Msgs \ Unknown : HasLiveCopy(m)},
  worked   <- {m \in Msgs \ Unknown : Done(m)},
  buried   <- {m \in Msgs \ Unknown : Has(dlq, m)}
ImplementsDelivery == Queue!Spec

\* Nothing is buried before it has failed with every header from 0 to 3, even
\* when a redelivered original and its resent copy are both under way.
BuriedAfterAllAttempts ==
  \A i \in 1 .. Len(dlq) : dlq[i].attempt = Final /\ tried[dlq[i].id] = 0 .. 3

\* A message multiplies only through a fault: the copies that rest in queues,
\* live or buried, never exceed one and the number of faults so far, with every
\* variable of its type (consumer.py:109-125).
CopiesBounded ==
  /\ TypeOK
  /\ \A m \in Msgs :
       CountIn(orders, m) + CountIn(dlq, m)
         + CountIn(retry[1], m) + CountIn(retry[2], m) + CountIn(retry[3], m) <= 1 + faults

\* consumer.py:22-25: the redelivery of a crash_idempotent message is detected
\* and its effect applied only once, with one consumer.  The key is marked
\* before the effect, so a process killed in between leaves it out for good;
\* without such a fault it has happened when no copy is left to redeliver.
IdempotentOnce ==
  \A m \in Idempotent :
    /\ effects[m] <= 1
    /\ m \in Range(published) /\ ~HasCopy(m) => effects[m] = 1 \/ faults > 0

Position(m) == CHOOSE i \in 1 .. Len(published) : published[i] = m

\* R7-08: one container completes ordered messages in the order they were
\* published, a redelivery repeating a completion and never going back past it,
\* except for what a killed process may leave behind in a half-open connection:
\* one message for each, which completes late (docker-compose.yml:36-50).
CompletedInOrder ==
  /\ TypeOK
  /\ \E late \in SUBSET Ordered :
       /\ IsFiniteSet(late) /\ Cardinality(late) <= kills
       /\ \A i, j \in 1 .. Len(log) :
            i < j /\ log[i] \notin late /\ log[j] \notin late
              => Position(log[i]) <= Position(log[j])

\* Where a message ends when nothing makes its consumer exit for ever.
Settled(m) ==
  IF m \in Poison THEN Has(dlq, m) ELSE Done(m) /\ ~HasCopy(m)

\* Every published message is dealt with: a poison message reaches the
\* dead-letter queue through all three delays, the others do their work and
\* leave, whatever the faults were.  (A message is published once and for all.)
EveryMessageSettles ==
  \A m \in Msgs : []<>(m \in Range(published) => Settled(m))
=============================================================================
