------------------------------ MODULE Checkout ------------------------------
(***************************************************************************)
(* The traced checkout of labs/r8-distributed-tracing, run unchanged as    *)
(* labs/r13-incident-investigation/01-high-latency: a handler thread looks *)
(* in a cache it never fills, queries the database, publishes the order to *)
(* RabbitMQ and answers; a consumer logs the order and acknowledges it.    *)
(*                                                                         *)
(* A checkout and its message are named by the request.  The frame of a    *)
(* publish is in flight until the broker takes it; closing the connection  *)
(* waits for that.  A consumer whose connection is lost goes on with its   *)
(* message until it acknowledges.                                          *)
(***************************************************************************)
EXTENDS Naturals, Sequences

CONSTANTS
  Requests,         \* checkouts
  Malformed,        \* bodies that are not JSON objects, published by others
  Consumers,        \* processes running consumer.py
  MaxFaults         \* bound on lost connections and killed consumers

ASSUME CheckoutAssumption ==
  Requests \cap Malformed = {} /\ MaxFaults \in Nat

VARIABLES
  at,               \* at[r]: where the handler of r is
  answer,           \* answer[r]: HTTP status the client got, 0: none
  wire,             \* checkouts whose publish the broker has not taken
  queue,            \* queue "orders"
  step,             \* step[c]: where the process is in on_message
  hand,             \* hand[c]: the message on_message is called with
  linked,           \* linked[c]: the broker's end of the connection is open
  lines,            \* lines[r]: how often a consumer has logged r, up to Many
  faults            \* faults so far

handlers == <<at, answer, wire>>
consumers == <<step, hand, linked, lines>>
vars == <<handlers, queue, consumers, faults>>

Message == Requests \cup Malformed
Many == MaxFaults + 2                     \* more than LoggedAgainByFault allows

Init ==
  /\ at = [r \in Requests |-> "idle"] /\ answer = [r \in Requests |-> 0]
  /\ wire = {} /\ queue = <<>> /\ faults = 0
  /\ lines = [r \in Requests |-> 0]
  /\ step = [c \in Consumers |-> "idle"] /\ hand = [c \in Consumers |-> <<>>]
  /\ linked = [c \in Consumers |-> TRUE]

Fault == faults < MaxFaults /\ faults' = faults + 1

-----------------------------------------------------------------------------
\* do_GET

Go(r, there) == at' = [at EXCEPT ![r] = there] /\ UNCHANGED answer

Done(r, status) ==
  /\ at' = [at EXCEPT ![r] = "done"]
  /\ answer' = [answer EXCEPT ![r] = status]

\* fail=1 raises before anything is called.
Begin(r) ==
  /\ at[r] = "idle"
  /\ Go(r, "cache") \/ Done(r, 500)
  /\ UNCHANGED <<wire, queue, consumers, faults>>

\* Hit, miss or exception: the value is not used and the request goes on.
CacheLookup(r) ==
  /\ at[r] = "cache"
  /\ Go(r, "db")
  /\ UNCHANGED <<wire, queue, consumers, faults>>

DbQuery(r) ==
  /\ at[r] = "db"
  /\ Go(r, "publish") \/ Done(r, 500)
  /\ UNCHANGED <<wire, queue, consumers, faults>>

\* Without publisher confirms: basic_publish returns when the frame is sent.
Publish(r) ==
  /\ at[r] = "publish"
  /\ wire' = wire \cup {r}
  /\ Go(r, "close")
  /\ UNCHANGED <<queue, consumers, faults>>

\* Mutant of Closed: the connection is dropped and not closed.
ClosedUnheard(r) == at[r] = "close"

\* close() returns when the broker has answered, after all it was sent before.
Closed(r) == at[r] = "close" /\ r \notin wire

Answer(r) ==
  /\ Closed(r)
  /\ Done(r, 200)
  /\ UNCHANGED <<wire, queue, consumers, faults>>

\* The broker cannot be reached, or is lost with the frame sent or taken: 500.
PublishFails(r) ==
  /\ Fault
  /\ at[r] \in {"publish", "close"}
  /\ wire' \in {wire, wire \ {r}}
  /\ Done(r, 500)
  /\ UNCHANGED <<queue, consumers>>

\* The client is gone: the answer raises, and so does the answer to that.
AnswerFails(r) ==
  /\ Fault
  /\ Closed(r)
  /\ Done(r, 0)
  /\ UNCHANGED <<wire, queue, consumers>>

-----------------------------------------------------------------------------
\* RabbitMQ.

Holds(q, m) == \E i \in DOMAIN q : q[i] = m

\* In the queue, or delivered and not acknowledged.
Waiting(m) == Holds(queue, m) \/ \E c \in Consumers : linked[c] /\ Holds(hand[c], m)

Take(r) ==
  /\ r \in wire
  /\ wire' = wire \ {r}
  /\ queue' = Append(queue, r)
  /\ UNCHANGED <<at, answer, consumers, faults>>

PublishMalformed(x) ==
  /\ ~Waiting(x)
  /\ queue' = Append(queue, x)
  /\ UNCHANGED <<handlers, consumers, faults>>

Deliver(c) ==
  /\ step[c] = "idle" /\ linked[c] /\ queue # <<>>
  /\ hand' = [hand EXCEPT ![c] = <<Head(queue)>>]
  /\ queue' = Tail(queue)
  /\ step' = [step EXCEPT ![c] = "log"]
  /\ UNCHANGED <<handlers, linked, lines, faults>>

\* Mutant of Disconnect: auto_ack, the broker has forgotten what it delivered.
DisconnectAcked(c) == UNCHANGED queue

\* What is delivered and not acknowledged goes back to where it was.
Disconnect(c) == queue' = IF linked[c] THEN hand[c] \o queue ELSE queue

Unlink(c) ==
  /\ Fault
  /\ linked[c] /\ step[c] # "down"
  /\ Disconnect(c)
  /\ linked' = [linked EXCEPT ![c] = FALSE]
  /\ UNCHANGED <<handlers, step, hand, lines>>

-----------------------------------------------------------------------------
\* on_message

Exit(c) ==
  /\ step' = [step EXCEPT ![c] = "down"]
  /\ hand' = [hand EXCEPT ![c] = <<>>]
  /\ linked' = [linked EXCEPT ![c] = FALSE]
  /\ Disconnect(c)
  /\ UNCHANGED <<handlers, lines>>

Log(c) ==
  /\ step[c] = "log" /\ hand[c][1] \in Requests
  /\ lines' = [lines EXCEPT ![hand[c][1]] = IF @ = Many THEN @ ELSE @ + 1]
  /\ step' = [step EXCEPT ![c] = "ack"]
  /\ UNCHANGED <<handlers, queue, hand, linked, faults>>

\* Mutant of Ack: something raises between the log line and the ack.
RaiseAtAck(c) == step[c] = "ack" /\ Exit(c) /\ UNCHANGED faults

Ack(c) ==
  /\ step[c] = "ack" /\ linked[c]
  /\ hand' = [hand EXCEPT ![c] = <<>>]
  /\ step' = [step EXCEPT ![c] = "idle"]
  /\ UNCHANGED <<handlers, queue, linked, lines, faults>>

\* json.loads or msg.get raises and nothing catches it; a lost connection
\* raises where it is used next.
Raise(c) ==
  /\ \/ step[c] = "log" /\ hand[c][1] \in Malformed
     \/ step[c] \in {"idle", "ack"} /\ ~linked[c]
  /\ Exit(c)
  /\ UNCHANGED faults

Kill(c) == Fault /\ step[c] # "down" /\ Exit(c)

\* Mutant of Restart: no restart policy.
RestartNever(c) == FALSE /\ UNCHANGED vars

\* restart: always
Restart(c) ==
  /\ step[c] = "down"
  /\ step' = [step EXCEPT ![c] = "idle"]
  /\ linked' = [linked EXCEPT ![c] = TRUE]
  /\ UNCHANGED <<handlers, queue, hand, lines, faults>>

Handle(r) == Begin(r) \/ CacheLookup(r) \/ DbQuery(r) \/ Publish(r) \/ Answer(r)

Consume(c) == Log(c) \/ Ack(c) \/ Raise(c) \/ Restart(c)

Next ==
  \/ \E r \in Requests : Handle(r) \/ PublishFails(r) \/ AnswerFails(r) \/ Take(r)
  \/ \E x \in Malformed : PublishMalformed(x)
  \/ \E c \in Consumers : Deliver(c) \/ Consume(c) \/ Unlink(c) \/ Kill(c)

Spec == Init /\ [][Next]_vars

\* Frames arrive, the broker delivers while a consumer is ready, and handlers
\* and consumers run.  No client has to begin a checkout.
LiveSpec ==
  /\ Spec
  /\ \A r \in Requests : WF_vars(Take(r)) /\ WF_vars(at[r] # "idle" /\ Handle(r))
  /\ WF_vars(\E c \in Consumers : Deliver(c))
  /\ \A c \in Consumers : WF_vars(Consume(c))

-----------------------------------------------------------------------------

\* Variables keep their types, and a process has a message exactly between its
\* delivery and its ack.
TypeOK ==
  /\ at \in [Requests -> {"idle", "cache", "db", "publish", "close", "done"}]
  /\ answer \in [Requests -> {0, 200, 500}]
  /\ wire \subseteq Requests /\ queue \in Seq(Message) /\ lines \in [Requests -> 0 .. Many]
  /\ step \in [Consumers -> {"idle", "log", "ack", "down"}]
  /\ linked \in [Consumers -> BOOLEAN]
  /\ hand \in [Consumers -> Seq(Message)]
  /\ \A c \in Consumers :
       Len(hand[c]) <= 1 /\ (hand[c] = <<>> <=> step[c] \in {"idle", "down"})
  /\ faults \in 0 .. MaxFaults

Logged(r) == lines[r] > 0

\* The queue delivers at least once: an order leaves it only when a consumer
\* has logged it, and nothing is logged that was not published.
Orders == INSTANCE Delivery WITH
  Messages <- Requests, buried <- {},
  pending  <- {r \in Requests : Waiting(r)},
  worked   <- {r \in Requests : Logged(r)}
ImplementsDelivery == Orders!Spec

\* A client that was told 200 has an order that is queued, delivered or logged,
\* although the publish itself is not confirmed; one that was told 500, or
\* nothing, has an order under way all the same only if a connection failed
\* under the publish or the answer (server.py:70-83, 124-133).
AnswersTrue ==
  /\ TypeOK
  /\ \A r \in Requests :
       /\ answer[r] = 200 => Waiting(r) \/ Logged(r)
       /\ at[r] = "done" /\ answer[r] # 200 /\ (r \in wire \/ Waiting(r) \/ Logged(r)) =>
            faults > 0

\* An order is logged again only after a fault, once for each of them, although
\* a consumer that has lost its connection goes on beside the one that is given
\* the order next, and malformed messages keep ending consumers.
LoggedAgainByFault == \A r \in Requests : lines[r] <= 1 + faults

\* Every order answered 200 is logged, unless somebody publishes what makes
\* every consumer exit: that message stays at the head of the queue for ever.
AnsweredLogged ==
  \A r \in Requests :
    answer[r] = 200 ~> Logged(r) \/ \E x \in Malformed : Waiting(x)
=============================================================================
