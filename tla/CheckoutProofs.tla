--------------------------- MODULE CheckoutProofs ---------------------------
(***************************************************************************)
(* The safety properties of Checkout, for any number of checkouts,         *)
(* malformed messages, consumers and faults.  The broker has at most one   *)
(* copy of an order, and keeps it until the order is logged; every log     *)
(* line beyond the first goes back to a fault of its own.                  *)
(***************************************************************************)
EXTENDS Checkout, FiniteSets, FiniteSetTheorems, SequenceTheorems, TLAPS

Has(c, m) == Holds(hand[c], m)
Early(r) == at[r] \in {"idle", "cache", "db", "publish"}
Seen(r) == r \in wire \/ Holds(queue, r) \/ Logged(r) \/ \E c \in Consumers : Has(c, r)

\* What was published was published by its handler, which answered 200 or
\* failed; and a client that got its answer was answered.
SeenInv ==
  \A r \in Requests :
    /\ Seen(r) => ~Early(r) /\ (at[r] = "done" /\ answer[r] # 200 => faults > 0)
    /\ at[r] # "done" => answer[r] = 0

\* What the broker has taken it keeps until a consumer has logged it.
KeptInv ==
  /\ \A r \in Requests :
       /\ at[r] = "close" => r \in wire \/ Waiting(r) \/ Logged(r)
       /\ answer[r] = 200 => Waiting(r) \/ Logged(r)
  /\ \A c \in Consumers, r \in Requests : Has(c, r) => Waiting(r) \/ Logged(r)
  /\ \A c \in Consumers :
       step[c] = "ack" => hand[c][1] \in Requests /\ Logged(hand[c][1])

\* The broker has one copy of an order, on its way, queued or delivered.
Once(q, m) == \A i, j \in DOMAIN q : q[i] = m /\ q[j] = m => i = j
UniqueInv ==
  /\ \A r \in wire : ~Logged(r) /\ ~Holds(queue, r) /\ \A c \in Consumers : ~Has(c, r)
  /\ \A r \in Requests :
       /\ Once(queue, r)
       /\ \A c \in Consumers : linked[c] /\ Has(c, r) => ~Holds(queue, r)
       /\ \A c, d \in Consumers : linked[c] /\ linked[d] /\ Has(c, r) /\ Has(d, r) => c = d

\* An order may still be logged once by way of the broker, and once by each
\* consumer that has it without a connection.
Live(r) ==
  \/ Early(r) \/ r \in wire \/ Holds(queue, r)
  \/ \E c \in Consumers : linked[c] /\ step[c] = "log" /\ Has(c, r)
Late(r) == {c \in Consumers : ~linked[c] /\ step[c] = "log" /\ Has(c, r)}
CountInv ==
  \A r \in Requests :
    /\ IsFiniteSet(Late(r))
    /\ lines[r] + Cardinality(Late(r)) <= faults + (IF Live(r) THEN 0 ELSE 1)

IInv == TypeOK /\ SeenInv /\ KeptInv /\ UniqueInv /\ CountInv

-----------------------------------------------------------------------------
\* What a queue holds after an element is added at its end, ...
LEMMA HoldsAppend ==
  ASSUME NEW S, NEW q \in Seq(S), NEW x \in S, NEW m
  PROVE  /\ Append(q, x) \in Seq(S)
         /\ Holds(Append(q, x), m) <=> Holds(q, m) \/ x = m
         /\ Once(q, m) /\ (x = m => ~Holds(q, m)) => Once(Append(q, x), m)
<1> DEFINE a == Append(q, x)
<1>1. /\ a \in Seq(S) /\ Len(a) = Len(q) + 1 /\ a[Len(q) + 1] = x
      /\ \A i \in 1 .. Len(q) : a[i] = q[i]
  BY AppendProperties
<1>2. DOMAIN q = 1 .. Len(q) /\ DOMAIN a = 1 .. Len(q) + 1 /\ Len(q) \in Nat
  BY <1>1, LenProperties
<1> HIDE DEF a
<1>3. \A i \in DOMAIN a : i \in DOMAIN q \/ i = Len(q) + 1
  BY <1>2
<1>4. Holds(a, m) <=> Holds(q, m) \/ x = m
  BY <1>1, <1>2, <1>3 DEF Holds
<1>5. Once(q, m) /\ (x = m => ~Holds(q, m)) => Once(a, m)
  BY <1>1, <1>2, <1>3 DEF Holds, Once
<1> QED BY <1>1, <1>4, <1>5 DEF a

\* ... after its head is taken, ...
LEMMA HoldsTail ==
  ASSUME NEW S, NEW q \in Seq(S), q # <<>>, NEW m
  PROVE  /\ Tail(q) \in Seq(S) /\ Head(q) \in S
         /\ Holds(q, m) <=> Holds(Tail(q), m) \/ Head(q) = m
         /\ Once(q, m) => Once(Tail(q), m) /\ (Head(q) = m => ~Holds(Tail(q), m))
<1> DEFINE t == Tail(q)
<1>1. /\ t \in Seq(S) /\ Head(q) \in S /\ Head(q) = q[1] /\ Len(t) = Len(q) - 1
      /\ \A i \in 1 .. Len(t) : t[i] = q[i + 1]
  BY HeadTailProperties
<1>2. DOMAIN q = 1 .. Len(q) /\ DOMAIN t = 1 .. Len(t) /\ Len(q) \in Nat /\ Len(q) > 0
  BY <1>1, LenProperties, EmptySeq
<1> HIDE DEF t
<1>3. \A i \in DOMAIN t : i + 1 \in DOMAIN q /\ i + 1 # 1 /\ t[i] = q[i + 1]
  BY <1>1, <1>2
<1>4. \A i \in DOMAIN q : i = 1 \/ (i - 1 \in DOMAIN t /\ t[i - 1] = q[i])
  BY <1>1, <1>2
<1>5. Holds(q, m) <=> Holds(t, m) \/ Head(q) = m
  BY <1>1, <1>2, <1>3, <1>4 DEF Holds
<1>6. Once(q, m) => Once(t, m)
  BY <1>2, <1>3 DEF Once
<1>7. Once(q, m) /\ Head(q) = m => ~Holds(t, m)
  BY <1>1, <1>2, <1>3 DEF Once, Holds
<1> QED BY <1>1, <1>5, <1>6, <1>7 DEF t

\* ... and after one element at most is put before it.
LEMMA HoldsConcat ==
  ASSUME NEW S, NEW p \in Seq(S), NEW q \in Seq(S), Len(p) <= 1, NEW m
  PROVE  /\ p \o q \in Seq(S)
         /\ Holds(p \o q, m) <=> Holds(p, m) \/ Holds(q, m)
         /\ Once(q, m) /\ (Holds(p, m) => ~Holds(q, m)) => Once(p \o q, m)
<1> DEFINE c == p \o q
<1>1. /\ c \in Seq(S) /\ Len(c) = Len(p) + Len(q)
      /\ \A i \in 1 .. Len(p) + Len(q) :
           c[i] = IF i <= Len(p) THEN p[i] ELSE q[i - Len(p)]
  BY ConcatProperties
<1>2. /\ DOMAIN p = 1 .. Len(p) /\ DOMAIN q = 1 .. Len(q) /\ DOMAIN c = 1 .. Len(p) + Len(q)
      /\ Len(p) \in Nat /\ Len(q) \in Nat
  BY <1>1, LenProperties
<1> HIDE DEF c
<1>3. \A i \in DOMAIN c : \/ i \in DOMAIN p /\ c[i] = p[i]
                          \/ /\ i - Len(p) \in DOMAIN q /\ c[i] = q[i - Len(p)]
                             /\ i \notin DOMAIN p
  BY <1>1, <1>2
<1>4. \A i \in DOMAIN p : i \in DOMAIN c /\ c[i] = p[i]
  BY <1>1, <1>2
<1>5. \A i \in DOMAIN q : i + Len(p) \in DOMAIN c /\ c[i + Len(p)] = q[i]
  BY <1>1, <1>2
<1>6. Holds(c, m) <=> Holds(p, m) \/ Holds(q, m)
  BY <1>3, <1>4, <1>5 DEF Holds
<1>7. \A i, j \in DOMAIN p : i = j
  BY <1>2
<1>8. Once(q, m) /\ (Holds(p, m) => ~Holds(q, m)) => Once(c, m)
  <2> SUFFICES ASSUME Once(q, m), Holds(p, m) => ~Holds(q, m),
                      NEW i \in DOMAIN c, NEW j \in DOMAIN c, c[i] = m, c[j] = m
               PROVE  i = j
    BY DEF Once
  <2>1. CASE i \in DOMAIN p /\ j \in DOMAIN p
    BY <1>7, <2>1
  <2>2. CASE i \notin DOMAIN p /\ j \notin DOMAIN p
    BY <1>2, <1>3, <2>2 DEF Once
  <2>3. CASE i \in DOMAIN p /\ j \notin DOMAIN p
    BY <1>3, <1>4, <2>3 DEF Holds
  <2>4. CASE i \notin DOMAIN p /\ j \in DOMAIN p
    BY <1>3, <1>4, <2>4 DEF Holds
  <2> QED BY <2>1, <2>2, <2>3, <2>4
<1> QED BY <1>1, <1>6, <1>8 DEF c

\* A sequence of one element at most.
LEMMA ShortSeq ==
  ASSUME NEW S, NEW s \in Seq(S), s # <<>>, Len(s) <= 1
  PROVE  s[1] \in S /\ \A m : Holds(s, m) <=> s[1] = m
<1>1. Len(s) \in Nat \ {0}
  BY EmptySeq
<1>2. Len(s) = 1
  BY <1>1
<1>3. s[1] \in S
  BY <1>2, ElementOfSeq
<1>4. DOMAIN s = 1 .. 1
  BY <1>2, LenProperties
<1>5. \A i \in DOMAIN s : i = 1
  BY <1>4
<1> QED BY <1>3, <1>4, <1>5 DEF Holds

\* A process has one message between its delivery and its end, and none before.
LEMMA HandFacts ==
  ASSUME TypeOK, NEW c \in Consumers
  PROVE  /\ hand[c] \in Seq(Message) /\ Len(hand[c]) <= 1
         /\ step[c] \in {"idle", "down"} => hand[c] = <<>> /\ \A m : ~Has(c, m)
         /\ step[c] \in {"log", "ack"} =>
              /\ hand[c] # <<>> /\ hand[c][1] \in Message
              /\ \A m : Has(c, m) <=> hand[c][1] = m
         /\ step[c] \in {"idle", "down", "log", "ack"}
<1>1. Len(hand[c]) <= 1
  BY DEF TypeOK
<1>2. /\ hand[c] \in Seq(Message)
      /\ hand[c] = <<>> <=> step[c] \in {"idle", "down"}
      /\ step[c] \in {"idle", "down", "log", "ack"}
  BY DEF TypeOK
<1>3. DOMAIN hand[c] = 1 .. Len(hand[c]) /\ Len(hand[c]) \in Nat
  BY <1>2, LenProperties
<1>4. ASSUME hand[c] = <<>> PROVE \A m : ~Has(c, m)
  BY <1>3, <1>4, EmptySeq DEF Has, Holds
<1>5. ASSUME hand[c] # <<>>
      PROVE  hand[c][1] \in Message /\ \A m : Has(c, m) <=> hand[c][1] = m
  BY <1>1, <1>2, <1>5, ShortSeq DEF Has
<1> QED BY <1>1, <1>2, <1>4, <1>5

\* What a consumer has when its connection ends goes back to the queue.
LEMMA DisconnectFacts ==
  ASSUME TypeOK, UniqueInv, NEW c \in Consumers, Disconnect(c)
  PROVE  /\ queue' \in Seq(Message)
         /\ \A m : Holds(queue', m) <=> Holds(queue, m) \/ (linked[c] /\ Has(c, m))
         /\ \A r \in Requests : Once(queue', r)
<1>1. queue \in Seq(Message) /\ \A r \in Requests : Once(queue, r)
  BY DEF TypeOK, UniqueInv
<1>2. CASE linked[c]
  <2>1. queue' = hand[c] \o queue
    BY <1>2 DEF Disconnect
  <2>2. hand[c] \in Seq(Message) /\ Len(hand[c]) <= 1
    BY HandFacts
  <2>3. \A r \in Requests : Holds(hand[c], r) => ~Holds(queue, r)
    BY <1>2 DEF UniqueInv, Has
  <2>4. queue' \in Seq(Message)
    BY <1>1, <2>1, <2>2, HoldsConcat
  <2>5. \A m : Holds(queue', m) <=> Holds(hand[c], m) \/ Holds(queue, m)
    BY <1>1, <2>1, <2>2, HoldsConcat
  <2>6. \A r \in Requests : Once(queue', r)
    BY <1>1, <2>1, <2>2, <2>3, HoldsConcat
  <2> QED BY <1>2, <2>4, <2>5, <2>6 DEF Has
<1>3. CASE ~linked[c]
  BY <1>1, <1>3 DEF Disconnect
<1> QED BY <1>2, <1>3

-----------------------------------------------------------------------------
\* No checkout, no message at first.
LEMMA InitIInv == Init => IInv
<1> SUFFICES ASSUME Init PROVE IInv
  OBVIOUS
<1>1. /\ queue = <<>> /\ queue \in Seq(Message) /\ DOMAIN queue = {}
      /\ hand \in [Consumers -> Seq(Message)]
      /\ \A c \in Consumers : hand[c] = <<>> /\ Len(hand[c]) = 0 /\ DOMAIN hand[c] = {}
  BY EmptySeq DEF Init
<1>2. linked \in [Consumers -> BOOLEAN]
  BY Zenon DEF Init
<1>3. /\ faults = 0 /\ faults \in 0 .. MaxFaults /\ lines \in [Requests -> 0 .. Many]
      /\ \A r \in Requests : lines[r] = 0
  BY CheckoutAssumption DEF Init, Many
<1>4. TypeOK
  BY <1>1, <1>2, <1>3 DEF Init, TypeOK
<1>5. \A m : ~Holds(queue, m) /\ \A c \in Consumers : ~Has(c, m)
  BY <1>1 DEF Has, Holds
<1>6. /\ at = [r \in Requests |-> "idle"] /\ answer = [r \in Requests |-> 0] /\ wire = {}
      /\ \A c \in Consumers : step[c] = "idle"
  BY DEF Init
<1>7. ASSUME NEW r \in Requests PROVE ~Logged(r)
  <2>1. lines[r] = 0
    BY <1>3
  <2> QED BY <2>1 DEF Logged
<1>8. \A r \in Requests : ~Logged(r) /\ r \notin wire /\ at[r] = "idle" /\ answer[r] = 0
  BY <1>6, <1>7
<1>9. SeenInv /\ KeptInv
  BY <1>5, <1>8, <1>6 DEF SeenInv, Seen, KeptInv
<1>10. UniqueInv
  BY <1>1, <1>5, <1>6 DEF UniqueInv, Once
<1>11. CountInv
  <2> SUFFICES ASSUME NEW r \in Requests
               PROVE  /\ IsFiniteSet(Late(r))
                      /\ lines[r] + Cardinality(Late(r)) <= faults + (IF Live(r) THEN 0 ELSE 1)
    BY DEF CountInv
  <2>1. Late(r) = {}
    BY <1>5 DEF Late
  <2>2. Live(r)
    BY <1>8 DEF Live, Early
  <2>3. IsFiniteSet(Late(r)) /\ Cardinality(Late(r)) = 0
    BY <2>1, FS_EmptySet
  <2> QED BY <1>3, <2>2, <2>3
<1> QED BY <1>4, <1>9, <1>10, <1>11 DEF IInv

-----------------------------------------------------------------------------
\* What a step of the handler of r can be.
Works(r) ==
  Early(r) /\ Early(r)' /\ wire' = wire /\ answer'[r] = answer[r] /\ faults' = faults
GivesUp(r) ==
  Early(r) /\ at'[r] = "done" /\ wire' = wire /\ answer'[r] = 500 /\ faults' = faults
Publishes(r) ==
  /\ Early(r) /\ at'[r] = "close" /\ wire' = wire \cup {r}
  /\ answer'[r] = answer[r] /\ faults' = faults
Succeeds(r) ==
  /\ at[r] = "close" /\ r \notin wire /\ at'[r] = "done" /\ wire' = wire
  /\ answer'[r] = 200 /\ faults' = faults
Breaks(r) ==
  /\ at[r] # "done" /\ at'[r] = "done" /\ wire' \in {wire, wire \ {r}}
  /\ answer'[r] # 200 /\ faults' = faults + 1

\* Handlers touch neither the queue nor the consumers.
LEMMA HandlerTypes ==
  ASSUME TypeOK, NEW r \in Requests, Handle(r) \/ PublishFails(r) \/ AnswerFails(r)
  PROVE  /\ TypeOK' /\ UNCHANGED <<queue, consumers>>
         /\ \A s \in Requests \ {r} : at'[s] = at[s] /\ answer'[s] = answer[s]
         /\ Works(r) \/ GivesUp(r) \/ Publishes(r) \/ Succeeds(r) \/ Breaks(r)
<1>1. UNCHANGED <<queue, consumers>>
  BY DEF Handle, Begin, CacheLookup, DbQuery, Publish, Answer, PublishFails, AnswerFails
<1>2. /\ at \in [Requests -> {"idle", "cache", "db", "publish", "close", "done"}]
      /\ answer \in [Requests -> {0, 200, 500}] /\ wire \subseteq Requests
      /\ faults \in 0 .. MaxFaults
  BY DEF TypeOK
<1>3. /\ at' \in [Requests -> {"idle", "cache", "db", "publish", "close", "done"}]
      /\ answer' \in [Requests -> {0, 200, 500}] /\ wire' \subseteq Requests
      /\ \A s \in Requests \ {r} : at'[s] = at[s] /\ answer'[s] = answer[s]
  BY <1>2 DEF Handle, Begin, CacheLookup, DbQuery, Publish, Answer, PublishFails, AnswerFails,
              Go, Done
<1>4. faults' \in 0 .. MaxFaults
  BY <1>2, CheckoutAssumption
  DEF Handle, Begin, CacheLookup, DbQuery, Publish, Answer, PublishFails, AnswerFails, Fault
<1>5. TypeOK'
  BY <1>1, <1>3, <1>4 DEF TypeOK, consumers
<1>6. Works(r) \/ GivesUp(r) \/ Publishes(r) \/ Succeeds(r) \/ Breaks(r)
  <2>1. CASE Begin(r)
    BY <1>2, <2>1 DEF Begin, Go, Done, Works, GivesUp, Early
  <2>2. CASE CacheLookup(r)
    BY <1>2, <2>2 DEF CacheLookup, Go, Works, Early
  <2>3. CASE DbQuery(r)
    BY <1>2, <2>3 DEF DbQuery, Go, Done, Works, GivesUp, Early
  <2>4. CASE Publish(r)
    BY <1>2, <2>4 DEF Publish, Go, Publishes, Early
  <2>5. CASE Answer(r)
    BY <1>2, <2>5 DEF Answer, Closed, Done, Succeeds
  <2>6. CASE PublishFails(r) \/ AnswerFails(r)
    BY <1>2, <2>6 DEF PublishFails, AnswerFails, Closed, Fault, Done, Breaks
  <2> QED BY <2>1, <2>2, <2>3, <2>4, <2>5, <2>6 DEF Handle
<1> QED BY <1>1, <1>3, <1>5, <1>6

\* What the broker keeps is what it has queued or delivered.
LEMMA WaitingHas ==
  \A m :
    /\ Waiting(m) <=> Holds(queue, m) \/ \E c \in Consumers : linked[c] /\ Has(c, m)
    /\ Waiting(m)' <=> Holds(queue', m) \/ \E c \in Consumers : linked'[c] /\ Has(c, m)'
BY Zenon DEF Waiting, Has

LEMMA WaitingStays ==
  ASSUME NEW c \in Consumers, NEW m,
         \A d \in Consumers \ {c} : (linked'[d] <=> linked[d]) /\ (Has(d, m)' <=> Has(d, m)),
         Holds(queue', m) \/ (linked'[c] /\ Has(c, m)') <=>
           Holds(queue, m) \/ (linked[c] /\ Has(c, m))
  PROVE  Waiting(m)' <=> Waiting(m)
<1>1. ASSUME Waiting(m)', ~Holds(queue', m) PROVE Waiting(m)
  <2>1. PICK d \in Consumers : linked'[d] /\ Has(d, m)'
    BY <1>1, WaitingHas
  <2>2. CASE d = c
    BY <2>1, <2>2, WaitingHas
  <2>3. CASE d # c
    <3>1. linked[d] /\ Has(d, m)
      BY <2>1, <2>3
    <3> QED BY <3>1, WaitingHas
  <2> QED BY <2>2, <2>3
<1>2. ASSUME Waiting(m), ~Holds(queue, m) PROVE Waiting(m)'
  <2>1. PICK d \in Consumers : linked[d] /\ Has(d, m)
    BY <1>2, WaitingHas
  <2>2. CASE d = c
    BY <2>1, <2>2, WaitingHas
  <2>3. CASE d # c
    <3>1. linked'[d] /\ Has(d, m)'
      BY <2>1, <2>3
    <3> QED BY <3>1, WaitingHas
  <2> QED BY <2>2, <2>3
<1>3. (Holds(queue', m) => Waiting(m)) /\ (Holds(queue, m) => Waiting(m)')
  BY WaitingHas
<1> QED BY <1>1, <1>2, <1>3

\* What a step does to the orders the broker keeps and to those that are logged.
Steady == \A r \in Requests : (Waiting(r)' <=> Waiting(r)) /\ (Logged(r)' <=> Logged(r))
Accepts(o) ==
  \A r \in Requests : (Waiting(r)' <=> Waiting(r) \/ r = o) /\ (Logged(r)' <=> Logged(r))
Logs(o) ==
  /\ Waiting(o) \/ Logged(o)
  /\ \A r \in Requests : (Waiting(r)' <=> Waiting(r)) /\ (Logged(r)' <=> Logged(r) \/ r = o)
Forgets(o) ==
  /\ Waiting(o) /\ Logged(o)
  /\ \A r \in Requests : (Waiting(r)' <=> Waiting(r) /\ r # o) /\ (Logged(r)' <=> Logged(r))

LEMMA Unmoved ==
  ASSUME UNCHANGED <<queue, consumers>>
  PROVE  \A m :
           /\ Waiting(m)' = Waiting(m) /\ Logged(m)' = Logged(m) /\ Late(m)' = Late(m)
           /\ Holds(queue, m)' = Holds(queue, m)
           /\ \A c \in Consumers : Has(c, m)' = Has(c, m)
BY Zenon DEF consumers, Waiting, Logged, Late, Has

\* Handlers: what they publish is new, and they answer 200 when it is taken.
LEMMA HandlerSteps ==
  ASSUME IInv, NEW r \in Requests, Handle(r) \/ PublishFails(r) \/ AnswerFails(r)
  PROVE  IInv' /\ Steady
<1>1. /\ TypeOK' /\ UNCHANGED <<queue, consumers>>
      /\ queue' = queue /\ step' = step /\ hand' = hand /\ linked' = linked /\ lines' = lines
      /\ \A s \in Requests \ {r} : at'[s] = at[s] /\ answer'[s] = answer[s]
  BY HandlerTypes DEF IInv, consumers
<1>2. Works(r) \/ GivesUp(r) \/ Publishes(r) \/ Succeeds(r) \/ Breaks(r)
  BY HandlerTypes DEF IInv
<1>3. \A m : /\ Waiting(m)' <=> Waiting(m)
             /\ Logged(m)' <=> Logged(m)
             /\ Late(m)' = Late(m)
             /\ Holds(queue', m) <=> Holds(queue, m)
             /\ \A c \in Consumers : Has(c, m)' <=> Has(c, m)
  BY <1>1, Unmoved, Zenon
<1>4. /\ faults \in Nat /\ faults' \in Nat /\ faults <= faults'
      /\ \A s \in Requests : lines[s] \in Nat
  <2>1. faults \in Nat /\ faults' \in Nat /\ \A s \in Requests : lines[s] \in Nat
    BY <1>1, CheckoutAssumption DEF IInv, TypeOK, Many
  <2>2. faults <= faults'
    BY <1>2, <2>1 DEF Works, GivesUp, Publishes, Succeeds, Breaks
  <2> QED BY <2>1, <2>2
<1>5. /\ \A s \in Requests \ {r} : s \in wire' <=> s \in wire
      /\ r \in wire' => r \in wire \/ Publishes(r)
  BY <1>2 DEF Works, GivesUp, Publishes, Succeeds, Breaks
<1>6. /\ \A s \in Requests \ {r} : Early(s)' <=> Early(s)
      /\ ~Works(r) => ~Early(r)'
  BY <1>1, <1>2 DEF Works, GivesUp, Publishes, Succeeds, Breaks, Early
<1>7. SeenInv'
  <2> SUFFICES ASSUME NEW s \in Requests
               PROVE  /\ Seen(s)' => /\ ~Early(s)'
                                     /\ at'[s] = "done" /\ answer'[s] # 200 => faults' > 0
                      /\ at'[s] # "done" => answer'[s] = 0
    BY DEF SeenInv
  <2>1. /\ Seen(s) => ~Early(s) /\ (at[s] = "done" /\ answer[s] # 200 => faults > 0)
        /\ at[s] # "done" => answer[s] = 0
    BY DEF IInv, SeenInv
  <2>2. Seen(s)' <=> s \in wire' \/ Holds(queue, s) \/ Logged(s) \/ \E c \in Consumers : Has(c, s)
    BY <1>3 DEF Seen
  <2>3. CASE s # r
    <3>1. Seen(s)' <=> Seen(s)
      BY <1>5, <2>2, <2>3 DEF Seen
    <3> QED BY <1>1, <1>4, <1>6, <2>1, <2>3, <3>1
  <2>4. CASE s = r
    <3>1. Seen(r)' => Seen(r) \/ Publishes(r)
      BY <1>5, <2>2, <2>4 DEF Seen
    <3> QED BY <1>2, <1>4, <1>6, <2>1, <2>4, <3>1
        DEF Works, GivesUp, Publishes, Succeeds, Breaks, Early
  <2> QED BY <2>3, <2>4
<1>8. KeptInv'
  <2>1. ASSUME NEW s \in Requests
        PROVE  /\ at'[s] = "close" => s \in wire' \/ Waiting(s)' \/ Logged(s)'
               /\ answer'[s] = 200 => Waiting(s)' \/ Logged(s)'
    <3>1. /\ at[s] = "close" => s \in wire \/ Waiting(s) \/ Logged(s)
          /\ answer[s] = 200 => Waiting(s) \/ Logged(s)
      BY DEF IInv, KeptInv
    <3>2. CASE s # r
      BY <1>1, <1>3, <1>5, <3>1, <3>2
    <3>3. CASE s = r
      BY <1>2, <1>3, <3>1, <3>3
      DEF Works, GivesUp, Publishes, Succeeds, Breaks, Early
    <3> QED BY <3>2, <3>3
  <2>2. \A c \in Consumers, s \in Requests : Has(c, s)' => Waiting(s)' \/ Logged(s)'
    BY <1>3 DEF IInv, KeptInv
  <2>3. \A c \in Consumers :
          step'[c] = "ack" => hand'[c][1] \in Requests /\ Logged(hand[c][1])'
    BY <1>1 DEF IInv, KeptInv, Logged
  <2> QED BY <2>1, <2>2, <2>3 DEF KeptInv
<1>9. UniqueInv'
  <2>1. ASSUME NEW s \in wire'
        PROVE  ~Logged(s)' /\ ~Holds(queue', s) /\ \A c \in Consumers : ~Has(c, s)'
    <3>1. ~Logged(s) /\ ~Holds(queue, s) /\ \A c \in Consumers : ~Has(c, s)
      <4>1. CASE s \in wire
        BY <4>1 DEF IInv, UniqueInv
      <4>2. CASE s \notin wire
        <5>1. s = r /\ Early(r)
          BY <1>2, <4>2 DEF Works, GivesUp, Publishes, Succeeds, Breaks
        <5> QED BY <5>1 DEF IInv, SeenInv, Seen
      <4> QED BY <4>1, <4>2
    <3> QED BY <1>3, <3>1
  <2>2. \A s \in Requests : Once(queue', s)
    BY <1>1 DEF IInv, UniqueInv
  <2>3. \A s \in Requests :
          /\ \A c \in Consumers : linked'[c] /\ Has(c, s)' => ~Holds(queue', s)
          /\ \A c, d \in Consumers : linked'[c] /\ linked'[d] /\ Has(c, s)' /\ Has(d, s)' => c = d
    BY <1>1, <1>3 DEF IInv, UniqueInv
  <2> QED BY <2>1, <2>2, <2>3 DEF UniqueInv
<1>10. CountInv'
  <2> SUFFICES ASSUME NEW s \in Requests
               PROVE  /\ IsFiniteSet(Late(s)')
                      /\ lines'[s] + Cardinality(Late(s)') <=
                           faults' + (IF Live(s)' THEN 0 ELSE 1)
    BY DEF CountInv
  <2>1. /\ IsFiniteSet(Late(s))
        /\ lines[s] + Cardinality(Late(s)) <= faults + (IF Live(s) THEN 0 ELSE 1)
    BY DEF IInv, CountInv
  <2>2. Cardinality(Late(s)) \in Nat
    BY <2>1, FS_CardinalityType
  <2>3. Live(s)' => Live(s)
    <3>1. \/ Early(s)' \/ s \in wire' => Live(s)
      BY <1>2, <1>5, <1>6 DEF Live, Works, Publishes
    <3>2. Live(s)' => \/ Early(s)' \/ s \in wire' \/ Live(s)
      BY <1>1, <1>3 DEF Live
    <3> QED BY <3>1, <3>2
  <2>4. Late(s)' = Late(s) /\ lines' = lines
    BY <1>1, <1>3
  <2> QED BY <1>4, <2>1, <2>2, <2>3, <2>4
<1>11. Steady
  BY <1>3 DEF Steady
<1> QED BY <1>1, <1>7, <1>8, <1>9, <1>10, <1>11 DEF IInv

-----------------------------------------------------------------------------
\* What no step of the broker or of a consumer may do to an order: make one that
\* was not published, or lose one that is not logged.
LEMMA Carried ==
  ASSUME SeenInv, KeptInv, UNCHANGED <<at, answer>>,
         faults \in Nat, faults' \in Nat, faults <= faults',
         \A r \in Requests :
           /\ Seen(r)' => Seen(r)
           /\ r \in wire => r \in wire' \/ Waiting(r)'
           /\ Waiting(r) \/ Logged(r) => Waiting(r)' \/ Logged(r)'
           /\ \A c \in Consumers : Has(c, r)' => Has(c, r) \/ Waiting(r)',
         \A c \in Consumers :
           step'[c] = "ack" => hand'[c][1] \in Requests /\ Logged(hand[c][1])'
  PROVE  SeenInv' /\ KeptInv'
<1>1. SeenInv'
  <2> SUFFICES ASSUME NEW r \in Requests
               PROVE  /\ Seen(r)' => /\ ~Early(r)'
                                     /\ at'[r] = "done" /\ answer'[r] # 200 => faults' > 0
                      /\ at'[r] # "done" => answer'[r] = 0
    BY DEF SeenInv
  <2>1. /\ Seen(r) => ~Early(r) /\ (at[r] = "done" /\ answer[r] # 200 => faults > 0)
        /\ at[r] # "done" => answer[r] = 0
    BY DEF SeenInv
  <2>2. Early(r)' <=> Early(r)
    BY DEF Early
  <2> QED BY <2>1, <2>2
<1>2. KeptInv'
  BY DEF KeptInv
<1> QED BY <1>1, <1>2

\* How a step of the broker takes messages into the queue.
LEMMA Arrives ==
  ASSUME IInv, NEW x \in Message, \A c \in Consumers : linked[c] => ~Has(c, x),
         ~Holds(queue, x), x \in Requests => x \in wire,
         queue' = Append(queue, x), wire' = wire \ {x},
         UNCHANGED <<at, answer, consumers, faults>>
  PROVE  IInv' /\ Accepts(x)
<1>1. /\ at' = at /\ answer' = answer /\ faults' = faults
      /\ step' = step /\ hand' = hand /\ linked' = linked /\ lines' = lines
  BY DEF consumers
<1>2. /\ queue \in Seq(Message) /\ wire \subseteq Requests
      /\ faults \in Nat
  BY CheckoutAssumption DEF IInv, TypeOK
<1>3. /\ queue' \in Seq(Message)
      /\ \A m : Holds(queue', m) <=> Holds(queue, m) \/ x = m
      /\ \A m : Once(queue, m) => Once(queue', m)
  BY <1>2, HoldsAppend
<1>4. TypeOK'
  BY <1>1, <1>2, <1>3 DEF IInv, TypeOK
<1>5. \A m : /\ Logged(m)' <=> Logged(m)
             /\ Late(m)' = Late(m)
             /\ \A c \in Consumers : Has(c, m)' <=> Has(c, m)
  BY <1>1, Zenon DEF Logged, Late, Has
<1>6. \A m : Waiting(m)' <=> Waiting(m) \/ x = m
  BY <1>1, <1>3, <1>5, WaitingHas
<1>7. SeenInv' /\ KeptInv'
  <2>1. \A r \in Requests : Seen(r)' => Seen(r)
    BY <1>3, <1>5 DEF Seen
  <2>2. \A c \in Consumers :
          step'[c] = "ack" => hand'[c][1] \in Requests /\ Logged(hand[c][1])'
    BY <1>1 DEF IInv, KeptInv, Logged
  <2>3. \A r \in Requests :
          /\ r \in wire => r \in wire' \/ Waiting(r)'
          /\ Waiting(r) \/ Logged(r) => Waiting(r)' \/ Logged(r)'
          /\ \A c \in Consumers : Has(c, r)' => Has(c, r) \/ Waiting(r)'
    BY <1>5, <1>6
  <2> QED BY <1>1, <1>2, <2>1, <2>2, <2>3, Carried DEF IInv
<1>8. UniqueInv'
  <2>1. \A r \in wire' : ~Logged(r)' /\ ~Holds(queue', r) /\ \A c \in Consumers : ~Has(c, r)'
    BY <1>3, <1>5 DEF IInv, UniqueInv
  <2>2. \A r \in Requests :
          /\ Once(queue', r)
          /\ \A c \in Consumers : linked'[c] /\ Has(c, r)' => ~Holds(queue', r)
          /\ \A c, d \in Consumers : linked'[c] /\ linked'[d] /\ Has(c, r)' /\ Has(d, r)' => c = d
    BY <1>1, <1>3, <1>5 DEF IInv, UniqueInv
  <2> QED BY <2>1, <2>2 DEF UniqueInv
<1>9. CountInv'
  <2>1. \A r \in Requests : Live(r)' <=> Live(r)
    BY <1>1, <1>2, <1>3, <1>5 DEF Live, Early
  <2> QED BY <1>1, <1>5, <2>1 DEF IInv, CountInv
<1>10. Accepts(x)
  BY <1>5, <1>6 DEF Accepts
<1> QED BY <1>4, <1>7, <1>8, <1>9, <1>10 DEF IInv

\* The broker: what it takes it had not.
LEMMA BrokerSteps ==
  ASSUME IInv,
         \/ \E r \in Requests : Take(r)
         \/ \E x \in Malformed : PublishMalformed(x)
  PROVE  IInv' /\ (Steady \/ \E r \in Requests : Accepts(r))
<1>1. ASSUME NEW r \in Requests, Take(r) PROVE IInv' /\ Accepts(r)
  <2>1. r \in wire /\ r \in Message
    BY <1>1 DEF Take, Message
  <2>2. ~Holds(queue, r) /\ \A c \in Consumers : ~Has(c, r)
    BY <2>1 DEF IInv, UniqueInv
  <2> QED BY <1>1, <2>1, <2>2, Arrives DEF Take
<1>2. ASSUME NEW x \in Malformed, PublishMalformed(x) PROVE IInv' /\ Steady
  <2>1. x \in Message /\ x \notin Requests
    BY CheckoutAssumption DEF Message
  <2>2. ~Holds(queue, x) /\ \A c \in Consumers : linked[c] => ~Has(c, x)
    BY <1>2 DEF PublishMalformed, Waiting, Has
  <2>3. UNCHANGED <<at, answer, wire, consumers, faults>> /\ queue' = Append(queue, x)
    BY <1>2 DEF PublishMalformed, handlers
  <2>4. wire' = wire \ {x}
    BY <2>1, <2>3 DEF IInv, TypeOK
  <2>5. IInv' /\ Accepts(x)
    BY <2>1, <2>2, <2>3, <2>4, Arrives
  <2>6. Steady
    BY <2>1, <2>5 DEF Accepts, Steady
  <2> QED BY <2>5, <2>6
<1> QED BY <1>1, <1>2

-----------------------------------------------------------------------------
\* What a consumer has in each step of on_message.
Fits(h, s) == Len(h) <= 1 /\ (h = <<>> <=> s \in {"idle", "down"})

\* A step of the process c.
LEMMA Moves ==
  ASSUME TypeOK, NEW c \in Consumers, NEW h \in Seq(Message),
         NEW s \in {"idle", "log", "ack", "down"}, Fits(h, s),
         hand' = [hand EXCEPT ![c] = h], step' = [step EXCEPT ![c] = s]
  PROVE  /\ hand' \in [Consumers -> Seq(Message)] /\ hand'[c] = h
         /\ step' \in [Consumers -> {"idle", "log", "ack", "down"}] /\ step'[c] = s
         /\ \A d \in Consumers \ {c} : hand'[d] = hand[d] /\ step'[d] = step[d]
         /\ \A d \in Consumers : Fits(hand'[d], step'[d])
         /\ \A m : Has(c, m)' <=> Holds(h, m)
         /\ \A d \in Consumers \ {c} : \A m : Has(d, m)' <=> Has(d, m)
<1>1. /\ hand \in [Consumers -> Seq(Message)]
      /\ step \in [Consumers -> {"idle", "log", "ack", "down"}]
      /\ \A d \in Consumers : Fits(hand[d], step[d])
  BY DEF TypeOK, Fits
<1>2. /\ hand' \in [Consumers -> Seq(Message)] /\ hand'[c] = h
      /\ step' \in [Consumers -> {"idle", "log", "ack", "down"}] /\ step'[c] = s
      /\ \A d \in Consumers \ {c} : hand'[d] = hand[d] /\ step'[d] = step[d]
  BY <1>1
<1>3. \A d \in Consumers : Fits(hand'[d], step'[d])
  BY <1>1, <1>2
<1> QED BY <1>2, <1>3 DEF Has

\* A step that logs nothing, and with which no consumer is left without its
\* connection to log an order.
LEMMA Counted ==
  ASSUME TypeOK, CountInv, lines' = lines, faults' \in Nat, faults <= faults',
         \A r \in Requests :
           /\ Late(r)' \subseteq Late(r)
           /\ Live(r)' => Live(r) \/ faults < faults'
  PROVE  CountInv'
<1> SUFFICES ASSUME NEW r \in Requests
             PROVE  /\ IsFiniteSet(Late(r)')
                    /\ lines'[r] + Cardinality(Late(r)') <= faults' + (IF Live(r)' THEN 0 ELSE 1)
  BY DEF CountInv
<1>1. /\ IsFiniteSet(Late(r))
      /\ lines[r] + Cardinality(Late(r)) <= faults + (IF Live(r) THEN 0 ELSE 1)
  BY DEF CountInv
<1>2. IsFiniteSet(Late(r)') /\ Cardinality(Late(r)') <= Cardinality(Late(r))
  BY <1>1, FS_Subset
<1>3. Cardinality(Late(r)) \in Nat /\ Cardinality(Late(r)') \in Nat
  BY <1>1, <1>2, FS_CardinalityType
<1>4. lines[r] \in Nat /\ faults \in Nat
  BY CheckoutAssumption DEF TypeOK, Many
<1>5. Live(r)' => Live(r) \/ faults < faults'
  OBVIOUS
<1> QED BY <1>1, <1>2, <1>3, <1>4, <1>5

\* A delivery takes the one copy of an order out of the queue.
LEMMA DeliverSteps ==
  ASSUME IInv, NEW c \in Consumers, Deliver(c)
  PROVE  IInv' /\ Steady
<1> DEFINE m == Head(queue)
<1>1. /\ at' = at /\ answer' = answer /\ wire' = wire /\ faults' = faults
      /\ linked' = linked /\ lines' = lines /\ queue' = Tail(queue) /\ queue # <<>>
      /\ step[c] = "idle" /\ faults \in Nat /\ queue \in Seq(Message)
  BY CheckoutAssumption DEF Deliver, handlers, IInv, TypeOK
<1>2. linked[c]
  BY DEF Deliver
<1>3. /\ queue' \in Seq(Message) /\ m \in Message
      /\ \A x : Holds(queue, x) <=> Holds(queue', x) \/ m = x
      /\ \A x : Once(queue, x) => Once(queue', x) /\ (m = x => ~Holds(queue', x))
  BY <1>1, HoldsTail
<1>4. <<m>> \in Seq(Message) /\ \A x : Holds(<<m>>, x) <=> x = m
  BY <1>3 DEF Holds
<1>5. Fits(<<m>>, "log")
  BY DEF Fits
<1>6. hand' = [hand EXCEPT ![c] = <<m>>] /\ step' = [step EXCEPT ![c] = "log"]
  BY DEF Deliver
<1> HIDE DEF m
<1>7. /\ hand' \in [Consumers -> Seq(Message)]
      /\ step' \in [Consumers -> {"idle", "log", "ack", "down"}] /\ step'[c] = "log"
      /\ \A d \in Consumers \ {c} : hand'[d] = hand[d] /\ step'[d] = step[d]
      /\ \A d \in Consumers : Fits(hand'[d], step'[d])
      /\ \A x : Has(c, x)' <=> x = m
      /\ \A d \in Consumers \ {c} : \A x : Has(d, x)' <=> Has(d, x)
  BY <1>4, <1>5, <1>6, Moves DEF IInv
<1>8. \A x : ~Has(c, x)
  BY <1>1, HandFacts DEF IInv
<1>9. TypeOK'
  BY <1>1, <1>3, <1>7 DEF IInv, TypeOK, Fits
<1>10. \A x : (Logged(x)' <=> Logged(x)) /\ (Waiting(x)' <=> Waiting(x))
  <2>1. \A x : Logged(x)' <=> Logged(x)
    BY <1>1 DEF Logged
  <2>2. ASSUME NEW x PROVE Waiting(x)' <=> Waiting(x)
    <3>1. \A d \in Consumers \ {c} : (linked'[d] <=> linked[d]) /\ (Has(d, x)' <=> Has(d, x))
      BY <1>1, <1>7
    <3>2. Holds(queue', x) \/ (linked'[c] /\ Has(c, x)') <=>
            Holds(queue, x) \/ (linked[c] /\ Has(c, x))
      BY <1>1, <1>2, <1>3, <1>7, <1>8
    <3> QED BY <3>1, <3>2, WaitingStays
  <2> QED BY <2>1, <2>2
<1>11. SeenInv' /\ KeptInv'
  <2>1. \A r \in Requests : Seen(r)' => Seen(r)
    BY <1>1, <1>3, <1>7, <1>10 DEF Seen
  <2>2. ASSUME NEW d \in Consumers, step'[d] = "ack"
        PROVE  hand'[d][1] \in Requests /\ Logged(hand[d][1])'
    <3>1. d # c
      BY <1>7, <2>2
    <3> QED BY <1>1, <1>7, <2>2, <3>1 DEF IInv, KeptInv, Logged
  <2>3. \A r \in Requests :
          /\ r \in wire => r \in wire' \/ Waiting(r)'
          /\ Waiting(r) \/ Logged(r) => Waiting(r)' \/ Logged(r)'
          /\ \A d \in Consumers : Has(d, r)' => Has(d, r) \/ Waiting(r)'
    BY <1>1, <1>3, <1>7, <1>10 DEF Waiting
  <2> QED BY <1>1, <2>1, <2>2, <2>3, Carried DEF IInv
<1>12. UniqueInv'
  <2>1. \A r \in wire' : ~Logged(r)' /\ ~Holds(queue', r) /\ \A d \in Consumers : ~Has(d, r)'
    BY <1>1, <1>3, <1>7, <1>10 DEF IInv, UniqueInv
  <2>2. \A r \in Requests :
          /\ Once(queue', r)
          /\ \A d \in Consumers : linked'[d] /\ Has(d, r)' => ~Holds(queue', r)
    BY <1>1, <1>3, <1>7 DEF IInv, UniqueInv
  <2>3. ASSUME NEW r \in Requests, NEW d \in Consumers, NEW e \in Consumers,
               linked'[d], linked'[e], Has(d, r)', Has(e, r)'
        PROVE  d = e
    <3>1. m = r => \A b \in Consumers : linked[b] => ~Has(b, r)
      BY <1>3 DEF IInv, UniqueInv
    <3>2. \A b \in Consumers : Has(b, r)' => (b = c /\ m = r) \/ (b # c /\ Has(b, r))
      BY <1>7
    <3> QED BY <1>1, <2>3, <3>1, <3>2 DEF IInv, UniqueInv
  <2> QED BY <2>1, <2>2, <2>3 DEF UniqueInv
<1>13. CountInv'
  <2>1. \A r \in Requests : Late(r)' = Late(r)
    BY <1>1, <1>2, <1>7, <1>8 DEF Late
  <2>2. ASSUME NEW r \in Requests PROVE Live(r)' => Live(r)
    <3>1. (Early(r)' <=> Early(r)) /\ (r \in wire' <=> r \in wire)
      BY <1>1 DEF Early
    <3>2. (Holds(queue', r) => Holds(queue, r)) /\ (Has(c, r)' => Holds(queue, r))
      BY <1>3, <1>7
    <3> QED BY <1>1, <1>7, <3>1, <3>2 DEF Live
  <2> QED BY <1>1, <2>1, <2>2, Counted DEF IInv
<1>14. Steady
  BY <1>10 DEF Steady
<1> QED BY <1>9, <1>11, <1>12, <1>13, <1>14 DEF IInv

\* The connection of c alone is lost or opened.
LEMMA Relinks ==
  ASSUME NEW f \in [Consumers -> BOOLEAN], NEW c \in Consumers, NEW b \in BOOLEAN
  PROVE  /\ [f EXCEPT ![c] = b] \in [Consumers -> BOOLEAN]
         /\ [f EXCEPT ![c] = b][c] <=> b
         /\ \A d \in Consumers \ {c} : [f EXCEPT ![c] = b][d] <=> f[d]
BY Zenon

\* A lost connection: the queue has the order again, and the consumer may still
\* log it, which the fault accounts for.
LEMMA UnlinkSteps ==
  ASSUME IInv, NEW c \in Consumers, Unlink(c)
  PROVE  IInv' /\ Steady
<1>1. /\ at' = at /\ answer' = answer /\ wire' = wire
      /\ step' = step /\ hand' = hand /\ lines' = lines
      /\ faults \in Nat /\ faults' = faults + 1 /\ faults' \in 0 .. MaxFaults
  BY CheckoutAssumption DEF Unlink, Fault, handlers, IInv, TypeOK
<1>2. linked[c] /\ Disconnect(c)
  BY DEF Unlink
<1>3. linked \in [Consumers -> BOOLEAN] /\ linked' = [linked EXCEPT ![c] = FALSE]
  BY Zenon DEF Unlink, IInv, TypeOK
<1>4. /\ linked' \in [Consumers -> BOOLEAN] /\ ~linked'[c]
      /\ \A d \in Consumers \ {c} : linked'[d] <=> linked[d]
  BY <1>3, Relinks, Zenon
<1>5. /\ queue' \in Seq(Message)
      /\ \A m : Holds(queue', m) <=> Holds(queue, m) \/ Has(c, m)
      /\ \A r \in Requests : Once(queue', r)
  BY <1>2, DisconnectFacts DEF IInv
<1>6. TypeOK'
  BY <1>1, <1>4, <1>5 DEF IInv, TypeOK
<1>7. \A m : (Logged(m)' <=> Logged(m)) /\ \A d \in Consumers : Has(d, m)' <=> Has(d, m)
  BY <1>1, Zenon DEF Logged, Has
<1>8. ASSUME NEW m PROVE Waiting(m)' <=> Waiting(m)
  <2>1. \A d \in Consumers \ {c} : (linked'[d] <=> linked[d]) /\ (Has(d, m)' <=> Has(d, m))
    BY <1>4, <1>7
  <2>2. Holds(queue', m) \/ (linked'[c] /\ Has(c, m)') <=>
          Holds(queue, m) \/ (linked[c] /\ Has(c, m))
    BY <1>2, <1>4, <1>5, <1>7
  <2> QED BY <2>1, <2>2, WaitingStays
<1>9. SeenInv' /\ KeptInv'
  <2>1. \A r \in Requests : Seen(r)' => Seen(r)
    BY <1>1, <1>5, <1>7 DEF Seen
  <2>2. \A d \in Consumers :
          step'[d] = "ack" => hand'[d][1] \in Requests /\ Logged(hand[d][1])'
    BY <1>1 DEF IInv, KeptInv, Logged
  <2> QED BY <1>1, <1>7, <1>8, <2>1, <2>2, Carried DEF IInv
<1>10. UniqueInv'
  <2>1. \A r \in wire' : ~Logged(r)' /\ ~Holds(queue', r) /\ \A d \in Consumers : ~Has(d, r)'
    BY <1>1, <1>5, <1>7 DEF IInv, UniqueInv
  <2>2. \A r \in Requests, d \in Consumers : linked'[d] /\ Has(d, r)' => ~Holds(queue', r)
    BY <1>2, <1>4, <1>5, <1>7 DEF IInv, UniqueInv
  <2>3. \A r \in Requests : \A d, e \in Consumers :
          linked'[d] /\ linked'[e] /\ Has(d, r)' /\ Has(e, r)' => d = e
    BY <1>4, <1>7 DEF IInv, UniqueInv
  <2> QED BY <1>5, <2>1, <2>2, <2>3 DEF UniqueInv
<1>11. CountInv'
  <2> SUFFICES ASSUME NEW r \in Requests
               PROVE  /\ IsFiniteSet(Late(r)')
                      /\ lines'[r] + Cardinality(Late(r)') <=
                           faults' + (IF Live(r)' THEN 0 ELSE 1)
    BY DEF CountInv
  <2>1. /\ IsFiniteSet(Late(r))
        /\ lines[r] + Cardinality(Late(r)) <= faults + (IF Live(r) THEN 0 ELSE 1)
    BY DEF IInv, CountInv
  <2>2. Cardinality(Late(r)) \in Nat /\ lines[r] \in Nat
    BY <2>1, FS_CardinalityType DEF IInv, TypeOK, Many
  <2>3. CASE step[c] = "log" /\ Has(c, r)
    <3>1. Late(r)' = Late(r) \cup {c} /\ c \notin Late(r)
      BY <1>1, <1>2, <1>4, <1>7, <2>3 DEF Late
    <3>2. IsFiniteSet(Late(r)') /\ Cardinality(Late(r)') = Cardinality(Late(r)) + 1
      BY <2>1, <3>1, FS_AddElement
    <3>3. Live(r) /\ Live(r)'
      BY <1>2, <1>5, <2>3 DEF Live
    <3> QED BY <1>1, <2>1, <2>2, <3>2, <3>3
  <2>4. CASE ~(step[c] = "log" /\ Has(c, r))
    <3>1. Late(r)' = Late(r)
      BY <1>1, <1>4, <1>7, <2>4 DEF Late
    <3>2. lines'[r] = lines[r] /\ faults' = faults + 1
      BY <1>1
    <3> QED BY <1>1, <2>1, <2>2, <3>1, <3>2
  <2> QED BY <2>3, <2>4
<1>12. Steady
  BY <1>7, <1>8 DEF Steady
<1> QED BY <1>6, <1>9, <1>10, <1>11, <1>12 DEF IInv

\* The end of a process: the queue has its order again, if the broker had not
\* taken it back before.
LEMMA ExitSteps ==
  ASSUME IInv, NEW c \in Consumers, Raise(c) \/ Kill(c)
  PROVE  IInv' /\ Steady
<1>1. Exit(c)
  BY DEF Raise, Kill
<1>2. /\ at' = at /\ answer' = answer /\ wire' = wire /\ lines' = lines
      /\ hand' = [hand EXCEPT ![c] = <<>>] /\ step' = [step EXCEPT ![c] = "down"]
  BY <1>1 DEF Exit, handlers
<1>3. /\ faults \in Nat /\ faults' \in 0 .. MaxFaults
      /\ faults' \in Nat /\ faults <= faults' /\ (Kill(c) => faults < faults')
  <2>1. faults \in Nat /\ faults \in 0 .. MaxFaults
    BY CheckoutAssumption DEF IInv, TypeOK
  <2>2. CASE Raise(c)
    BY <2>1, <2>2 DEF Raise, Kill, Fault
  <2>3. CASE Kill(c)
    BY <2>1, <2>3, CheckoutAssumption DEF Kill, Fault
  <2> QED BY <2>2, <2>3
<1>4. linked \in [Consumers -> BOOLEAN] /\ linked' = [linked EXCEPT ![c] = FALSE]
  BY <1>1, Zenon DEF Exit, IInv, TypeOK
<1>5. /\ linked' \in [Consumers -> BOOLEAN] /\ ~linked'[c]
      /\ \A d \in Consumers \ {c} : linked'[d] <=> linked[d]
  BY <1>4, Relinks, Zenon
<1>6. Disconnect(c)
  BY <1>1 DEF Exit
<1>7. /\ queue' \in Seq(Message)
      /\ \A m : Holds(queue', m) <=> Holds(queue, m) \/ (linked[c] /\ Has(c, m))
      /\ \A r \in Requests : Once(queue', r)
  BY <1>6, DisconnectFacts DEF IInv
<1>8. <<>> \in Seq(Message) /\ Fits(<<>>, "down") /\ \A m : ~Holds(<<>>, m)
  BY EmptySeq DEF Fits, Holds
<1>9. /\ hand' \in [Consumers -> Seq(Message)]
      /\ step' \in [Consumers -> {"idle", "log", "ack", "down"}] /\ step'[c] = "down"
      /\ \A d \in Consumers \ {c} : hand'[d] = hand[d] /\ step'[d] = step[d]
      /\ \A d \in Consumers : Fits(hand'[d], step'[d])
      /\ \A m : ~Has(c, m)'
      /\ \A d \in Consumers \ {c} : \A m : Has(d, m)' <=> Has(d, m)
  BY <1>2, <1>8, Moves DEF IInv
<1>10. TypeOK'
  BY <1>2, <1>3, <1>5, <1>7, <1>9 DEF IInv, TypeOK, Fits
<1>11. \A m : Logged(m)' <=> Logged(m)
  BY <1>2 DEF Logged
<1>12. ASSUME NEW m PROVE Waiting(m)' <=> Waiting(m)
  <2>1. \A d \in Consumers \ {c} : (linked'[d] <=> linked[d]) /\ (Has(d, m)' <=> Has(d, m))
    BY <1>5, <1>9
  <2>2. Holds(queue', m) \/ (linked'[c] /\ Has(c, m)') <=>
          Holds(queue, m) \/ (linked[c] /\ Has(c, m))
    BY <1>5, <1>7, <1>9
  <2> QED BY <2>1, <2>2, WaitingStays
<1>13. SeenInv' /\ KeptInv'
  <2>1. \A r \in Requests : Seen(r)' => Seen(r)
    BY <1>2, <1>7, <1>9, <1>11 DEF Seen
  <2>2. ASSUME NEW d \in Consumers, step'[d] = "ack"
        PROVE  hand'[d][1] \in Requests /\ Logged(hand[d][1])'
    <3>1. d # c
      BY <1>9, <2>2
    <3> QED BY <1>2, <1>9, <2>2, <3>1 DEF IInv, KeptInv, Logged
  <2>3. \A r \in Requests :
          /\ r \in wire => r \in wire' \/ Waiting(r)'
          /\ Waiting(r) \/ Logged(r) => Waiting(r)' \/ Logged(r)'
          /\ \A d \in Consumers : Has(d, r)' => Has(d, r) \/ Waiting(r)'
    BY <1>2, <1>9, <1>11, <1>12
  <2> QED BY <1>2, <1>3, <2>1, <2>2, <2>3, Carried DEF IInv
<1>14. UniqueInv'
  <2>1. \A r \in wire' : ~Logged(r)' /\ ~Holds(queue', r) /\ \A d \in Consumers : ~Has(d, r)'
    BY <1>2, <1>7, <1>9, <1>11 DEF IInv, UniqueInv
  <2>2. \A r \in Requests, d \in Consumers : linked'[d] /\ Has(d, r)' => ~Holds(queue', r)
    BY <1>5, <1>7, <1>9 DEF IInv, UniqueInv
  <2>3. \A r \in Requests : \A d, e \in Consumers :
          linked'[d] /\ linked'[e] /\ Has(d, r)' /\ Has(e, r)' => d = e
    BY <1>5, <1>9 DEF IInv, UniqueInv
  <2> QED BY <1>7, <2>1, <2>2, <2>3 DEF UniqueInv
<1>15. CountInv'
  <2>1. \A r \in Requests : Late(r)' \subseteq Late(r)
    BY <1>5, <1>9 DEF Late
  <2>2. ASSUME NEW r \in Requests, Raise(c) PROVE Live(r)' => Live(r)
    <3>1. ~(linked[c] /\ Has(c, r))
      <4>1. CASE step[c] = "log" /\ hand[c][1] \in Malformed
        <5>1. hand[c][1] # r
          BY <4>1, CheckoutAssumption
        <5> QED BY <4>1, <5>1, HandFacts DEF IInv
      <4>2. CASE ~linked[c]
        BY <4>2
      <4> QED BY <2>2, <4>1, <4>2 DEF Raise
    <3>2. (Early(r)' <=> Early(r)) /\ (Holds(queue', r) <=> Holds(queue, r))
      BY <1>2, <1>7, <3>1 DEF Early
    <3> QED BY <1>2, <1>5, <1>9, <3>2 DEF Live
  <2>3. \A r \in Requests : Live(r)' => Live(r) \/ faults < faults'
    BY <1>3, <2>2
  <2> QED BY <1>2, <1>3, <2>1, <2>3, Counted DEF IInv
<1>16. Steady
  BY <1>11, <1>12 DEF Steady
<1> QED BY <1>10, <1>13, <1>14, <1>15, <1>16 DEF IInv

\* A process that starts has no order.
LEMMA RestartSteps ==
  ASSUME IInv, NEW c \in Consumers, Restart(c)
  PROVE  IInv' /\ Steady
<1>1. /\ at' = at /\ answer' = answer /\ wire' = wire /\ lines' = lines
      /\ hand' = hand /\ queue' = queue /\ faults' = faults /\ faults \in Nat
      /\ step[c] = "down" /\ step' = [step EXCEPT ![c] = "idle"]
  BY CheckoutAssumption DEF Restart, handlers, IInv, TypeOK
<1>2. linked \in [Consumers -> BOOLEAN] /\ linked' = [linked EXCEPT ![c] = TRUE]
  BY Zenon DEF Restart, IInv, TypeOK
<1>3. /\ linked' \in [Consumers -> BOOLEAN] /\ linked'[c]
      /\ \A d \in Consumers \ {c} : linked'[d] <=> linked[d]
  BY <1>2, Relinks, Zenon
<1>4. hand[c] = <<>> /\ hand[c] \in Seq(Message) /\ \A m : ~Has(c, m)
  BY <1>1, HandFacts DEF IInv
<1>5. Fits(hand[c], "idle") /\ hand' = [hand EXCEPT ![c] = hand[c]]
  BY <1>1, <1>4, EmptySeq DEF Fits, IInv, TypeOK
<1>6. /\ step' \in [Consumers -> {"idle", "log", "ack", "down"}] /\ step'[c] = "idle"
      /\ \A d \in Consumers \ {c} : step'[d] = step[d]
      /\ \A d \in Consumers : Fits(hand'[d], step'[d])
  BY <1>1, <1>4, <1>5, Moves DEF IInv
<1>7. TypeOK'
  BY <1>1, <1>3, <1>6 DEF IInv, TypeOK, Fits
<1>8. \A m : (Logged(m)' <=> Logged(m)) /\ \A d \in Consumers : Has(d, m)' <=> Has(d, m)
  BY <1>1, Zenon DEF Logged, Has
<1>9. ASSUME NEW m PROVE Waiting(m)' <=> Waiting(m)
  <2>1. \A d \in Consumers \ {c} : (linked'[d] <=> linked[d]) /\ (Has(d, m)' <=> Has(d, m))
    BY <1>3, <1>8
  <2>2. Holds(queue', m) \/ (linked'[c] /\ Has(c, m)') <=>
          Holds(queue, m) \/ (linked[c] /\ Has(c, m))
    BY <1>1, <1>4, <1>8
  <2> QED BY <2>1, <2>2, WaitingStays
<1>10. SeenInv' /\ KeptInv'
  <2>1. \A r \in Requests : Seen(r)' => Seen(r)
    BY <1>1, <1>8 DEF Seen
  <2>2. \A d \in Consumers :
          step'[d] = "ack" => hand'[d][1] \in Requests /\ Logged(hand[d][1])'
    BY <1>1, <1>6 DEF IInv, KeptInv, Logged
  <2> QED BY <1>1, <1>8, <1>9, <2>1, <2>2, Carried DEF IInv
<1>11. UniqueInv'
  <2>1. \A r \in wire' : ~Logged(r)' /\ ~Holds(queue', r) /\ \A d \in Consumers : ~Has(d, r)'
    BY <1>1, <1>8 DEF IInv, UniqueInv
  <2>2. \A r \in Requests :
          /\ Once(queue', r)
          /\ \A d \in Consumers : linked'[d] /\ Has(d, r)' => ~Holds(queue', r)
          /\ \A d, e \in Consumers : linked'[d] /\ linked'[e] /\ Has(d, r)' /\ Has(e, r)' => d = e
    BY <1>1, <1>3, <1>4, <1>8 DEF IInv, UniqueInv
  <2> QED BY <2>1, <2>2 DEF UniqueInv
<1>12. CountInv'
  <2>1. \A r \in Requests : Late(r)' \subseteq Late(r)
    BY <1>3, <1>4, <1>6, <1>8 DEF Late
  <2>2. ASSUME NEW r \in Requests PROVE Live(r)' => Live(r)
    <3>1. Early(r)' <=> Early(r)
      BY <1>1 DEF Early
    <3> QED BY <1>1, <1>3, <1>4, <1>6, <1>8, <3>1 DEF Live
  <2> QED BY <1>1, <2>1, <2>2, Counted DEF IInv
<1>13. Steady
  BY <1>8, <1>9 DEF Steady
<1> QED BY <1>7, <1>10, <1>11, <1>12, <1>13 DEF IInv

\* An ack: the order the broker forgets is logged.
LEMMA AckSteps ==
  ASSUME IInv, NEW c \in Consumers, Ack(c)
  PROVE  IInv' /\ \E r \in Requests : Forgets(r)
<1>1. /\ at' = at /\ answer' = answer /\ wire' = wire /\ lines' = lines
      /\ queue' = queue /\ linked' = linked /\ faults' = faults /\ faults \in Nat
      /\ step[c] = "ack" /\ step' = [step EXCEPT ![c] = "idle"]
      /\ hand' = [hand EXCEPT ![c] = <<>>]
  BY CheckoutAssumption DEF Ack, handlers, IInv, TypeOK
<1>2. linked[c] /\ hand[c][1] \in Requests /\ Logged(hand[c][1])
      /\ \A m : Has(c, m) <=> hand[c][1] = m
  BY <1>1, HandFacts DEF Ack, IInv, KeptInv
<1>3. <<>> \in Seq(Message) /\ Fits(<<>>, "idle") /\ \A m : ~Holds(<<>>, m)
  BY EmptySeq DEF Fits, Holds
<1>4. /\ hand' \in [Consumers -> Seq(Message)]
      /\ step' \in [Consumers -> {"idle", "log", "ack", "down"}] /\ step'[c] = "idle"
      /\ \A d \in Consumers \ {c} : hand'[d] = hand[d] /\ step'[d] = step[d]
      /\ \A d \in Consumers : Fits(hand'[d], step'[d])
      /\ \A m : ~Has(c, m)'
      /\ \A d \in Consumers \ {c} : \A m : Has(d, m)' <=> Has(d, m)
  BY <1>1, <1>3, Moves DEF IInv
<1>5. TypeOK'
  BY <1>1, <1>4 DEF IInv, TypeOK, Fits
<1>6. \A m : Logged(m)' <=> Logged(m)
  BY <1>1 DEF Logged
<1>7. \A m : /\ Waiting(m)' => Waiting(m)
             /\ Waiting(m) => Waiting(m)' \/ m = hand[c][1]
  BY <1>1, <1>2, <1>4, WaitingHas
<1>8. SeenInv' /\ KeptInv'
  <2>1. \A r \in Requests : Seen(r)' => Seen(r)
    BY <1>1, <1>4, <1>6 DEF Seen
  <2>2. ASSUME NEW d \in Consumers, step'[d] = "ack"
        PROVE  hand'[d][1] \in Requests /\ Logged(hand[d][1])'
    <3>1. d # c
      BY <1>4, <2>2
    <3> QED BY <1>1, <1>4, <2>2, <3>1 DEF IInv, KeptInv, Logged
  <2>3. \A r \in Requests :
          /\ r \in wire => r \in wire' \/ Waiting(r)'
          /\ Waiting(r) \/ Logged(r) => Waiting(r)' \/ Logged(r)'
          /\ \A d \in Consumers : Has(d, r)' => Has(d, r) \/ Waiting(r)'
    BY <1>1, <1>2, <1>4, <1>6, <1>7
  <2> QED BY <1>1, <2>1, <2>2, <2>3, Carried DEF IInv
<1>9. UniqueInv'
  <2>1. \A r \in wire' : ~Logged(r)' /\ ~Holds(queue', r) /\ \A d \in Consumers : ~Has(d, r)'
    BY <1>1, <1>4, <1>6 DEF IInv, UniqueInv
  <2>2. \A r \in Requests :
          /\ Once(queue', r)
          /\ \A d \in Consumers : linked'[d] /\ Has(d, r)' => ~Holds(queue', r)
          /\ \A d, e \in Consumers : linked'[d] /\ linked'[e] /\ Has(d, r)' /\ Has(e, r)' => d = e
    BY <1>1, <1>4 DEF IInv, UniqueInv
  <2> QED BY <2>1, <2>2 DEF UniqueInv
<1>10. CountInv'
  <2>1. \A r \in Requests : Late(r)' \subseteq Late(r)
    BY <1>1, <1>4 DEF Late
  <2>2. ASSUME NEW r \in Requests PROVE Live(r)' => Live(r)
    <3>1. Early(r)' <=> Early(r)
      BY <1>1 DEF Early
    <3> QED BY <1>1, <1>4, <3>1 DEF Live
  <2> QED BY <1>1, <2>1, <2>2, Counted DEF IInv
<1>11. PICK o \in Requests : hand[c][1] = o
  BY <1>2
<1>12. Waiting(o) /\ Logged(o) /\ ~Waiting(o)'
  <2>1. linked[c] /\ Has(c, o) /\ Logged(o)
    BY <1>2, <1>11
  <2>2. ~Holds(queue, o) /\ \A d \in Consumers \ {c} : linked[d] => ~Has(d, o)
    BY <2>1 DEF IInv, UniqueInv
  <2> QED BY <1>1, <1>4, <2>1, <2>2, WaitingHas
<1>13. Forgets(o)
  BY <1>6, <1>7, <1>11, <1>12 DEF Forgets
<1> QED BY <1>5, <1>8, <1>9, <1>10, <1>13 DEF IInv

\* A log line: written with the connection up it is the last one the broker can
\* cause, and written without it there is one consumer less to write a late one.
LEMMA LogSteps ==
  ASSUME IInv, NEW c \in Consumers, Log(c)
  PROVE  IInv' /\ \E r \in Requests : Logs(r)
<1>1. PICK o \in Requests : hand[c][1] = o
  BY DEF Log
<1>2. /\ at' = at /\ answer' = answer /\ wire' = wire /\ hand' = hand
      /\ queue' = queue /\ linked' = linked /\ faults' = faults /\ faults \in Nat
      /\ step[c] = "log" /\ step' = [step EXCEPT ![c] = "ack"]
  BY CheckoutAssumption DEF Log, handlers, IInv, TypeOK
<1>3. \A m : Has(c, m) <=> o = m
  BY <1>1, <1>2, HandFacts DEF IInv
<1>4. /\ lines' \in [Requests -> 0 .. Many]
      /\ lines[o] \in Nat /\ lines'[o] \in Nat /\ lines'[o] <= lines[o] + 1
      /\ lines'[o] > 0
      /\ \A r \in Requests \ {o} : lines'[r] = lines[r]
  <2>1. lines \in [Requests -> 0 .. Many] /\ Many \in Nat /\ Many > 0
    BY CheckoutAssumption DEF IInv, TypeOK, Many
  <2>2. lines' = [lines EXCEPT ![o] = IF @ = Many THEN @ ELSE @ + 1]
    BY <1>1 DEF Log
  <2> QED BY <2>1, <2>2
<1>5. hand[c] \in Seq(Message) /\ Len(hand[c]) <= 1 /\ hand[c] # <<>>
  BY <1>2, HandFacts DEF IInv
<1>6. Fits(hand[c], "ack") /\ hand' = [hand EXCEPT ![c] = hand[c]]
  BY <1>2, <1>5 DEF Fits, IInv, TypeOK
<1>7. /\ step' \in [Consumers -> {"idle", "log", "ack", "down"}] /\ step'[c] = "ack"
      /\ \A d \in Consumers \ {c} : step'[d] = step[d]
      /\ \A d \in Consumers : Fits(hand'[d], step'[d])
  BY <1>2, <1>5, <1>6, Moves DEF IInv
<1>8. TypeOK'
  BY <1>2, <1>4, <1>7 DEF IInv, TypeOK, Fits
<1>9. \A m : (Waiting(m)' <=> Waiting(m)) /\ \A d \in Consumers : Has(d, m)' <=> Has(d, m)
  BY <1>2, Zenon DEF Waiting, Has
<1>10. /\ Logged(o)'
      /\ \A r \in Requests \ {o} : Logged(r)' <=> Logged(r)
  BY <1>4 DEF Logged
<1>11. SeenInv' /\ KeptInv'
  <2>1. \A r \in Requests : Seen(r)' => Seen(r)
    BY <1>2, <1>3, <1>9, <1>10 DEF Seen
  <2>2. ASSUME NEW d \in Consumers, step'[d] = "ack"
        PROVE  hand'[d][1] \in Requests /\ Logged(hand[d][1])'
    <3>1. CASE d = c
      <4>1. hand'[d][1] = o
        BY <1>1, <1>2, <3>1
      <4> QED BY <1>2, <1>4, <4>1 DEF Logged
    <3>2. CASE d # c
      <4>1. hand[d][1] \in Requests /\ Logged(hand[d][1])
        BY <1>7, <2>2, <3>2 DEF IInv, KeptInv
      <4> QED BY <1>2, <1>4, <4>1 DEF Logged
    <3> QED BY <3>1, <3>2
  <2>3. \A r \in Requests :
          /\ r \in wire => r \in wire' \/ Waiting(r)'
          /\ Waiting(r) \/ Logged(r) => Waiting(r)' \/ Logged(r)'
          /\ \A d \in Consumers : Has(d, r)' => Has(d, r) \/ Waiting(r)'
    BY <1>2, <1>9, <1>10
  <2> QED BY <1>2, <2>1, <2>2, <2>3, Carried DEF IInv
<1>12. UniqueInv'
  <2>1. ASSUME NEW r \in wire'
        PROVE  ~Logged(r)' /\ ~Holds(queue', r) /\ \A d \in Consumers : ~Has(d, r)'
    <3>1. r \in Requests /\ ~Logged(r) /\ ~Holds(queue, r) /\ \A d \in Consumers : ~Has(d, r)
      BY <1>2 DEF IInv, TypeOK, UniqueInv
    <3> QED BY <1>2, <1>3, <1>9, <1>10, <3>1
  <2>2. \A r \in Requests :
          /\ Once(queue', r)
          /\ \A d \in Consumers : linked'[d] /\ Has(d, r)' => ~Holds(queue', r)
          /\ \A d, e \in Consumers : linked'[d] /\ linked'[e] /\ Has(d, r)' /\ Has(e, r)' => d = e
    BY <1>2, <1>9 DEF IInv, UniqueInv
  <2> QED BY <2>1, <2>2 DEF UniqueInv
<1>13. CountInv'
  <2> SUFFICES ASSUME NEW r \in Requests
               PROVE  /\ IsFiniteSet(Late(r)')
                      /\ lines'[r] + Cardinality(Late(r)') <=
                           faults' + (IF Live(r)' THEN 0 ELSE 1)
    BY DEF CountInv
  <2>1. /\ IsFiniteSet(Late(r))
        /\ lines[r] + Cardinality(Late(r)) <= faults + (IF Live(r) THEN 0 ELSE 1)
    BY DEF IInv, CountInv
  <2>2. Cardinality(Late(r)) \in Nat /\ lines[r] \in Nat
    BY <2>1, FS_CardinalityType DEF IInv, TypeOK, Many
  <2>3. Early(r)' <=> Early(r)
    BY <1>2 DEF Early
  <2>4. CASE r # o
    <3>1. Late(r)' = Late(r)
      BY <1>2, <1>3, <1>7, <1>9, <2>4 DEF Late
    <3>2. Live(r)' <=> Live(r)
      BY <1>2, <1>3, <1>7, <1>9, <2>3, <2>4 DEF Live
    <3>3. lines'[r] = lines[r] /\ faults' = faults
      BY <1>2, <1>4, <2>4
    <3> QED BY <2>1, <3>1, <3>2, <3>3
  <2>5. CASE r = o /\ linked[c]
    <3>1. Late(r)' = Late(r)
      BY <1>2, <1>7, <1>9, <2>5 DEF Late
    <3>2. Live(r)
      BY <1>2, <1>3, <2>5 DEF Live
    <3>3. Has(c, r) /\ Seen(r)
      BY <1>3, <2>5 DEF Seen
    <3>4. /\ ~Early(r) /\ r \notin wire /\ ~Holds(queue, r)
          /\ \A d \in Consumers \ {c} : ~(linked[d] /\ Has(d, r))
      BY <2>5, <3>3 DEF IInv, SeenInv, UniqueInv
    <3>5. ~Live(r)'
      BY <1>2, <1>7, <1>9, <2>3, <3>4 DEF Live
    <3>6. lines'[r] \in Nat /\ lines'[r] <= lines[r] + 1 /\ faults' = faults
      BY <1>2, <1>4, <2>5
    <3> QED BY <1>2, <2>1, <2>2, <3>1, <3>2, <3>5, <3>6
  <2>6. CASE r = o /\ ~linked[c]
    <3>1. Late(r)' = Late(r) \ {c} /\ c \in Late(r)
      BY <1>2, <1>3, <1>7, <1>9, <2>6 DEF Late
    <3>2. IsFiniteSet(Late(r)') /\ Cardinality(Late(r)') = Cardinality(Late(r)) - 1
      BY <2>1, <3>1, FS_RemoveElement
    <3>3. Live(r)' <=> Live(r)
      BY <1>2, <1>7, <1>9, <2>3, <2>6 DEF Live
    <3>4. lines'[r] \in Nat /\ lines'[r] <= lines[r] + 1 /\ faults' = faults
      BY <1>2, <1>4, <2>6
    <3> QED BY <1>2, <2>1, <2>2, <3>2, <3>3, <3>4
  <2> QED BY <2>4, <2>5, <2>6
<1>14. Logs(o)
  <2>1. Waiting(o) \/ Logged(o)
    BY <1>3 DEF IInv, KeptInv
  <2> QED BY <1>9, <1>10, <2>1 DEF Logs
<1> QED BY <1>8, <1>11, <1>12, <1>13, <1>14 DEF IInv

-----------------------------------------------------------------------------
\* Every step keeps the invariant, and is one of the abstract queue's or one it
\* does not see.
LEMMA StepIInv ==
  ASSUME IInv, [Next]_vars
  PROVE  /\ IInv'
         /\ Steady \/ \E r \in Requests : Accepts(r) \/ Logs(r) \/ Forgets(r)
<1>1. ASSUME NEW r \in Requests, Handle(r) \/ PublishFails(r) \/ AnswerFails(r)
      PROVE  IInv' /\ Steady
  BY <1>1, HandlerSteps
<1>2. ASSUME \/ \E r \in Requests : Take(r)
             \/ \E x \in Malformed : PublishMalformed(x)
      PROVE  IInv' /\ (Steady \/ \E r \in Requests : Accepts(r))
  BY <1>2, BrokerSteps
<1>3. ASSUME NEW c \in Consumers, Deliver(c) PROVE IInv' /\ Steady
  BY <1>3, DeliverSteps
<1>4. ASSUME NEW c \in Consumers, Unlink(c) PROVE IInv' /\ Steady
  BY <1>4, UnlinkSteps
<1>5. ASSUME NEW c \in Consumers, Raise(c) \/ Kill(c) PROVE IInv' /\ Steady
  BY <1>5, ExitSteps
<1>6. ASSUME NEW c \in Consumers, Restart(c) PROVE IInv' /\ Steady
  BY <1>6, RestartSteps
<1>7. ASSUME NEW c \in Consumers, Ack(c) PROVE IInv' /\ \E r \in Requests : Forgets(r)
  BY <1>7, AckSteps
<1>8. ASSUME NEW c \in Consumers, Log(c) PROVE IInv' /\ \E r \in Requests : Logs(r)
  BY <1>8, LogSteps
<1>9. CASE UNCHANGED vars
  <2>1. UNCHANGED <<at, answer, wire, queue, step, hand, linked, lines, faults>>
    BY <1>9 DEF vars, handlers, consumers
  <2>2. UNCHANGED <<queue, consumers>>
    BY <1>9 DEF vars
  <2>3. \A m : /\ (Waiting(m)' <=> Waiting(m)) /\ (Logged(m)' <=> Logged(m))
               /\ Late(m)' = Late(m) /\ (Holds(queue', m) <=> Holds(queue, m))
               /\ \A c \in Consumers : Has(c, m)' <=> Has(c, m)
    BY <2>2, Unmoved, Zenon
  <2>4. TypeOK'
    BY <2>1 DEF IInv, TypeOK
  <2>5. SeenInv'
    BY <2>1, <2>3 DEF IInv, SeenInv, Seen, Early
  <2>6. KeptInv'
    BY <2>1, <2>3 DEF IInv, KeptInv, Logged
  <2>7. UniqueInv'
    BY <2>1, <2>3 DEF IInv, UniqueInv
  <2>8. CountInv'
    <3>1. \A r \in Requests : Live(r)' <=> Live(r)
      BY <2>1, <2>3 DEF Live, Early
    <3> QED BY <2>1, <2>3, <3>1 DEF IInv, CountInv
  <2> QED BY <2>3, <2>4, <2>5, <2>6, <2>7, <2>8 DEF IInv, Steady
<1>10. CASE Next
  BY <1>1, <1>2, <1>3, <1>4, <1>5, <1>6, <1>7, <1>8, <1>10 DEF Next, Consume
<1> QED BY <1>9, <1>10

THEOREM Invariance == Spec => []IInv
<1>1. Init => IInv
  BY InitIInv
<1>2. IInv /\ [Next]_vars => IInv'
  BY StepIInv
<1> QED BY <1>1, <1>2, PTL DEF Spec

\* A client told 200 has an order that is queued, delivered or logged, and one
\* that is not has an order only if something failed.
THEOREM AnswersAreTrue == Spec => []AnswersTrue
<1>1. ASSUME IInv PROVE AnswersTrue
  <2>1. ASSUME NEW r \in Requests, r \in wire \/ Waiting(r) \/ Logged(r) PROVE Seen(r)
    BY <2>1 DEF Seen, Waiting, Has
  <2> QED BY <1>1, <2>1 DEF IInv, SeenInv, KeptInv, AnswersTrue
<1> QED BY <1>1, Invariance, PTL

\* Every log line of an order beyond the first has a fault of its own.
THEOREM LoggedAgainOnlyByFault == Spec => []LoggedAgainByFault
<1>1. ASSUME IInv PROVE LoggedAgainByFault
  <2> SUFFICES ASSUME NEW r \in Requests PROVE lines[r] <= 1 + faults
    BY DEF LoggedAgainByFault
  <2>1. /\ IsFiniteSet(Late(r))
        /\ lines[r] + Cardinality(Late(r)) <= faults + (IF Live(r) THEN 0 ELSE 1)
    BY <1>1 DEF IInv, CountInv
  <2>2. Cardinality(Late(r)) \in Nat /\ lines[r] \in Nat /\ faults \in Nat
    BY <1>1, <2>1, FS_CardinalityType, CheckoutAssumption DEF IInv, TypeOK, Many
  <2> QED BY <2>1, <2>2
<1> QED BY <1>1, Invariance, PTL

-----------------------------------------------------------------------------
\* The queue of the lab delivers at least once.
THEOREM DeliversAtLeastOnce == Spec => ImplementsDelivery
<1>1. Init => Orders!Init
  <2> SUFFICES ASSUME Init PROVE Orders!Init
    OBVIOUS
  <2>1. \A r \in Requests : ~Waiting(r) /\ ~Logged(r)
    <3>1. queue = <<>> /\ DOMAIN queue = {} /\ \A c \in Consumers : hand[c] = <<>>
      BY EmptySeq DEF Init
    <3>2. \A r : ~Holds(queue, r) /\ \A c \in Consumers : ~Has(c, r)
      BY <3>1 DEF Holds, Has
    <3>3. ASSUME NEW r \in Requests PROVE ~Logged(r)
      <4>1. lines[r] = 0
        BY DEF Init
      <4> QED BY <4>1 DEF Logged
    <3> QED BY <3>2, <3>3, WaitingHas
  <2> QED BY <2>1 DEF Orders!Init
<1>2. IInv /\ [Next]_vars => [Orders!Next]_(Orders!vars)
  <2> DEFINE pending == {r \in Requests : Waiting(r)}
             worked == {r \in Requests : Logged(r)}
  <2> SUFFICES ASSUME IInv, [Next]_vars
               PROVE  Orders!Next \/ (pending' = pending /\ worked' = worked)
    BY DEF Orders!vars
  <2>1. Steady \/ \E r \in Requests : Accepts(r) \/ Logs(r) \/ Forgets(r)
    BY StepIInv
  <2>2. CASE Steady
    BY <2>2 DEF Steady
  <2>3. ASSUME NEW r \in Requests, Accepts(r) PROVE Orders!Next
    <3>1. pending' = pending \cup {r} /\ worked' = worked
      BY <2>3 DEF Accepts
    <3> QED BY <3>1 DEF Orders!Next, Orders!Accept
  <2>4. ASSUME NEW r \in Requests, Logs(r)
        PROVE  Orders!Next \/ (pending' = pending /\ worked' = worked)
    <3>1. pending' = pending /\ worked' = worked \cup {r} /\ (r \in pending \/ r \in worked)
      BY <2>4 DEF Logs
    <3> QED BY <3>1 DEF Orders!Next, Orders!Work
  <2>5. ASSUME NEW r \in Requests, Forgets(r) PROVE Orders!Next
    <3>1. pending' = pending \ {r} /\ worked' = worked /\ r \in pending /\ r \in worked
      BY <2>5 DEF Forgets
    <3> QED BY <3>1 DEF Orders!Next, Orders!Finish
  <2> QED BY <2>1, <2>2, <2>3, <2>4, <2>5
<1> QED BY <1>1, <1>2, Invariance, PTL DEF Spec, ImplementsDelivery, Orders!Spec
=============================================================================
