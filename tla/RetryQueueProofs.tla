-------------------------- MODULE RetryQueueProofs --------------------------
(***************************************************************************)
(* The safety properties of RetryQueue, for any number of messages,        *)
(* consumers and faults.  A copy leaves the queues only by an ack, and     *)
(* then a copy with a higher attempt is there, or the work is done: of the *)
(* copies of a poison message the one with the highest attempt stays.      *)
(***************************************************************************)
EXTENDS RetryQueue, FiniteSetTheorems, FunctionTheorems, SequenceTheorems, TLAPS

\* The copies the broker has, and those the processes work on.
Delayed == UNION {Range(retry[n]) : n \in Attempts}
Delivered == UNION {Range(held[c]) : c \in Consumers}
Live == Range(orders) \cup Delayed \cup Delivered
AtRest == Live \cup Range(dlq)
InHand == UNION {Range(hand[c]) : c \in Consumers}

\* A copy was published, and its header counts attempts that were made.
Earned(z) ==
  /\ z.id \in Range(published)
  /\ \A k \in 0 .. 3 : k < z.attempt => k \in tried[z.id]
CopyInv ==
  /\ \A z \in Live \cup InHand : z.attempt \in 0 .. 3
  /\ \A z \in Range(dlq) : z.attempt = Final
  /\ \A z \in AtRest \cup InHand : Earned(z)

\* The copy that a failed attempt at x sends.
Follows(y, x) ==
  /\ x.id \in Poison /\ y.id = x.id /\ y.attempt = x.attempt + 1
  /\ x.attempt \in tried[x.id]

\* x may be forgotten.
Surpassed(x) == \E z \in AtRest : z.id = x.id /\ z.attempt > x.attempt
Answered(x) == IF x.id \in Poison THEN Surpassed(x) ELSE Done(x.id)

\* What a connection carries, in its order.
Line(c) ==
  \/ wire[c] = <<>>
  \/ \E x, y \in Copies :
       /\ held[c] = <<x>> /\ Follows(y, x)
       /\ \/ wire[c] = <<Send(y)>> /\ step[c] \in {"ack", "down"}
          \/ wire[c] = <<Send(y), Ack>> /\ step[c] \in {"idle", "down"}
  \/ \E x \in Copies :
       /\ held[c] = <<x>> /\ Answered(x)
       /\ wire[c] = <<Ack>> /\ step[c] \in {"idle", "down"}

\* A process works on what the broker has delivered to it, or has lost its
\* connection; it acknowledges what is answered for.
LinkOf(c) ==
  /\ open[c] \/ (held[c] = <<>> /\ wire[c] = <<>>)
  /\ open[c] /\ hand[c] # <<>> => held[c] = hand[c]
  /\ Line(c)
  /\ \A x \in Copies : hand[c] = <<x>> =>
       /\ open[c] /\ step[c] = "ack" /\ wire[c] = <<>> => Answered(x)
       /\ step[c] = "effect" /\ x.id \in Normal => x.id \in rows
LinkInv == \A c \in Consumers : LinkOf(c)

LostInv == \A m \in Range(published) : Done(m) \/ \E z \in AtRest : z.id = m

IInv == TypeOK /\ CopyInv /\ LinkInv /\ LostInv

\* What a step does to the queues, as their abstract specification sees it.
SameQueues == Live' = Live /\ Range(dlq') = Range(dlq)
SameWork == \A m : Done(m)' <=> Done(m)
Brings(y) ==
  y.id \in Msgs /\ Live' = Live \cup {y} /\ Range(dlq') = Range(dlq) /\ SameWork
Buries(y) ==
  /\ y.id \in Msgs /\ \E x \in Live : x.id = y.id
  /\ Live' = Live /\ Range(dlq') = Range(dlq) \cup {y} /\ SameWork
Forgets(x) ==
  /\ x \in Live /\ Answered(x)
  /\ Live' \subseteq Live /\ Live \subseteq Live' \cup {x}
  /\ Range(dlq') = Range(dlq) /\ SameWork
Works(m) ==
  /\ SameQueues /\ m \in Range(published)
  /\ \A k : Done(k) => Done(k)'
  /\ \A k : k # m /\ Done(k)' => Done(k)
Flow ==
  \/ SameQueues /\ SameWork
  \/ \E x \in Copies : Brings(x) \/ Buries(x) \/ Forgets(x)
  \/ \E m \in Msgs : Works(m)

-----------------------------------------------------------------------------
\* What a queue holds after an element is added at its end, ...
LEMMA RangeAppend ==
  ASSUME NEW S, NEW q \in Seq(S), NEW a \in S
  PROVE  Append(q, a) \in Seq(S) /\ Range(Append(q, a)) = Range(q) \cup {a}
<1> DEFINE p == Append(q, a)
<1>1. /\ p \in Seq(S) /\ Len(p) = Len(q) + 1 /\ p[Len(q) + 1] = a
      /\ \A i \in 1 .. Len(q) : p[i] = q[i]
  BY AppendProperties
<1>2. DOMAIN q = 1 .. Len(q) /\ DOMAIN p = 1 .. Len(q) + 1 /\ Len(q) \in Nat
  BY <1>1, LenProperties
<1> HIDE DEF p
<1>3. \A i \in DOMAIN p : i \in DOMAIN q \/ i = Len(q) + 1
  BY <1>2
<1>4. \A i \in DOMAIN q : i \in DOMAIN p
  BY <1>2
<1>5. Len(q) + 1 \in DOMAIN p
  BY <1>2
<1>6. Range(p) = Range(q) \cup {a}
  BY <1>1, <1>2, <1>3, <1>4, <1>5 DEF Range
<1> QED BY <1>1, <1>6 DEF p

\* ... after its head is taken, ...
LEMMA RangeTail ==
  ASSUME NEW S, NEW q \in Seq(S), q # <<>>
  PROVE  Tail(q) \in Seq(S) /\ Head(q) \in S /\ Range(q) = {Head(q)} \cup Range(Tail(q))
<1> DEFINE t == Tail(q)
<1>1. /\ t \in Seq(S) /\ Head(q) \in S /\ Head(q) = q[1] /\ Len(t) = Len(q) - 1
      /\ \A i \in 1 .. Len(t) : t[i] = q[i + 1]
  BY HeadTailProperties
<1>2. DOMAIN q = 1 .. Len(q) /\ DOMAIN t = 1 .. Len(t) /\ Len(q) \in Nat /\ Len(q) > 0
  BY <1>1, LenProperties, EmptySeq
<1> HIDE DEF t
<1>3. \A i \in DOMAIN t : i + 1 \in DOMAIN q /\ t[i] = q[i + 1]
  BY <1>1, <1>2
<1>4. \A i \in DOMAIN q : i = 1 \/ (i - 1 \in DOMAIN t /\ t[i - 1] = q[i])
  BY <1>1, <1>2
<1>5. 1 \in DOMAIN q
  BY <1>2
<1>6. \A a : a \in Range(q) => a = Head(q) \/ a \in Range(t)
  BY <1>1, <1>4 DEF Range
<1>7. Head(q) \in Range(q) /\ \A a : a \in Range(t) => a \in Range(q)
  BY <1>1, <1>3, <1>5 DEF Range
<1>8. Range(q) = {Head(q)} \cup Range(t)
  BY <1>6, <1>7
<1> QED BY <1>1, <1>8 DEF t

\* ... and when it has none, or one.
LEMMA RangeShort ==
  ASSUME NEW S, NEW a \in S
  PROVE  /\ <<>> \in Seq(S) /\ Range(<<>>) = {} /\ Append(<<>>, a) = <<a>>
         /\ <<a>> \in Seq(S) /\ <<a>> # <<>> /\ Len(<<a>>) = 1 /\ Range(<<a>>) = {a}
         /\ Head(<<a>>) = a /\ Tail(<<a>>) = <<>>
<1>1. Range(<<>>) = {}
  BY EmptySeq DEF Range
<1>2. <<>> \in Seq(S) /\ Append(<<>>, a) = <<a>> /\ <<a>> \in Seq(S) /\ Len(<<a>>) = 1
  OBVIOUS
<1>3. <<a>> # <<>> /\ Head(<<a>>) = a
  OBVIOUS
<1>4. Tail(<<a>>) = <<>>
  OBVIOUS
<1>5. \A s \in Seq(S) : Len(s) = 1 /\ s[1] = a => Range(s) = {a}
  <2> SUFFICES ASSUME NEW s \in Seq(S), Len(s) = 1, s[1] = a PROVE Range(s) = {a}
    OBVIOUS
  <2>1. DOMAIN s = 1 .. 1
    BY LenProperties
  <2>2. \A i \in DOMAIN s : i = 1
    BY <2>1
  <2>3. 1 \in DOMAIN s
    BY <2>1
  <2> QED BY <2>2, <2>3 DEF Range
<1>6. <<a>>[1] = a
  OBVIOUS
<1>7. Range(<<a>>) = {a}
  BY <1>2, <1>5, <1>6
<1> QED BY <1>1, <1>2, <1>3, <1>4, <1>7

\* Two frames.
LEMMA Pairs ==
  ASSUME NEW S, NEW a \in S, NEW b \in S
  PROVE  /\ <<a, b>> \in Seq(S) /\ Append(<<a>>, b) = <<a, b>>
         /\ <<a, b>> # <<>> /\ Head(<<a, b>>) = a /\ Tail(<<a, b>>) = <<b>>
         /\ \A d : <<a, b>> # <<d>>
<1> DEFINE p == Append(<<a>>, b)
           q == <<a, b>>
<1>1. p \in Seq(S) /\ Len(p) = 2 /\ p[1] = a /\ p[2] = b
  BY RangeShort, AppendProperties
<1>2. q \in Seq(S) /\ Len(q) = 2 /\ q[1] = a /\ q[2] = b
  OBVIOUS
<1>3. p = q
  <2> HIDE DEF p, q
  <2>1. \A i \in 1 .. Len(p) : i = 1 \/ i = 2
    BY <1>1
  <2>2. \A i \in 1 .. Len(p) : p[i] = q[i]
    BY <1>1, <1>2, <2>1
  <2> QED BY <1>1, <1>2, <2>2, SeqEqual
<1>4. <<a, b>> # <<>> /\ Head(<<a, b>>) = a
  OBVIOUS
<1>5. Tail(<<a, b>>) = <<b>>
  OBVIOUS
<1>6. \A d : <<a, b>> # <<d>>
  OBVIOUS
<1> QED BY <1>2, <1>3, <1>4, <1>5, <1>6

\* A sequence of one element at most.
LEMMA OneLong == \A n \in Nat \ {0} : n <= 1 => n = 1
OBVIOUS

LEMMA ShortSeq ==
  ASSUME NEW S, NEW s \in Seq(S), Len(s) <= 1, s # <<>>
  PROVE  \E a \in S : s = <<a>>
<1>1. \A q \in Seq(S) : q # <<>> => Len(q) \in Nat \ {0}
  BY EmptySeq, Zenon
<1>2. Len(s) \in Nat \ {0}
  BY <1>1, Zenon
<1>3. Len(s) = 1
  BY <1>2, OneLong, Zenon
<1>4. PICK a \in S : a = s[1]
  BY <1>3, ElementOfSeq
<1>5. <<a>> \in Seq(S) /\ Len(<<a>>) = 1 /\ <<a>>[1] = a
  OBVIOUS
<1>6. \A i \in 1 .. 1 : s[i] = <<a>>[i]
  <2>1. \A i \in 1 .. 1 : i = 1
    OBVIOUS
  <2> QED BY <1>4, <1>5, <2>1
<1>7. s = <<a>>
  BY <1>3, <1>5, <1>6, SeqEqual
<1> QED BY <1>7

\* What a process works on, and what is delivered to it, is one copy or none.
LEMMA Slots ==
  ASSUME TypeOK, NEW c \in Consumers
  PROVE  /\ held[c] = <<>> \/ \E x \in Copies : held[c] = <<x>>
         /\ hand[c] = <<>> \/ \E x \in Copies : hand[c] = <<x>>
         /\ hand[c] = <<>> <=> step[c] \in {"down", "idle"}
         /\ \A x \in Copies : hand[c] = <<x>> => Head(hand[c]) = x /\ Id(c) = x.id
<1>1. held[c] \in Seq(Copies) /\ hand[c] \in Seq(Copies)
  BY DEF TypeOK
<1>2. Len(held[c]) <= 1
  BY DEF TypeOK
<1>3. Len(hand[c]) <= 1
  BY DEF TypeOK
<1>4. hand[c] = <<>> <=> step[c] \in {"down", "idle"}
  BY DEF TypeOK
<1>5. held[c] = <<>> \/ \E x \in Copies : held[c] = <<x>>
  BY <1>1, <1>2, ShortSeq
<1>6. hand[c] = <<>> \/ \E x \in Copies : hand[c] = <<x>>
  BY <1>1, <1>3, ShortSeq
<1>7. \A x \in Copies : hand[c] = <<x>> => Head(hand[c]) = x /\ Id(c) = x.id
  BY RangeShort DEF Id
<1> QED BY <1>4, <1>5, <1>6, <1>7

-----------------------------------------------------------------------------
\* The types of what belongs to a consumer.
Steps == {"down", "idle", "work", "mark", "effect", "ack"}
Room(g, h, s) ==
  Len(g) <= 1 /\ Len(h) <= 1 /\ (h = <<>> <=> s \in {"down", "idle"})
ConsumersOK ==
  /\ step \in [Consumers -> Steps] /\ wire \in [Consumers -> Seq(Frames)]
  /\ held \in [Consumers -> Seq(Copies)] /\ hand \in [Consumers -> Seq(Copies)]
  /\ \A c \in Consumers : Room(held[c], hand[c], step[c])
FilesOK ==
  /\ rows \subseteq Normal /\ processed \subseteq Idempotent
  /\ effects \in [Msgs -> 0 .. Many]
  /\ log \in Seq(Ordered) /\ published \in Seq(Msgs)
  /\ tried \in [Msgs -> SUBSET (0 .. 3)]

LEMMA TypeParts ==
  /\ TypeOK <=>
       /\ orders \in Seq(Copies) /\ dlq \in Seq(Copies) /\ retry \in [Attempts -> Seq(Copies)]
       /\ open \in [Consumers -> BOOLEAN] /\ ConsumersOK /\ FilesOK
       /\ faults \in 0 .. MaxFaults /\ kills \in 0 .. faults
  /\ TypeOK' <=>
       /\ orders' \in Seq(Copies) /\ dlq' \in Seq(Copies) /\ retry' \in [Attempts -> Seq(Copies)]
       /\ open' \in [Consumers -> BOOLEAN] /\ ConsumersOK' /\ FilesOK'
       /\ faults' \in 0 .. MaxFaults /\ kills' \in 0 .. faults'
BY Zenon DEF TypeOK, ConsumersOK, FilesOK, Room, Steps

\* A step of the process c, or of the broker at its connection.
LEMMA Turn ==
  ASSUME ConsumersOK, NEW c \in Consumers, NEW g \in Seq(Copies), NEW h \in Seq(Copies),
         NEW w \in Seq(Frames), NEW s \in Steps, Room(g, h, s),
         held' = [held EXCEPT ![c] = g], hand' = [hand EXCEPT ![c] = h],
         wire' = [wire EXCEPT ![c] = w], step' = [step EXCEPT ![c] = s]
  PROVE  /\ ConsumersOK'
         /\ held'[c] = g /\ hand'[c] = h /\ wire'[c] = w /\ step'[c] = s
         /\ \A d \in Consumers \ {c} :
              held'[d] = held[d] /\ hand'[d] = hand[d] /\ wire'[d] = wire[d] /\ step'[d] = step[d]
         /\ InHand' \subseteq InHand \cup Range(h)
<1>1. /\ step \in [Consumers -> Steps] /\ wire \in [Consumers -> Seq(Frames)]
      /\ held \in [Consumers -> Seq(Copies)] /\ hand \in [Consumers -> Seq(Copies)]
  BY DEF ConsumersOK
<1>2. held' \in [Consumers -> Seq(Copies)] /\ held'[c] = g
      /\ \A d \in Consumers \ {c} : held'[d] = held[d]
  BY <1>1
<1>3. hand' \in [Consumers -> Seq(Copies)] /\ hand'[c] = h
      /\ \A d \in Consumers \ {c} : hand'[d] = hand[d]
  BY <1>1
<1>4. wire' \in [Consumers -> Seq(Frames)] /\ wire'[c] = w
      /\ \A d \in Consumers \ {c} : wire'[d] = wire[d]
  BY <1>1
<1>5. step' \in [Consumers -> Steps] /\ step'[c] = s
      /\ \A d \in Consumers \ {c} : step'[d] = step[d]
  BY <1>1
<1>6. \A d \in Consumers : Room(held'[d], hand'[d], step'[d])
  BY <1>2, <1>3, <1>5 DEF ConsumersOK
<1>7. InHand' \subseteq InHand \cup Range(h)
  BY <1>3 DEF InHand
<1> QED BY <1>2, <1>3, <1>4, <1>5, <1>6, <1>7 DEF ConsumersOK

\* What is delivered to c, and to the others.
LEMMA Split ==
  ASSUME NEW c \in Consumers, \A d \in Consumers \ {c} : held'[d] = held[d]
  PROVE  \E others :
           Delivered = others \cup Range(held[c]) /\ Delivered' = others \cup Range(held'[c])
<1> DEFINE others == UNION {Range(held[d]) : d \in Consumers \ {c}}
<1>1. Delivered = others \cup Range(held[c])
  BY DEF Delivered
<1>2. Delivered' = others \cup Range(held'[c])
  BY DEF Delivered
<1> QED BY <1>1, <1>2

-----------------------------------------------------------------------------
\* Nothing that answers for an ack is taken back.
Stable ==
  /\ \A m : Done(m) => Done(m)'
  /\ \A x \in Copies : x.id \in Poison /\ Surpassed(x) => Surpassed(x)'
  /\ \A m \in Msgs : tried[m] \subseteq tried'[m]
  /\ rows \subseteq rows'

LEMMA AnsweredStays ==
  ASSUME Stable, NEW x \in Copies
  PROVE  /\ Answered(x) => Answered(x)'
         /\ \A y : Follows(y, x) => Follows(y, x)'
<1>1. x.id \in Msgs
  BY DEF Copies
<1>2. Answered(x) => Answered(x)'
  BY DEF Stable, Answered
<1>3. \A y : Follows(y, x) => Follows(y, x)'
  BY <1>1 DEF Stable, Follows
<1> QED BY <1>2, <1>3

\* A step does nothing to a consumer it is not about.
LEMMA LinkStays ==
  ASSUME LinkInv, Stable, NEW d \in Consumers,
         (open'[d] <=> open[d]) /\ held'[d] = held[d] /\ hand'[d] = hand[d],
         wire'[d] = wire[d] /\ step'[d] = step[d]
  PROVE  LinkOf(d)'
<1>1. LinkOf(d)
  BY DEF LinkInv
<1>2. /\ (open'[d] <=> open[d]) /\ held'[d] = held[d] /\ hand'[d] = hand[d]
      /\ wire'[d] = wire[d] /\ step'[d] = step[d]
  OBVIOUS
<1>3. \A x \in Copies : (Answered(x) => Answered(x)') /\ \A y : Follows(y, x) => Follows(y, x)'
  BY AnsweredStays
<1>4. Line(d)'
  <2>1. Line(d)
    BY <1>1 DEF LinkOf
  <2>2. CASE wire[d] = <<>>
    BY <1>2, <2>2 DEF Line
  <2>3. ASSUME NEW x \in Copies, NEW y \in Copies, held[d] = <<x>>, Follows(y, x),
               \/ wire[d] = <<Send(y)>> /\ step[d] \in {"ack", "down"}
               \/ wire[d] = <<Send(y), Ack>> /\ step[d] \in {"idle", "down"}
        PROVE  Line(d)'
    <3>1. Follows(y, x)'
      BY <1>3, <2>3
    <3> QED BY <1>2, <2>3, <3>1 DEF Line
  <2>4. ASSUME NEW x \in Copies, held[d] = <<x>>, Answered(x),
               wire[d] = <<Ack>>, step[d] \in {"idle", "down"}
        PROVE  Line(d)'
    <3>1. Answered(x)'
      BY <1>3, <2>4
    <3> QED BY <1>2, <2>4, <3>1 DEF Line
  <2> QED BY <2>1, <2>2, <2>3, <2>4 DEF Line
<1>5. \A x \in Copies : hand'[d] = <<x>> =>
        /\ open'[d] /\ step'[d] = "ack" /\ wire'[d] = <<>> => Answered(x)'
        /\ step'[d] = "effect" /\ x.id \in Normal => x.id \in rows'
  BY <1>1, <1>2, <1>3 DEF LinkOf, Stable
<1>6. /\ open'[d] \/ (held'[d] = <<>> /\ wire'[d] = <<>>)
      /\ open'[d] /\ hand'[d] # <<>> => held'[d] = hand'[d]
  BY <1>1, <1>2 DEF LinkOf
<1> QED BY <1>4, <1>5, <1>6 DEF LinkOf

LEMMA OtherLinks ==
  ASSUME LinkInv, Stable, NEW c \in Consumers, LinkOf(c)',
         \A d \in Consumers \ {c} :
           /\ (open'[d] <=> open[d]) /\ held'[d] = held[d] /\ hand'[d] = hand[d]
           /\ wire'[d] = wire[d] /\ step'[d] = step[d]
  PROVE  LinkInv'
<1> SUFFICES ASSUME NEW d \in Consumers \ {c} PROVE LinkOf(d)'
  BY DEF LinkInv
<1> QED BY LinkStays

LEMMA SameLinks ==
  ASSUME LinkInv, Stable, UNCHANGED <<open, held, hand, wire, step>>
  PROVE  LinkInv'
<1> SUFFICES ASSUME NEW d \in Consumers PROVE LinkOf(d)'
  BY DEF LinkInv
<1> QED BY LinkStays

\* A step that takes no copy away; what it brings, live or buried, is earned.
LEMMA MoreCopies ==
  ASSUME TypeOK, CopyInv, LostInv, NEW A, NEW B,
         Live' \subseteq Live \cup A, Range(dlq') \subseteq Range(dlq) \cup B,
         AtRest \subseteq AtRest', InHand' \subseteq InHand \cup Live,
         \A z \in A : z.attempt \in 0 .. 3, \A z \in B : z.attempt = Final,
         \A z \in A \cup B : Earned(z)',
         Range(published) \subseteq Range(published'),
         \A m \in Range(published') \ Range(published) : \E z \in A \cap AtRest' : z.id = m,
         \A m : Done(m) => Done(m)',
         \A m \in Msgs : tried[m] \subseteq tried'[m], rows \subseteq rows'
  PROVE  CopyInv' /\ LostInv' /\ Stable
<1>1. AtRest' \subseteq AtRest \cup A \cup B
  BY DEF AtRest
<1>2. \A z : Earned(z) => Earned(z)'
  <2>1. published \in Seq(Msgs)
    BY DEF TypeOK
  <2>2. Range(published) \subseteq Msgs
    BY <2>1, RangeOfSeq
  <2> QED BY <2>2 DEF Earned
<1>3. CopyInv'
  <2>1. \A z \in Live' \cup InHand' : z.attempt \in 0 .. 3
    BY DEF CopyInv
  <2>2. \A z \in Range(dlq') : z.attempt = Final
    BY DEF CopyInv
  <2>3. Live \subseteq AtRest
    BY DEF AtRest
  <2>4. \A z \in AtRest' \cup InHand' : Earned(z)'
    BY <1>1, <1>2, <2>3 DEF CopyInv
  <2> QED BY <2>1, <2>2, <2>4 DEF CopyInv
<1>4. LostInv'
  <2> SUFFICES ASSUME NEW m \in Range(published')
               PROVE  Done(m)' \/ \E z \in AtRest' : z.id = m
    BY DEF LostInv
  <2>1. CASE m \in Range(published)
    <3>1. Done(m) \/ \E z \in AtRest : z.id = m
      BY <2>1 DEF LostInv
    <3>2. CASE Done(m)
      BY <3>2
    <3> QED BY <3>1, <3>2
  <2>2. CASE m \notin Range(published)
    BY <2>2
  <2> QED BY <2>1, <2>2
<1>5. \A x \in Copies : Surpassed(x) => Surpassed(x)'
  BY DEF Surpassed
<1> QED BY <1>3, <1>4, <1>5 DEF Stable

LEMMA SameCopies ==
  ASSUME TypeOK, CopyInv, LostInv, Live' = Live, Range(dlq') = Range(dlq),
         InHand' \subseteq InHand \cup Live, published' = published,
         \A m : Done(m) => Done(m)',
         \A m \in Msgs : tried[m] \subseteq tried'[m], rows \subseteq rows'
  PROVE  CopyInv' /\ LostInv' /\ Stable
<1> DEFINE none == {}
<1>1. AtRest \subseteq AtRest'
  BY DEF AtRest
<1>2. /\ Live' \subseteq Live \cup none /\ Range(dlq') \subseteq Range(dlq) \cup none
      /\ Range(published) \subseteq Range(published')
      /\ \A z \in none : z.attempt \in 0 .. 3 /\ z.attempt = Final
      /\ \A z \in none \cup none : Earned(z)'
      /\ \A m \in Range(published') \ Range(published) : \E z \in none \cap AtRest' : z.id = m
  OBVIOUS
<1> HIDE DEF none
<1> QED BY <1>1, <1>2, MoreCopies, Zenon

\* What a published message needs to stay done.
LEMMA SameFiles ==
  ASSUME TypeOK, UNCHANGED files
  PROVE  /\ SameWork /\ \A m : Done(m) => Done(m)'
         /\ \A m \in Msgs : tried[m] \subseteq tried'[m]
         /\ rows \subseteq rows'
<1>1. rows' = rows /\ effects' = effects /\ processed' = processed /\ log' = log
      /\ tried' = tried
  BY DEF files
<1> QED BY <1>1 DEF Done, SameWork
\* A record of a copy.
LEMMA CopyParts ==
  /\ \A x \in Copies : x.id \in Msgs /\ x.attempt \in 0 .. 4
  /\ \A m \in Msgs : Fresh(m) \in Copies /\ Fresh(m).id = m /\ Fresh(m).attempt = 0
  /\ \A x \in Copies : Send(x) \in Frames /\ Send(x).to = "queue" /\ Send(x).copy = x
  /\ Ack \in Frames /\ Ack.to = "broker"
  /\ Attempts = 1 .. 3 /\ Final = 4
BY DEF Copies, Fresh, Send, Frames, Ack, Attempts, Final

LEMMA InitIInv == Init => IInv
<1> SUFFICES ASSUME Init PROVE IInv
  OBVIOUS
<1>1. \A S : <<>> \in Seq(S)
  OBVIOUS
<1>2. Range(<<>>) = {} /\ Len(<<>>) = 0
  BY EmptySeq DEF Range
<1>3. TypeOK
  <2>1. /\ orders \in Seq(Copies) /\ dlq \in Seq(Copies) /\ retry \in [Attempts -> Seq(Copies)]
        /\ open \in [Consumers -> BOOLEAN]
        /\ faults \in 0 .. MaxFaults /\ kills \in 0 .. faults
    BY <1>1, ConsumersAssumption DEF Init
  <2>2. ConsumersOK
    BY <1>1, <1>2 DEF Init, ConsumersOK, Steps, Room
  <2>3. FilesOK
    BY <1>1 DEF Init, FilesOK, Many
  <2> QED BY <2>1, <2>2, <2>3, TypeParts
<1>4. Live = {} /\ AtRest = {} /\ InHand = {}
  BY <1>2 DEF Init, Live, AtRest, Delayed, Delivered, InHand
<1>5. CopyInv
  BY <1>2, <1>4 DEF CopyInv, Init
<1>6. LostInv
  BY <1>2 DEF LostInv, Init
<1>7. LinkInv
  <2> SUFFICES ASSUME NEW c \in Consumers PROVE LinkOf(c)
    BY DEF LinkInv
  <2>1. held[c] = <<>> /\ wire[c] = <<>> /\ hand[c] = <<>>
    BY DEF Init
  <2>2. \A x \in Copies : hand[c] # <<x>>
    BY <2>1
  <2> QED BY <2>1, <2>2, Zenon DEF LinkOf, Line
<1> QED BY <1>3, <1>5, <1>6, <1>7 DEF IInv

\* The producer puts a fresh copy at the end of the queue.
LEMMA PublishStep ==
  ASSUME IInv, NEW m \in Msgs, Publish(m) \/ Republish(m)
  PROVE  IInv' /\ Flow
<1> DEFINE y == Fresh(m)
<1>1. y \in Copies /\ y.id = m /\ y.attempt = 0
  BY CopyParts
<1>2. /\ orders' = Append(orders, y)
      /\ UNCHANGED <<retry, dlq, open, held, wire, step, hand, files>>
  BY DEF Publish, Republish
<1> HIDE DEF y
<1>3. orders \in Seq(Copies) /\ published \in Seq(Msgs)
      /\ faults \in 0 .. MaxFaults /\ kills \in 0 .. faults
  BY DEF IInv, TypeOK
<1>4. orders' \in Seq(Copies) /\ Range(orders') = Range(orders) \cup {y}
  BY <1>1, <1>2, <1>3, RangeAppend
<1>5. published' \in Seq(Msgs) /\ Range(published') = Range(published) \cup {m}
  <2>1. CASE Publish(m)
    BY <1>3, <2>1, RangeAppend DEF Publish
  <2>2. CASE Republish(m)
    BY <1>3, <2>2 DEF Republish
  <2> QED BY <2>1, <2>2
<1>6. faults' \in 0 .. MaxFaults /\ kills' \in 0 .. faults'
  BY <1>3, ConsumersAssumption DEF Publish, Republish, Fault
<1>7. TypeOK'
  <2>1. ConsumersOK /\ FilesOK /\ open' \in [Consumers -> BOOLEAN]
    BY <1>2, TypeParts DEF IInv
  <2>2. ConsumersOK'
    BY <1>2, <2>1, Zenon DEF ConsumersOK
  <2>3. FilesOK'
    BY <1>2, <1>5, <2>1 DEF FilesOK, files
  <2>4. retry' \in [Attempts -> Seq(Copies)] /\ dlq' \in Seq(Copies)
    BY <1>2 DEF IInv, TypeOK
  <2> QED BY <1>4, <1>6, <2>1, <2>2, <2>3, <2>4, TypeParts
<1>8. Live' = Live \cup {y} /\ AtRest \subseteq AtRest' /\ y \in AtRest' /\ InHand' = InHand
      /\ Range(dlq') = Range(dlq)
  BY <1>2, <1>4 DEF Live, AtRest, Delayed, Delivered, InHand
<1>9. Earned(y)'
  BY <1>1, <1>5 DEF Earned
<1>10. CopyInv' /\ LostInv' /\ Stable
  <2>1. \A k : Done(k) => Done(k)'
    BY <1>2, SameFiles DEF IInv
  <2>2. (\A k \in Msgs : tried[k] \subseteq tried'[k]) /\ rows \subseteq rows'
    BY <1>2 DEF files
  <2> DEFINE A == {y}
             B == {}
  <2>3. /\ Live' \subseteq Live \cup A /\ Range(dlq') \subseteq Range(dlq) \cup B
        /\ InHand' \subseteq InHand \cup Live
        /\ \A z \in A : z.attempt \in 0 .. 3
        /\ \A z \in B : z.attempt = Final
        /\ \A z \in A \cup B : Earned(z)'
        /\ Range(published) \subseteq Range(published')
        /\ \A k \in Range(published') \ Range(published) : \E z \in A \cap AtRest' : z.id = k
    BY <1>1, <1>5, <1>8, <1>9
  <2> HIDE DEF A, B
  <2> QED BY <1>8, <2>1, <2>2, <2>3, MoreCopies, Zenon DEF IInv
<1>11. LinkInv'
  BY <1>2, <1>10, SameLinks DEF IInv
<1>12. Flow
  <2>1. SameWork
    BY <1>2, SameFiles DEF IInv
  <2> QED BY <1>1, <1>8, <2>1 DEF Flow, Brings
<1> QED BY <1>7, <1>10, <1>11, <1>12 DEF IInv
\* A connection changes its state, and the others keep theirs.
LEMMA Opens ==
  ASSUME TypeOK, NEW c \in Consumers, NEW b \in BOOLEAN,
         open' = [open EXCEPT ![c] = b] \/ (open' = open /\ open[c] = b)
  PROVE  /\ open' \in [Consumers -> BOOLEAN] /\ open'[c] = b
         /\ \A d \in Consumers \ {c} : open'[d] <=> open[d]
<1>1. open \in [Consumers -> BOOLEAN]
  BY DEF TypeOK
<1>2. CASE open' = [open EXCEPT ![c] = b]
  BY <1>1, <1>2
<1>3. CASE open' = open /\ open[c] = b
  BY <1>1, <1>3
<1> QED BY <1>2, <1>3

\* The files keep their types in a step that leaves them alone.
LEMMA QuietTypes ==
  ASSUME TypeOK, UNCHANGED <<files, published>>
  PROVE  FilesOK'
<1>1. FilesOK
  BY TypeParts
<1> QED BY <1>1 DEF FilesOK, files

\* The broker delivers the head of the queue, and the process starts on it.
LEMMA DeliverStep ==
  ASSUME IInv, NEW c \in Consumers, Deliver(c)
  PROVE  IInv' /\ Flow
<1> USE DEF IInv
<1>1. PICK x \in Copies : x = Head(orders) /\ Tail(orders) \in Seq(Copies)
                          /\ Range(orders) = {x} \cup Range(Tail(orders))
  BY RangeTail DEF Deliver, TypeOK
<1>2. /\ orders' = Tail(orders) /\ open[c] /\ held[c] = <<>>
      /\ held' = [held EXCEPT ![c] = <<x>>] /\ hand' = [hand EXCEPT ![c] = <<x>>]
      /\ step' = [step EXCEPT ![c] = "work"]
      /\ UNCHANGED <<retry, dlq, open, wire, files, published, faults, kills>>
  BY <1>1 DEF Deliver
<1>3. ConsumersOK /\ wire[c] \in Seq(Frames)
  BY TypeParts DEF ConsumersOK
<1>4. Room(<<x>>, <<x>>, "work") /\ <<x>> \in Seq(Copies) /\ Range(<<x>>) = {x}
  BY RangeShort DEF Room
<1>5. /\ ConsumersOK'
      /\ held'[c] = <<x>> /\ hand'[c] = <<x>> /\ wire'[c] = wire[c] /\ step'[c] = "work"
      /\ \A d \in Consumers \ {c} :
           held'[d] = held[d] /\ hand'[d] = hand[d] /\ wire'[d] = wire[d] /\ step'[d] = step[d]
      /\ InHand' \subseteq InHand \cup {x}
  <2> DEFINE g == <<x>>
  <2>1. g \in Seq(Copies) /\ Room(g, g, "work") /\ Range(g) = {x} /\ "work" \in Steps
    BY <1>4 DEF Steps
  <2>2. held' = [held EXCEPT ![c] = g] /\ hand' = [hand EXCEPT ![c] = g]
    BY <1>2
  <2>3. step' = [step EXCEPT ![c] = "work"] /\ wire' = [wire EXCEPT ![c] = wire[c]]
    BY <1>2, <1>3 DEF ConsumersOK
  <2> HIDE DEF g
  <2>4. /\ ConsumersOK'
        /\ held'[c] = g /\ hand'[c] = g /\ wire'[c] = wire[c] /\ step'[c] = "work"
        /\ \A d \in Consumers \ {c} :
             held'[d] = held[d] /\ hand'[d] = hand[d] /\ wire'[d] = wire[d] /\ step'[d] = step[d]
        /\ InHand' \subseteq InHand \cup Range(g)
    BY <1>3, <2>1, <2>2, <2>3, Turn
  <2> QED BY <2>1, <2>4 DEF g
<1>6. TypeOK'
  <2>1. /\ FilesOK' /\ open' = open /\ retry' = retry /\ dlq' = dlq
        /\ faults' = faults /\ kills' = kills
    BY <1>2, QuietTypes
  <2> QED BY <1>1, <1>2, <1>5, <2>1, TypeParts, Zenon
<1>7. Live' = Live
  <2>1. PICK others : /\ Delivered = others \cup Range(held[c])
                      /\ Delivered' = others \cup Range(held'[c])
    BY <1>5, Split
  <2>2. Range(held[c]) = {} /\ Range(held'[c]) = {x}
    BY <1>2, <1>4, <1>5, RangeShort
  <2>3. Delayed' = Delayed
    BY <1>2 DEF Delayed
  <2> QED BY <1>1, <1>2, <2>1, <2>2, <2>3 DEF Live
<1>8. CopyInv' /\ LostInv' /\ Stable
  <2>1. x \in Live
    BY <1>1 DEF Live
  <2>2. InHand' \subseteq InHand \cup Live /\ Range(dlq') = Range(dlq) /\ published' = published
    BY <1>2, <1>5, <2>1
  <2>3. UNCHANGED files
    BY <1>2
  <2> QED BY <1>7, <2>2, <2>3, SameFiles, SameCopies
<1>9. LinkInv'
  <2>1. wire[c] = <<>>
    <3>1. Line(c)
      BY DEF LinkInv, LinkOf
    <3>2. \A z \in Copies : held[c] # <<z>>
      BY <1>2, RangeShort
    <3> QED BY <3>1, <3>2 DEF Line
  <2>2. open'[c] /\ wire'[c] = <<>> /\ held'[c] = hand'[c]
    BY <1>2, <1>5, <2>1, Zenon
  <2>3. LinkOf(c)'
    BY <1>5, <2>2, Zenon DEF LinkOf, Line
  <2>4. \A d \in Consumers \ {c} : open'[d] <=> open[d]
    BY <1>2
  <2> QED BY <1>5, <1>8, <2>3, <2>4, OtherLinks, Zenon
<1>10. Flow
  <2>1. UNCHANGED files /\ dlq' = dlq
    BY <1>2
  <2> QED BY <1>7, <2>1, SameFiles DEF Flow, SameQueues
<1> QED BY <1>6, <1>8, <1>9, <1>10

\* A half-open connection is given the head of the queue, and nobody works on it.
LEMMA DeliverToDeadStep ==
  ASSUME IInv, NEW c \in Consumers, DeliverToDead(c)
  PROVE  IInv' /\ Flow
<1> USE DEF IInv
<1>1. PICK x \in Copies : x = Head(orders) /\ Tail(orders) \in Seq(Copies)
                          /\ Range(orders) = {x} \cup Range(Tail(orders))
  BY RangeTail DEF DeliverToDead, TypeOK
<1>2. /\ orders' = Tail(orders) /\ open[c] /\ step[c] = "down" /\ held[c] = <<>>
      /\ held' = [held EXCEPT ![c] = <<x>>]
      /\ UNCHANGED <<retry, dlq, open, wire, step, hand, files, published, faults, kills>>
  BY <1>1 DEF DeliverToDead
<1>3. ConsumersOK /\ hand[c] = <<>>
  BY <1>2, TypeParts, Slots
<1>4. /\ <<x>> \in Seq(Copies) /\ Range(<<x>>) = {x} /\ Len(<<x>>) = 1
      /\ <<>> \in Seq(Copies) /\ Len(<<>>) = 0 /\ Range(<<>>) = {}
  BY RangeShort, EmptySeq
<1>5. /\ ConsumersOK'
      /\ held'[c] = <<x>> /\ hand'[c] = <<>> /\ wire'[c] = wire[c] /\ step'[c] = "down"
      /\ \A d \in Consumers \ {c} :
           held'[d] = held[d] /\ hand'[d] = hand[d] /\ wire'[d] = wire[d] /\ step'[d] = step[d]
      /\ InHand' \subseteq InHand
  <2> DEFINE g == <<x>>
             h == <<>>
  <2>1. /\ g \in Seq(Copies) /\ h \in Seq(Copies) /\ Room(g, h, "down") /\ "down" \in Steps
        /\ wire[c] \in Seq(Frames) /\ Range(h) = {}
    BY <1>3, <1>4 DEF Steps, Room, ConsumersOK
  <2>2. /\ held' = [held EXCEPT ![c] = g] /\ hand' = [hand EXCEPT ![c] = h]
        /\ step' = [step EXCEPT ![c] = "down"] /\ wire' = [wire EXCEPT ![c] = wire[c]]
    BY <1>2, <1>3 DEF ConsumersOK
  <2> HIDE DEF g, h
  <2>3. /\ ConsumersOK'
        /\ held'[c] = g /\ hand'[c] = h /\ wire'[c] = wire[c] /\ step'[c] = "down"
        /\ \A d \in Consumers \ {c} :
             held'[d] = held[d] /\ hand'[d] = hand[d] /\ wire'[d] = wire[d] /\ step'[d] = step[d]
        /\ InHand' \subseteq InHand \cup Range(h)
    BY <1>3, <2>1, <2>2, Turn
  <2> QED BY <2>1, <2>3 DEF g, h
<1>6. TypeOK'
  <2>1. /\ FilesOK' /\ open' = open /\ retry' = retry /\ dlq' = dlq
        /\ faults' = faults /\ kills' = kills
    BY <1>2, QuietTypes
  <2> QED BY <1>1, <1>2, <1>5, <2>1, TypeParts
<1>7. Live' = Live
  <2>1. PICK others : /\ Delivered = others \cup Range(held[c])
                      /\ Delivered' = others \cup Range(held'[c])
    BY <1>5, Split
  <2>2. Range(held[c]) = {} /\ Range(held'[c]) = {x}
    BY <1>2, <1>4, <1>5, RangeShort
  <2>3. Delayed' = Delayed
    BY <1>2 DEF Delayed
  <2> QED BY <1>1, <1>2, <2>1, <2>2, <2>3 DEF Live
<1>8. CopyInv' /\ LostInv' /\ Stable
  <2>1. InHand' \subseteq InHand \cup Live /\ Range(dlq') = Range(dlq) /\ published' = published
    BY <1>2, <1>5
  <2>2. UNCHANGED files
    BY <1>2
  <2> QED BY <1>7, <2>1, <2>2, SameFiles, SameCopies
<1>9. LinkInv'
  <2>1. wire[c] = <<>>
    <3>1. Line(c)
      BY DEF LinkInv, LinkOf
    <3>2. \A z \in Copies : held[c] # <<z>>
      BY <1>2, RangeShort
    <3> QED BY <3>1, <3>2 DEF Line
  <2>2. open'[c] /\ wire'[c] = <<>> /\ \A z \in Copies : hand'[c] # <<z>>
    BY <1>2, <1>5, <2>1, RangeShort
  <2>3. LinkOf(c)'
    BY <1>5, <2>2, Zenon DEF LinkOf, Line
  <2>4. \A d \in Consumers \ {c} : open'[d] <=> open[d]
    BY <1>2
  <2> QED BY <1>5, <1>8, <2>3, <2>4, OtherLinks, Zenon
<1>10. Flow
  <2>1. UNCHANGED files /\ dlq' = dlq
    BY <1>2
  <2> QED BY <1>7, <2>1, SameFiles DEF Flow, SameQueues
<1> QED BY <1>6, <1>8, <1>9, <1>10

\* A delay runs out: the head of a delay queue goes back to the main queue.
LEMMA ExpireStep ==
  ASSUME IInv, NEW n \in Attempts, Expire(n)
  PROVE  IInv' /\ Flow
<1> USE DEF IInv
<1>1. retry \in [Attempts -> Seq(Copies)] /\ orders \in Seq(Copies)
  BY DEF TypeOK
<1>2. PICK y \in Copies : y = Head(retry[n]) /\ Tail(retry[n]) \in Seq(Copies)
                          /\ Range(retry[n]) = {y} \cup Range(Tail(retry[n]))
  <2>1. retry[n] \in Seq(Copies) /\ retry[n] # <<>>
    BY <1>1 DEF Expire
  <2> QED BY <2>1, RangeTail
<1>3. /\ orders' = Append(orders, y) /\ retry' = [retry EXCEPT ![n] = Tail(@)]
      /\ UNCHANGED <<dlq, open, held, wire, step, hand, files, published, faults, kills>>
  BY <1>2 DEF Expire
<1>4. orders' \in Seq(Copies) /\ Range(orders') = Range(orders) \cup {y}
  BY <1>1, <1>3, RangeAppend
<1>5. retry' \in [Attempts -> Seq(Copies)] /\ retry'[n] = Tail(retry[n])
      /\ \A k \in Attempts \ {n} : retry'[k] = retry[k]
  BY <1>1, <1>2, <1>3
<1>6. Live' = Live
  <2> DEFINE others == UNION {Range(retry[k]) : k \in Attempts \ {n}}
  <2>1. Delayed = others \cup Range(retry[n])
    BY DEF Delayed
  <2>2. Delayed' = others \cup Range(retry'[n])
    BY <1>5 DEF Delayed
  <2>3. Delivered' = Delivered
    BY <1>3 DEF Delivered
  <2> HIDE DEF others
  <2> QED BY <1>2, <1>4, <1>5, <2>1, <2>2, <2>3 DEF Live
<1>7. TypeOK'
  <2>1. FilesOK' /\ open' = open /\ dlq' = dlq /\ faults' = faults /\ kills' = kills
    BY <1>3, QuietTypes
  <2>2. ConsumersOK'
    BY <1>3, TypeParts, Zenon DEF ConsumersOK
  <2> QED BY <1>4, <1>5, <2>1, <2>2, TypeParts, Zenon
<1>8. CopyInv' /\ LostInv' /\ Stable
  <2>1. InHand' \subseteq InHand \cup Live /\ Range(dlq') = Range(dlq) /\ published' = published
    BY <1>3 DEF InHand
  <2>2. UNCHANGED files
    BY <1>3
  <2> QED BY <1>6, <2>1, <2>2, SameFiles, SameCopies
<1>9. LinkInv'
  BY <1>3, <1>8, SameLinks
<1>10. Flow
  <2>1. UNCHANGED files /\ dlq' = dlq
    BY <1>3
  <2> QED BY <1>6, <2>1, SameFiles DEF Flow, SameQueues
<1> QED BY <1>7, <1>8, <1>9, <1>10

\* What stands at the head of a connection.
LEMMA HeadFrame ==
  ASSUME IInv, NEW c \in Consumers, wire[c] # <<>>
  PROVE  \/ \E x, y \in Copies :
              /\ held[c] = <<x>> /\ Follows(y, x) /\ Head(wire[c]) = Send(y)
              /\ \/ Tail(wire[c]) = <<>> /\ step[c] \in {"ack", "down"}
                 \/ Tail(wire[c]) = <<Ack>> /\ step[c] \in {"idle", "down"}
         \/ \E x \in Copies :
              /\ held[c] = <<x>> /\ Answered(x) /\ Head(wire[c]) = Ack
              /\ Tail(wire[c]) = <<>> /\ step[c] \in {"idle", "down"}
<1>1. Line(c)
  BY DEF IInv, LinkInv, LinkOf
<1>2. ASSUME NEW x \in Copies, NEW y \in Copies, held[c] = <<x>>, Follows(y, x),
             wire[c] = <<Send(y)>>, step[c] \in {"ack", "down"}
      PROVE  Head(wire[c]) = Send(y) /\ Tail(wire[c]) = <<>>
  BY <1>2, RangeShort, CopyParts
<1>3. ASSUME NEW x \in Copies, NEW y \in Copies, held[c] = <<x>>, Follows(y, x),
             wire[c] = <<Send(y), Ack>>, step[c] \in {"idle", "down"}
      PROVE  Head(wire[c]) = Send(y) /\ Tail(wire[c]) = <<Ack>>
  BY <1>3, Pairs, CopyParts
<1>4. ASSUME NEW x \in Copies, held[c] = <<x>>, Answered(x), wire[c] = <<Ack>>
      PROVE  Head(wire[c]) = Ack /\ Tail(wire[c]) = <<>>
  BY <1>4, RangeShort, CopyParts
<1> QED BY <1>1, <1>2, <1>3, <1>4, Zenon DEF Line

\* A frame is taken; the process and what it is delivered stay as they are.
LEMMA TakeTurn ==
  ASSUME TypeOK, NEW c \in Consumers, NEW g \in Seq(Copies), NextFrame(c),
         held' = [held EXCEPT ![c] = g], Room(g, hand[c], step[c]),
         UNCHANGED <<hand, step, open>>
  PROVE  /\ ConsumersOK' /\ held'[c] = g /\ hand'[c] = hand[c]
         /\ wire'[c] = Tail(wire[c]) /\ step'[c] = step[c] /\ open[c]
         /\ \A d \in Consumers \ {c} :
              /\ held'[d] = held[d] /\ hand'[d] = hand[d] /\ wire'[d] = wire[d]
              /\ step'[d] = step[d] /\ (open'[d] <=> open[d])
         /\ InHand' = InHand
<1>1. ConsumersOK
  BY TypeParts
<1>2. wire[c] \in Seq(Frames) /\ wire[c] # <<>> /\ wire' = [wire EXCEPT ![c] = Tail(wire[c])]
  BY <1>1 DEF NextFrame, ConsumersOK
<1>3. Tail(wire[c]) \in Seq(Frames)
  BY <1>2, RangeTail
<1>4. hand[c] \in Seq(Copies) /\ step[c] \in Steps
  BY <1>1 DEF ConsumersOK
<1>5. InHand' = InHand /\ open[c]
  BY DEF InHand, NextFrame
<1>6. /\ ConsumersOK' /\ held'[c] = g /\ hand'[c] = hand[c]
      /\ wire'[c] = Tail(wire[c]) /\ step'[c] = step[c]
      /\ \A d \in Consumers \ {c} :
           held'[d] = held[d] /\ hand'[d] = hand[d] /\ wire'[d] = wire[d] /\ step'[d] = step[d]
  <2>1. /\ held' \in [Consumers -> Seq(Copies)] /\ held'[c] = g
        /\ \A d \in Consumers \ {c} : held'[d] = held[d]
    BY <1>1 DEF ConsumersOK
  <2>2. /\ wire' \in [Consumers -> Seq(Frames)] /\ wire'[c] = Tail(wire[c])
        /\ \A d \in Consumers \ {c} : wire'[d] = wire[d]
    BY <1>1, <1>2, <1>3 DEF ConsumersOK
  <2>3. /\ hand \in [Consumers -> Seq(Copies)] /\ step \in [Consumers -> Steps]
        /\ hand' = hand /\ step' = step
    BY <1>1 DEF ConsumersOK
  <2>4. \A d \in Consumers : Room(held'[d], hand'[d], step'[d])
    BY <1>1, <2>1, <2>3 DEF ConsumersOK
  <2> QED BY <2>1, <2>2, <2>3, <2>4, Zenon DEF ConsumersOK
<1> QED BY <1>5, <1>6

\* The broker takes the copy that follows the one it has delivered to c.
LEMMA TakePublishStep ==
  ASSUME IInv, NEW c \in Consumers, TakePublish(c)
  PROVE  IInv' /\ Flow
<1> USE DEF IInv
<1>1. NextFrame(c) /\ wire[c] # <<>> /\ Head(wire[c]).to = "queue"
      /\ UNCHANGED <<orders, open, held, step, hand, files, published, faults, kills>>
  BY DEF TakePublish, NextFrame
<1>2. PICK x \in Copies, y \in Copies :
        /\ held[c] = <<x>> /\ Follows(y, x) /\ Head(wire[c]) = Send(y)
        /\ \/ Tail(wire[c]) = <<>> /\ step[c] \in {"ack", "down"}
           \/ Tail(wire[c]) = <<Ack>> /\ step[c] \in {"idle", "down"}
  <2>1. Head(wire[c]) # Ack
    BY <1>1, CopyParts
  <2> QED BY <1>1, <2>1, HeadFrame, Zenon
<1>3. x \in Live /\ Earned(x) /\ x.attempt \in 0 .. 3
  <2>1. held[c] \in Seq(Copies) /\ Range(held[c]) = {x}
    BY <1>2, RangeShort DEF TypeOK
  <2>2. x \in Live
    BY <2>1 DEF Live, Delivered
  <2> QED BY <2>2 DEF CopyInv, AtRest
<1>4. y.id = x.id /\ y.id \in Msgs /\ y.attempt = x.attempt + 1
  BY <1>2, CopyParts DEF Follows
<1>5. Earned(y)'
  <2>1. x.attempt \in tried[x.id] /\ tried' = tried /\ published' = published
    BY <1>1, <1>2 DEF Follows, files
  <2> QED BY <1>3, <1>4, <2>1 DEF Earned
<1>6. Head(wire[c]).copy = y
  BY <1>2, CopyParts
<1> DEFINE A == {z \in {y} : z.attempt \in 0 .. 3}
           B == {z \in {y} : z.attempt = Final}
<1>7. /\ dlq' \in Seq(Copies) /\ retry' \in [Attempts -> Seq(Copies)]
      /\ Live' \subseteq Live \cup A /\ Range(dlq') \subseteq Range(dlq) \cup B
      /\ AtRest \subseteq AtRest' /\ y \in AtRest'
      /\ \/ Live' = Live /\ Range(dlq') = Range(dlq) \cup {y}
         \/ Live' = Live \cup {y} /\ Range(dlq') = Range(dlq)
  <2>1. dlq \in Seq(Copies) /\ retry \in [Attempts -> Seq(Copies)]
    BY DEF TypeOK
  <2>2. orders' = orders /\ Delivered' = Delivered
    BY <1>1 DEF Delivered
  <2>3. CASE y.attempt = Final /\ dlq' = Append(dlq, y) /\ retry' = retry
    <3>1. dlq' \in Seq(Copies) /\ Range(dlq') = Range(dlq) \cup {y}
      BY <2>1, <2>3, RangeAppend
    <3>2. Delayed' = Delayed
      BY <2>3 DEF Delayed
    <3> QED BY <2>1, <2>2, <2>3, <3>1, <3>2 DEF Live, AtRest
  <2>4. CASE /\ y.attempt \in Attempts /\ dlq' = dlq
             /\ retry' = [retry EXCEPT ![y.attempt] = Append(@, y)]
    <3>1. PICK n \in Attempts : n = y.attempt
      BY <2>4
    <3>2. /\ Append(retry[n], y) \in Seq(Copies)
          /\ Range(Append(retry[n], y)) = Range(retry[n]) \cup {y}
      BY <2>1, RangeAppend
    <3>3. /\ retry' \in [Attempts -> Seq(Copies)] /\ retry'[n] = Append(retry[n], y)
          /\ \A k \in Attempts \ {n} : retry'[k] = retry[k]
      BY <2>1, <2>4, <3>1, <3>2
    <3>4. Delayed' = Delayed \cup {y}
      <4> DEFINE others == UNION {Range(retry[k]) : k \in Attempts \ {n}}
      <4>1. Delayed = others \cup Range(retry[n])
        BY DEF Delayed
      <4>2. Delayed' = others \cup Range(retry'[n])
        BY <3>3 DEF Delayed
      <4> HIDE DEF others
      <4> QED BY <3>2, <3>3, <4>1, <4>2
    <3>5. y \in A
      BY <2>4, CopyParts
    <3> QED BY <2>1, <2>2, <2>4, <3>3, <3>4, <3>5 DEF Live, AtRest
  <2> QED BY <1>6, <2>3, <2>4 DEF TakePublish
<1>8. /\ ConsumersOK' /\ held'[c] = held[c] /\ hand'[c] = hand[c]
      /\ wire'[c] = Tail(wire[c]) /\ step'[c] = step[c] /\ open[c]
      /\ \A d \in Consumers \ {c} :
           /\ held'[d] = held[d] /\ hand'[d] = hand[d] /\ wire'[d] = wire[d]
           /\ step'[d] = step[d] /\ (open'[d] <=> open[d])
      /\ InHand' = InHand
  <2>1. ConsumersOK
    BY TypeParts
  <2>2. held' = [held EXCEPT ![c] = held[c]] /\ held[c] \in Seq(Copies)
    BY <1>1, <2>1 DEF ConsumersOK
  <2>3. Room(held[c], hand[c], step[c])
    BY <2>1 DEF ConsumersOK
  <2> QED BY <1>1, <2>2, <2>3, TakeTurn
<1>9. TypeOK'
  <2>1. FilesOK' /\ open' = open /\ orders' = orders /\ faults' = faults /\ kills' = kills
    BY <1>1, QuietTypes
  <2> QED BY <1>7, <1>8, <2>1, TypeParts, Zenon
<1>10. CopyInv' /\ LostInv' /\ Stable
  <2>1. /\ \A z \in A : z.attempt \in 0 .. 3
        /\ \A z \in B : z.attempt = Final
        /\ \A z \in A \cup B : Earned(z)'
        /\ InHand' \subseteq InHand \cup Live
        /\ Range(published) \subseteq Range(published')
        /\ \A k \in Range(published') \ Range(published) : \E z \in A \cap AtRest' : z.id = k
    BY <1>1, <1>5, <1>8
  <2>2. UNCHANGED files
    BY <1>1
  <2>3. /\ \A m : Done(m) => Done(m)'
        /\ \A m \in Msgs : tried[m] \subseteq tried'[m]
        /\ rows \subseteq rows'
    BY <2>2, SameFiles
  <2> HIDE DEF A, B
  <2> QED BY <1>7, <2>1, <2>3, MoreCopies, Zenon
<1>11. LinkInv'
  <2>1. LinkOf(c)
    BY DEF LinkInv
  <2>2. Answered(x)'
    <3>1. x.id \in Poison /\ y.attempt > x.attempt
      BY <1>2, <1>3, <1>4 DEF Follows
    <3> QED BY <1>4, <1>7, <3>1 DEF Answered, Surpassed
  <2>3. Line(c)'
    <3>1. wire'[c] = <<>> \/ (wire'[c] = <<Ack>> /\ step'[c] \in {"idle", "down"})
      BY <1>2, <1>8
    <3>2. held'[c] = <<x>>
      BY <1>2, <1>8
    <3> QED BY <2>2, <3>1, <3>2, Zenon DEF Line
  <2>4. \A z \in Copies : hand'[c] = <<z>> =>
          /\ Answered(z)'
          /\ step'[c] = "effect" /\ z.id \in Normal => z.id \in rows'
    <3> SUFFICES ASSUME NEW z \in Copies, hand[c] = <<z>>
                 PROVE  Answered(z)' /\ (step[c] = "effect" /\ z.id \in Normal => z.id \in rows)
      BY <1>1, <1>8 DEF files
    <3>1. held[c] = <<z>>
      BY <1>8, <2>1, RangeShort DEF LinkOf
    <3>2. z = x
      BY <1>2, <3>1
    <3> QED BY <2>1, <2>2, <3>2 DEF LinkOf
  <2>5. open'[c] /\ (hand'[c] # <<>> => held'[c] = hand'[c])
    BY <1>1, <1>8, <2>1, Zenon DEF LinkOf
  <2>6. LinkOf(c)'
    BY <2>3, <2>4, <2>5, Zenon DEF LinkOf
  <2> QED BY <1>8, <1>10, <2>6, OtherLinks, Zenon
<1>12. Flow
  <2>1. SameWork
    <3>1. UNCHANGED files
      BY <1>1
    <3> QED BY <3>1, SameFiles
  <2>2. Brings(y) \/ Buries(y)
    BY <1>3, <1>4, <1>7, <2>1 DEF Brings, Buries
  <2> QED BY <2>2 DEF Flow
<1> QED BY <1>9, <1>10, <1>11, <1>12
\* The broker takes an ack, and forgets a copy that is answered for.
LEMMA TakeAckStep ==
  ASSUME IInv, NEW c \in Consumers, TakeAck(c)
  PROVE  IInv' /\ Flow
<1> USE DEF IInv
<1>1. /\ NextFrame(c) /\ wire[c] # <<>> /\ Head(wire[c]) = Ack
      /\ held' = [held EXCEPT ![c] = <<>>]
      /\ UNCHANGED <<orders, retry, dlq, open, step, hand, files, published, faults, kills>>
  BY DEF TakeAck, NextFrame
<1>2. PICK x \in Copies : /\ held[c] = <<x>> /\ Answered(x) /\ Tail(wire[c]) = <<>>
                          /\ step[c] \in {"idle", "down"}
  <2>1. \A y \in Copies : Head(wire[c]) # Send(y)
    <3>1. \A y \in Copies : Send(y).to = "queue"
      BY CopyParts
    <3>2. Head(wire[c]).to = "broker"
      BY <1>1, CopyParts
    <3> QED BY <3>1, <3>2
  <2> QED BY <1>1, <2>1, HeadFrame, Zenon
<1>3. hand[c] = <<>> /\ Range(held[c]) = {x}
  BY <1>2, RangeShort, Slots
<1>4. /\ ConsumersOK' /\ held'[c] = <<>> /\ hand'[c] = <<>> /\ wire'[c] = <<>>
      /\ step'[c] = step[c] /\ open[c]
      /\ \A d \in Consumers \ {c} :
           /\ held'[d] = held[d] /\ hand'[d] = hand[d] /\ wire'[d] = wire[d]
           /\ step'[d] = step[d] /\ (open'[d] <=> open[d])
      /\ InHand' = InHand
  <2>1. PICK g \in Seq(Copies) : g = <<>>
    <3>1. <<>> \in Seq(Copies)
      OBVIOUS
    <3> QED BY <3>1
  <2>2. Room(g, hand[c], step[c])
    <3>1. Room(held[c], hand[c], step[c]) /\ Len(g) = 0
      BY <2>1, TypeParts DEF ConsumersOK
    <3> QED BY <3>1 DEF Room
  <2>3. held' = [held EXCEPT ![c] = g]
    BY <1>1, <2>1
  <2>4. hand' = hand /\ step' = step /\ open' = open
    BY <1>1
  <2>5. /\ ConsumersOK' /\ held'[c] = g /\ hand'[c] = hand[c]
        /\ wire'[c] = Tail(wire[c]) /\ step'[c] = step[c] /\ open[c]
        /\ \A d \in Consumers \ {c} :
             /\ held'[d] = held[d] /\ hand'[d] = hand[d] /\ wire'[d] = wire[d]
             /\ step'[d] = step[d] /\ (open'[d] <=> open[d])
        /\ InHand' = InHand
    BY <1>1, <2>2, <2>3, <2>4, TakeTurn
  <2> QED BY <1>2, <1>3, <2>1, <2>5
<1>5. TypeOK'
  <2>1. /\ FilesOK' /\ open' = open /\ orders' = orders /\ retry' = retry /\ dlq' = dlq
        /\ faults' = faults /\ kills' = kills
    BY <1>1, QuietTypes
  <2> QED BY <1>4, <2>1, TypeParts, Zenon
<1>6. /\ x \in Live /\ Live' \subseteq Live /\ Live \subseteq Live' \cup {x}
      /\ AtRest' \subseteq AtRest /\ AtRest \subseteq AtRest' \cup {x}
      /\ Range(dlq') = Range(dlq)
  <2>1. PICK others : /\ Delivered = others \cup Range(held[c])
                      /\ Delivered' = others \cup Range(held'[c])
    BY <1>4, Split
  <2>2. Range(held'[c]) = {}
    BY <1>4, RangeShort
  <2>3. Delayed' = Delayed
    BY <1>1 DEF Delayed
  <2> QED BY <1>1, <1>3, <2>1, <2>2, <2>3 DEF Live, AtRest
<1>7. /\ \A m : Done(m) => Done(m)'
      /\ \A m \in Msgs : tried[m] \subseteq tried'[m]
      /\ rows \subseteq rows'
  <2>1. UNCHANGED files
    BY <1>1
  <2> QED BY <2>1, SameFiles
<1>8. x.id \in Poison => \E z \in AtRest' : z.id = x.id /\ z.attempt > x.attempt
  <2>1. SUFFICES ASSUME x.id \in Poison
                 PROVE  \E z \in AtRest' : z.id = x.id /\ z.attempt > x.attempt
    OBVIOUS
  <2>2. PICK z \in AtRest : z.id = x.id /\ z.attempt > x.attempt
    BY <1>2, <2>1 DEF Answered, Surpassed
  <2>3. x.attempt \in 0 .. 4
    BY CopyParts
  <2>4. z # x
    BY <2>2, <2>3
  <2> QED BY <1>6, <2>2, <2>4
<1>9. CopyInv'
  <2>1. tried' = tried /\ published' = published
    BY <1>1 DEF files
  <2>2. \A z \in AtRest' \cup InHand' : Earned(z)'
    BY <1>4, <1>6, <2>1 DEF CopyInv, Earned
  <2> QED BY <1>4, <1>6, <2>2 DEF CopyInv
<1>10. LostInv'
  <2> SUFFICES ASSUME NEW m \in Range(published)
               PROVE  Done(m)' \/ \E z \in AtRest' : z.id = m
    BY <1>1 DEF LostInv
  <2>1. CASE Done(m)
    BY <1>7, <2>1
  <2>2. ASSUME NEW z \in AtRest, z.id = m
        PROVE  Done(m)' \/ \E y \in AtRest' : y.id = m
    <3>1. CASE z # x
      BY <1>6, <2>2, <3>1
    <3>2. CASE z = x /\ x.id \in Poison
      BY <1>8, <2>2, <3>2
    <3>3. CASE z = x /\ x.id \notin Poison
      <4>1. Done(m)
        BY <1>2, <2>2, <3>3 DEF Answered
      <4> QED BY <1>7, <4>1
    <3> QED BY <3>1, <3>2, <3>3
  <2> QED BY <2>1, <2>2 DEF LostInv
<1>11. Stable
  <2>1. ASSUME NEW a \in Copies, a.id \in Poison, Surpassed(a)
        PROVE  Surpassed(a)'
    <3>1. PICK z \in AtRest : z.id = a.id /\ z.attempt > a.attempt
      BY <2>1 DEF Surpassed
    <3>2. CASE z # x
      BY <1>6, <3>1, <3>2 DEF Surpassed
    <3>3. CASE z = x
      <4>1. PICK y \in AtRest' : y.id = x.id /\ y.attempt > x.attempt
        BY <1>8, <2>1, <3>1, <3>3
      <4>2. y \in AtRest /\ x.attempt \in 0 .. 4 /\ a.attempt \in 0 .. 4
        BY <1>6, <4>1, CopyParts
      <4>3. y.attempt \in 0 .. 4
        BY <4>2 DEF CopyInv, AtRest, Final
      <4> QED BY <3>1, <3>3, <4>1, <4>2, <4>3 DEF Surpassed
    <3> QED BY <3>2, <3>3
  <2> QED BY <1>7, <2>1 DEF Stable
<1>12. LinkInv'
  <2>1. open'[c]
    BY <1>1, <1>4, Zenon
  <2>2. \A z \in Copies : hand'[c] # <<z>>
    BY <1>4, RangeShort
  <2>3. LinkOf(c)'
    BY <1>4, <2>1, <2>2, Zenon DEF LinkOf, Line
  <2> QED BY <1>4, <1>11, <2>3, OtherLinks, Zenon
<1>13. Flow
  <2>1. SameWork
    <3>1. UNCHANGED files
      BY <1>1
    <3> QED BY <3>1, SameFiles
  <2>2. Forgets(x)
    BY <1>2, <1>6, <2>1 DEF Forgets
  <2> QED BY <2>2 DEF Flow
<1> QED BY <1>5, <1>9, <1>10, <1>12, <1>13

\* A connection is lost: the queue has the copy again, and what the process
\* had sent is gone.
LEMMA DisconnectStep ==
  ASSUME IInv, NEW c \in Consumers, Disconnect(c),
         faults' \in 0 .. MaxFaults, kills' \in 0 .. faults'
  PROVE  IInv' /\ Flow
<1> USE DEF IInv
<1>1. /\ orders' = held[c] \o orders /\ open' = [open EXCEPT ![c] = FALSE]
      /\ held' = [held EXCEPT ![c] = <<>>] /\ wire' = [wire EXCEPT ![c] = <<>>]
      /\ UNCHANGED <<retry, dlq, step, hand, files, published>>
  BY DEF Disconnect, Requeue
<1>2. ConsumersOK /\ orders \in Seq(Copies) /\ held[c] \in Seq(Copies)
  BY TypeParts DEF ConsumersOK
<1>3. orders' \in Seq(Copies) /\ Range(orders') = Range(held[c]) \cup Range(orders)
  BY <1>1, <1>2, ConcatProperties, RangeConcatenation
<1>4. /\ held' \in [Consumers -> Seq(Copies)] /\ held'[c] = <<>>
      /\ \A d \in Consumers \ {c} : held'[d] = held[d]
  BY <1>1, <1>2 DEF ConsumersOK
<1>5. /\ wire' \in [Consumers -> Seq(Frames)] /\ wire'[c] = <<>>
      /\ \A d \in Consumers \ {c} : wire'[d] = wire[d]
  BY <1>1, <1>2 DEF ConsumersOK
<1>6. /\ open' \in [Consumers -> BOOLEAN] /\ ~open'[c]
      /\ \A d \in Consumers \ {c} : open'[d] <=> open[d]
  BY <1>1, Opens
<1>7. ConsumersOK' /\ hand' = hand /\ step' = step
  <2>1. \A d \in Consumers : Room(held[d], hand[d], step[d])
    BY <1>2 DEF ConsumersOK
  <2>2. \A d \in Consumers : Room(held'[d], hand[d], step[d])
    <3> SUFFICES ASSUME NEW d \in Consumers PROVE Room(held'[d], hand[d], step[d])
      OBVIOUS
    <3>1. Room(held[d], hand[d], step[d])
      BY <2>1
    <3>2. CASE d = c
      BY <1>4, <3>1, <3>2 DEF Room
    <3>3. CASE d # c
      BY <1>4, <3>1, <3>3
    <3> QED BY <3>2, <3>3
  <2>3. hand' = hand /\ step' = step
    BY <1>1
  <2> QED BY <1>2, <1>4, <1>5, <2>2, <2>3, Zenon DEF ConsumersOK
<1>8. TypeOK'
  <2>1. FilesOK' /\ retry' = retry /\ dlq' = dlq
    BY <1>1, QuietTypes
  <2> QED BY <1>3, <1>6, <1>7, <2>1, TypeParts, Zenon
<1>9. Live' = Live
  <2>1. PICK others : /\ Delivered = others \cup Range(held[c])
                      /\ Delivered' = others \cup Range(held'[c])
    BY <1>4, Split
  <2>2. Range(held'[c]) = {}
    BY <1>4, RangeShort
  <2>3. Delayed' = Delayed
    BY <1>1 DEF Delayed
  <2> QED BY <1>3, <2>1, <2>2, <2>3 DEF Live
<1>10. CopyInv' /\ LostInv' /\ Stable
  <2>1. InHand' \subseteq InHand \cup Live /\ Range(dlq') = Range(dlq) /\ published' = published
    BY <1>1 DEF InHand
  <2>2. UNCHANGED files
    BY <1>1
  <2> QED BY <1>9, <2>1, <2>2, SameFiles, SameCopies
<1>11. LinkInv'
  <2>1. LinkOf(c)'
    <3>1. LinkOf(c) /\ (rows \subseteq rows') /\ hand' = hand /\ step' = step
      BY <1>7, <1>10 DEF LinkInv, Stable
    <3>2. \A x \in Copies : hand'[c] = <<x>> /\ step'[c] = "effect" /\ x.id \in Normal
                            => x.id \in rows'
      BY <3>1 DEF LinkOf
    <3> QED BY <1>4, <1>5, <1>6, <3>2, Zenon DEF LinkOf, Line
  <2> QED BY <1>4, <1>5, <1>6, <1>7, <1>10, <2>1, OtherLinks
<1>12. Flow
  <2>1. UNCHANGED files /\ dlq' = dlq
    BY <1>1
  <2> QED BY <1>9, <2>1, SameFiles DEF Flow, SameQueues
<1> QED BY <1>8, <1>10, <1>11, <1>12
-----------------------------------------------------------------------------
\* Work that is done stays done.
LEMMA DoneGrows ==
  ASSUME TypeOK, rows \subseteq rows', processed \subseteq processed',
         \A m \in Msgs : effects[m] > 0 => effects'[m] > 0,
         \A m : (\E i \in 1 .. Len(log) : log[i] = m)
                  => \E i \in 1 .. Len(log') : log'[i] = m
  PROVE  \A m : Done(m) => Done(m)'
<1> SUFFICES ASSUME NEW m, Done(m) PROVE Done(m)'
  OBVIOUS
<1>1. CASE m \in Normal /\ m \in rows /\ effects[m] > 0
  <2>1. effects'[m] > 0
    BY <1>1 DEF Msgs
  <2> QED BY <1>1, <2>1 DEF Done
<1>2. CASE m \in Idempotent /\ m \in processed
  BY <1>2 DEF Done
<1>3. CASE m \in Ordered /\ \E i \in 1 .. Len(log) : log[i] = m
  BY <1>3 DEF Done
<1>4. CASE m \in Unknown
  BY <1>4 DEF Done
<1> QED BY <1>1, <1>2, <1>3, <1>4 DEF Done

\* A step that does the work of m does no other.
LEMMA OneDone ==
  ASSUME NEW m \in Msgs, rows' \subseteq rows \cup {m}, processed' \subseteq processed \cup {m},
         \A k \in Msgs \ {m} : effects'[k] = effects[k],
         \A k : k # m /\ (\E i \in 1 .. Len(log') : log'[i] = k)
                  => \E i \in 1 .. Len(log) : log[i] = k
  PROVE  \A k : k # m /\ Done(k)' => Done(k)
<1> SUFFICES ASSUME NEW k, k # m, Done(k)' PROVE Done(k)
  OBVIOUS
<1>1. CASE k \in Normal /\ k \in rows' /\ effects'[k] > 0
  <2>1. effects'[k] = effects[k]
    BY <1>1 DEF Msgs
  <2> QED BY <1>1, <2>1 DEF Done
<1>2. CASE k \in Idempotent /\ k \in processed'
  BY <1>2 DEF Done
<1>3. CASE k \in Ordered /\ \E i \in 1 .. Len(log') : log'[i] = k
  BY <1>3 DEF Done
<1>4. CASE k \in Unknown
  BY <1>4 DEF Done
<1> QED BY <1>1, <1>2, <1>3, <1>4 DEF Done

\* One more line of the side effects.
LEMMA MoreEffects ==
  ASSUME TypeOK, NEW m \in Msgs, AppendEffect(m)
  PROVE  /\ effects' \in [Msgs -> 0 .. Many] /\ effects'[m] > 0
         /\ \A k \in Msgs \ {m} : effects'[k] = effects[k]
         /\ \A k \in Msgs : effects[k] > 0 => effects'[k] > 0
<1>1. effects \in [Msgs -> 0 .. Many] /\ Many = 2
  BY DEF TypeOK, Many
<1>2. effects[m] \in 0 .. 2
  BY <1>1
<1>3. PICK k \in 1 .. 2 : effects' = [effects EXCEPT ![m] = k]
  <2>1. CASE effects[m] < 2
    <3>1. effects' = [effects EXCEPT ![m] = effects[m] + 1] /\ effects[m] + 1 \in 1 .. 2
      BY <1>1, <1>2, <2>1 DEF AppendEffect
    <3> QED BY <3>1
  <2>2. CASE ~(effects[m] < 2)
    <3>1. effects' = [effects EXCEPT ![m] = effects[m]] /\ effects[m] \in 1 .. 2
      BY <1>1, <1>2, <2>2 DEF AppendEffect
    <3> QED BY <3>1
  <2> QED BY <2>1, <2>2
<1>4. effects'[m] = k /\ \A d \in Msgs \ {m} : effects'[d] = effects[d]
  BY <1>1, <1>3
<1>5. effects' \in [Msgs -> 0 .. Many]
  BY <1>1, <1>3
<1> QED BY <1>3, <1>4, <1>5

\* A step of a process that is at work on a copy.
LEMMA AtWork ==
  ASSUME IInv, NEW c \in Consumers, step[c] \in {"work", "mark", "effect", "ack"}
  PROVE  \E x \in Copies :
           /\ hand[c] = <<x>> /\ Head(hand[c]) = x /\ Id(c) = x.id /\ x.id \in Msgs
           /\ x \in InHand /\ x.attempt \in 0 .. 3
           /\ open[c] => held[c] = <<x>>
           /\ step[c] # "ack" => wire[c] = <<>>
<1>1. PICK x \in Copies : hand[c] = <<x>> /\ Head(hand[c]) = x /\ Id(c) = x.id
  BY Slots DEF IInv
<1>2. Range(hand[c]) = {x}
  BY <1>1, RangeShort
<1>3. x \in InHand
  BY <1>2 DEF InHand
<1>4. x.id \in Msgs /\ x.attempt \in 0 .. 3
  BY <1>3, CopyParts DEF IInv, CopyInv
<1>5. LinkOf(c)
  BY DEF IInv, LinkInv
<1>6. open[c] => held[c] = <<x>>
  BY <1>1, <1>5, RangeShort, Zenon DEF LinkOf
<1>7. step[c] # "ack" => wire[c] = <<>>
  BY <1>5 DEF LinkOf, Line
<1> QED BY <1>1, <1>3, <1>4, <1>6, <1>7

\* The process goes on with its copy.
LEMMA GoOn ==
  ASSUME IInv, NEW c \in Consumers, NEW there \in {"mark", "effect", "ack"}, Go(c, there),
         step[c] \in {"work", "mark", "effect"}, FilesOK',
         \A k : Done(k) => Done(k)', tried' = tried, rows \subseteq rows',
         NEW m \in Msgs, Id(c) = m, there = "ack" => m \notin Poison /\ Done(m)',
         there = "effect" /\ m \in Normal => m \in rows'
  PROVE  IInv' /\ SameQueues
<1> USE DEF IInv
<1>1. /\ step' = [step EXCEPT ![c] = there]
      /\ UNCHANGED <<orders, retry, dlq, open, held, wire, hand, published, faults, kills>>
  BY DEF Go, broker
<1>2. ConsumersOK
  BY TypeParts
<1>3. /\ step' \in [Consumers -> Steps] /\ step'[c] = there
      /\ \A d \in Consumers \ {c} : step'[d] = step[d]
  BY <1>1, <1>2 DEF ConsumersOK, Steps
<1>4. held' = held /\ wire' = wire /\ hand' = hand /\ open' = open
  BY <1>1
<1>5. ConsumersOK'
  <2>1. \A d \in Consumers : Room(held[d], hand[d], step'[d])
    <3> SUFFICES ASSUME NEW d \in Consumers PROVE Room(held[d], hand[d], step'[d])
      OBVIOUS
    <3>1. Room(held[d], hand[d], step[d])
      BY <1>2 DEF ConsumersOK
    <3> QED BY <1>3, <3>1 DEF Room
  <2> QED BY <1>2, <1>3, <1>4, <2>1, Zenon DEF ConsumersOK
<1>6. TypeOK'
  <2>1. orders' = orders /\ retry' = retry /\ dlq' = dlq /\ faults' = faults /\ kills' = kills
    BY <1>1
  <2> QED BY <1>4, <1>5, <2>1, TypeParts, Zenon
<1>7. CopyInv' /\ LostInv' /\ Stable /\ SameQueues
  <2>1. Live' = Live
    BY <1>1 DEF Live, Delayed, Delivered
  <2>2. InHand' \subseteq InHand \cup Live /\ Range(dlq') = Range(dlq) /\ published' = published
    BY <1>1 DEF InHand
  <2> QED BY <2>1, <2>2, SameCopies DEF SameQueues
<1>8. LinkInv'
  <2>1. PICK x \in Copies : hand[c] = <<x>> /\ Id(c) = x.id /\ wire[c] = <<>>
    BY AtWork
  <2>2. LinkOf(c)
    BY DEF LinkInv
  <2>3. \A z \in Copies : hand[c] = <<z>> => z = x
    BY <2>1
  <2>4. there = "ack" => Answered(x)'
    BY <2>1 DEF Answered
  <2>5. there = "effect" /\ x.id \in Normal => x.id \in rows'
    BY <2>1
  <2>6. LinkOf(c)'
    <3>1. /\ open'[c] \/ (held'[c] = <<>> /\ wire'[c] = <<>>)
          /\ open'[c] /\ hand'[c] # <<>> => held'[c] = hand'[c]
      BY <1>4, <2>2, Zenon DEF LinkOf
    <3>2. Line(c)'
      BY <1>4, <2>1 DEF Line
    <3>3. \A z \in Copies : hand'[c] = <<z>> =>
            /\ open'[c] /\ step'[c] = "ack" /\ wire'[c] = <<>> => Answered(z)'
            /\ step'[c] = "effect" /\ z.id \in Normal => z.id \in rows'
      BY <1>3, <1>4, <2>3, <2>4, <2>5
    <3> QED BY <3>1, <3>2, <3>3, Zenon DEF LinkOf
  <2> QED BY <1>3, <1>4, <1>7, <2>6, OtherLinks
<1> QED BY <1>6, <1>7, <1>8

\* The process ends.
LEMMA Ends ==
  ASSUME IInv, NEW c \in Consumers, Exit(c), FilesOK', faults' \in 0 .. MaxFaults,
         kills' \in 0 .. faults',
         \A m : Done(m) => Done(m)', tried' = tried, rows \subseteq rows'
  PROVE  IInv' /\ SameQueues
<1> USE DEF IInv
<1>1. /\ step' = [step EXCEPT ![c] = "down"] /\ hand' = [hand EXCEPT ![c] = <<>>]
      /\ UNCHANGED <<orders, retry, dlq, open, held, wire, published>>
  BY DEF Exit, broker
<1>2. ConsumersOK
  BY TypeParts
<1>3. /\ step' \in [Consumers -> Steps] /\ step'[c] = "down"
      /\ \A d \in Consumers \ {c} : step'[d] = step[d]
  BY <1>1, <1>2 DEF ConsumersOK, Steps
<1>4. held' = held /\ wire' = wire /\ open' = open
  BY <1>1
<1>5. /\ hand' \in [Consumers -> Seq(Copies)] /\ hand'[c] = <<>>
      /\ \A d \in Consumers \ {c} : hand'[d] = hand[d]
  BY <1>1, <1>2 DEF ConsumersOK
<1>6. ConsumersOK'
  <2>1. \A d \in Consumers : Room(held[d], hand'[d], step'[d])
    <3> SUFFICES ASSUME NEW d \in Consumers PROVE Room(held[d], hand'[d], step'[d])
      OBVIOUS
    <3>1. Room(held[d], hand[d], step[d])
      BY <1>2 DEF ConsumersOK
    <3>2. CASE d = c
      <4>1. Len(hand'[c]) = 0
        BY <1>5
      <4> QED BY <1>3, <1>5, <3>1, <3>2, <4>1 DEF Room
    <3>3. CASE d # c
      BY <1>3, <1>5, <3>1, <3>3
    <3> QED BY <3>2, <3>3
  <2> QED BY <1>2, <1>3, <1>4, <1>5, <2>1, Zenon DEF ConsumersOK
<1>7. TypeOK'
  <2>1. orders' = orders /\ retry' = retry /\ dlq' = dlq
    BY <1>1
  <2> QED BY <1>4, <1>6, <2>1, TypeParts, Zenon
<1>8. CopyInv' /\ LostInv' /\ Stable /\ SameQueues
  <2>1. Live' = Live
    BY <1>1 DEF Live, Delayed, Delivered
  <2>2. Range(hand'[c]) = {}
    BY <1>5, RangeShort
  <2>3. InHand' \subseteq InHand \cup Live
    BY <1>5, <2>2 DEF InHand
  <2>4. Range(dlq') = Range(dlq) /\ published' = published
    BY <1>1
  <2> QED BY <2>1, <2>3, <2>4, SameCopies DEF SameQueues
<1>9. LinkInv'
  <2>1. LinkOf(c)
    BY DEF LinkInv
  <2>2. \A z \in Copies : hand'[c] # <<z>>
    BY <1>5, RangeShort
  <2>3. \A x \in Copies : (Answered(x) => Answered(x)') /\ \A y : Follows(y, x) => Follows(y, x)'
    BY <1>8, AnsweredStays
  <2>4. Line(c)'
    <3>1. CASE wire[c] = <<>>
      BY <1>4, <3>1 DEF Line
    <3>2. ASSUME NEW x \in Copies, NEW y \in Copies, held[c] = <<x>>, Follows(y, x),
                 wire[c] = <<Send(y)>> \/ wire[c] = <<Send(y), Ack>>
          PROVE  Line(c)'
      BY <1>3, <1>4, <2>3, <3>2, Zenon DEF Line
    <3>3. ASSUME NEW x \in Copies, held[c] = <<x>>, Answered(x), wire[c] = <<Ack>>
          PROVE  Line(c)'
      BY <1>3, <1>4, <2>3, <3>3, Zenon DEF Line
    <3> QED BY <2>1, <3>1, <3>2, <3>3, Zenon DEF Line, LinkOf
  <2>5. /\ open'[c] \/ (held'[c] = <<>> /\ wire'[c] = <<>>)
        /\ open'[c] /\ hand'[c] # <<>> => held'[c] = hand'[c]
    BY <1>4, <1>5, <2>1, Zenon DEF LinkOf
  <2>6. LinkOf(c)'
    BY <2>2, <2>4, <2>5, Zenon DEF LinkOf
  <2> QED BY <1>3, <1>4, <1>5, <1>8, <2>6, OtherLinks
<1> QED BY <1>7, <1>8, <1>9
-----------------------------------------------------------------------------
\* on_message, step by step: what is durable before the next step.
LEMMA WorkSteps ==
  ASSUME IInv, NEW c \in Consumers,
         WriteRow(c) \/ LogEffect(c) \/ Check(c) \/ Mark(c) \/ Complete(c) \/ Skip(c)
  PROVE  IInv' /\ Flow
<1>1. PICK x \in Copies : /\ hand[c] = <<x>> /\ Head(hand[c]) = x /\ Id(c) = x.id
                          /\ x.id \in Msgs /\ x.id \in Range(published)
  <2>1. step[c] \in {"work", "mark", "effect"}
    BY DEF WriteRow, LogEffect, Check, Mark, Complete, Skip, At
  <2> QED BY <2>1, AtWork DEF IInv, CopyInv, Earned
<1> DEFINE m == x.id
<1>2. TypeOK /\ FilesOK /\ m \in Msgs /\ Id(c) = m /\ m \in Range(published)
  BY <1>1, TypeParts DEF IInv
<1>3. CASE WriteRow(c)
  <2>1. /\ rows' = rows \cup {m} /\ m \in Normal /\ step[c] = "work" /\ Go(c, "effect")
        /\ published' = published
        /\ effects' = effects /\ processed' = processed /\ log' = log /\ tried' = tried
    BY <1>1, <1>3 DEF WriteRow, At, Go
  <2>2. FilesOK' /\ rows \subseteq rows'
    BY <1>2, <2>1 DEF FilesOK
  <2>3. \A k : Done(k) => Done(k)'
    BY <1>2, <2>1, <2>2, DoneGrows
  <2>4. \A k : k # m /\ Done(k)' => Done(k)
    BY <1>2, <2>1, OneDone
  <2> HIDE DEF m
  <2>5. IInv' /\ SameQueues
    BY <1>2, <2>1, <2>2, <2>3, GoOn
  <2> QED BY <1>2, <2>3, <2>4, <2>5 DEF Flow, Works
<1>4. CASE LogEffect(c)
  <2>1. /\ AppendEffect(m) /\ m \in Normal /\ step[c] = "effect" /\ Go(c, "ack")
        /\ published' = published
        /\ rows' = rows /\ processed' = processed /\ log' = log /\ tried' = tried
    BY <1>1, <1>4 DEF LogEffect, At, Go
  <2>2. /\ effects' \in [Msgs -> 0 .. Many] /\ effects'[m] > 0
        /\ \A k \in Msgs : effects[k] > 0 => effects'[k] > 0
    BY <1>2, <2>1, MoreEffects
  <2>3. FilesOK'
    BY <1>2, <2>1, <2>2 DEF FilesOK
  <2>4. \A k : Done(k) => Done(k)'
    BY <1>2, <2>1, <2>2, DoneGrows
  <2>5. m \in rows
    BY <1>1, <2>1 DEF IInv, LinkInv, LinkOf
  <2>6. m \notin Poison /\ Done(m)'
    BY <2>1, <2>2, <2>5, TypesAssumption DEF Done
  <2>7. \A k : k # m /\ Done(k)' => Done(k)
    <3>1. \A k \in Msgs \ {m} : effects'[k] = effects[k]
      BY <1>2, <2>1, MoreEffects
    <3> QED BY <1>2, <2>1, <3>1, OneDone
  <2> HIDE DEF m
  <2>8. IInv' /\ SameQueues
    BY <1>2, <2>1, <2>3, <2>4, <2>6, GoOn
  <2> QED BY <1>2, <2>4, <2>7, <2>8 DEF Flow, Works
<1>5. CASE Check(c)
  <2>1. PICK there \in {"mark", "ack"} :
          Go(c, there) /\ (there = "ack" => m \in processed)
    BY <1>1, <1>5 DEF Check
  <2>2. m \in Idempotent /\ step[c] = "work" /\ UNCHANGED files /\ published' = published
    BY <1>1, <1>5 DEF Check, At, Go
  <2>3. FilesOK' /\ SameWork /\ (\A k : Done(k) => Done(k)') /\ tried' = tried /\ rows' = rows
    BY <1>2, <2>2, QuietTypes, SameFiles DEF files
  <2>4. there = "ack" => m \notin Poison /\ Done(m)'
    <3>1. there = "ack" => Done(m)
      BY <2>1, <2>2 DEF Done
    <3> QED BY <2>2, <2>3, <3>1, TypesAssumption
  <2> HIDE DEF m
  <2>5. IInv' /\ SameQueues
    BY <1>2, <2>1, <2>2, <2>3, <2>4, GoOn
  <2> QED BY <2>3, <2>5 DEF Flow
<1>6. CASE Mark(c)
  <2>1. /\ processed' = processed \cup {m} /\ m \in Idempotent /\ step[c] = "mark"
        /\ Go(c, "effect") /\ published' = published
        /\ rows' = rows /\ effects' = effects /\ log' = log /\ tried' = tried
    BY <1>1, <1>6 DEF Mark, At, Go
  <2>2. FilesOK' /\ processed \subseteq processed'
    BY <1>2, <2>1 DEF FilesOK
  <2>3. \A k : Done(k) => Done(k)'
    BY <1>2, <2>1, <2>2, DoneGrows
  <2>4. m \notin Normal
    BY <2>1, TypesAssumption
  <2>5. \A k : k # m /\ Done(k)' => Done(k)
    BY <1>2, <2>1, OneDone
  <2> HIDE DEF m
  <2>6. IInv' /\ SameQueues
    BY <1>2, <2>1, <2>2, <2>3, <2>4, GoOn
  <2> QED BY <1>2, <2>3, <2>5, <2>6 DEF Flow, Works
<1>7. CASE Complete(c)
  <2>1. /\ log' = Append(log, m) /\ m \in Ordered /\ step[c] = "work" /\ Go(c, "ack")
        /\ published' = published
        /\ rows' = rows /\ effects' = effects /\ processed' = processed /\ tried' = tried
    BY <1>1, <1>7 DEF Complete, At, Go
  <2>2. log \in Seq(Ordered)
    BY <1>2 DEF FilesOK
  <2>3. /\ log' \in Seq(Ordered) /\ Len(log') = Len(log) + 1 /\ Len(log) \in Nat
        /\ log'[Len(log) + 1] = m /\ \A i \in 1 .. Len(log) : log'[i] = log[i]
    BY <2>1, <2>2, AppendProperties, LenProperties
  <2>4. FilesOK'
    BY <1>2, <2>1, <2>3 DEF FilesOK
  <2>5. \A i \in 1 .. Len(log) : i \in 1 .. Len(log')
    BY <2>3
  <2>6. \A k : Done(k) => Done(k)'
    <3>1. \A k : (\E i \in 1 .. Len(log) : log[i] = k) => \E i \in 1 .. Len(log') : log'[i] = k
      BY <2>3, <2>5
    <3> QED BY <1>2, <2>1, <3>1, DoneGrows
  <2>7. m \notin Poison /\ Done(m)'
    <3>1. Len(log) + 1 \in 1 .. Len(log')
      BY <2>3
    <3>2. m \notin Poison
      BY <2>1, TypesAssumption
    <3> QED BY <2>1, <2>3, <3>1, <3>2 DEF Done
  <2>8. \A k : k # m /\ Done(k)' => Done(k)
    <3>1. ASSUME NEW k, k # m, \E i \in 1 .. Len(log') : log'[i] = k
          PROVE  \E i \in 1 .. Len(log) : log[i] = k
      <4>1. PICK i \in 1 .. Len(log') : log'[i] = k
        BY <3>1
      <4>2. i # Len(log) + 1
        BY <2>3, <3>1, <4>1
      <4>3. i \in 1 .. Len(log)
        BY <2>3, <4>2
      <4> QED BY <2>3, <4>1, <4>3
    <3> QED BY <1>2, <2>1, <3>1, OneDone
  <2> HIDE DEF m
  <2>9. IInv' /\ SameQueues
    BY <1>2, <2>1, <2>4, <2>6, <2>7, GoOn
  <2> QED BY <1>2, <2>6, <2>8, <2>9 DEF Flow, Works
<1>8. CASE Skip(c)
  <2>1. /\ m \in Unknown /\ step[c] = "work" /\ UNCHANGED files /\ published' = published
        /\ Go(c, "ack")
    BY <1>1, <1>8 DEF Skip, At, Go
  <2>2. FilesOK' /\ SameWork /\ (\A k : Done(k) => Done(k)') /\ tried' = tried /\ rows' = rows
    BY <1>2, <2>1, QuietTypes, SameFiles DEF files
  <2>3. m \notin Poison /\ Done(m)'
    BY <2>1, TypesAssumption DEF Done
  <2> HIDE DEF m
  <2>4. IInv' /\ SameQueues
    BY <1>2, <2>1, <2>2, <2>3, GoOn
  <2> QED BY <2>2, <2>4 DEF Flow
<1> QED BY <1>3, <1>4, <1>5, <1>6, <1>7, <1>8

\* The process ends by itself, on its connection, or from outside.
LEMMA EndSteps ==
  ASSUME IInv, NEW c \in Consumers, EffectAndExit(c) \/ ConnectionError(c) \/ Kill(c)
  PROVE  IInv' /\ Flow
<1>1. TypeOK /\ FilesOK /\ Exit(c) /\ published' = published
  BY TypeParts DEF IInv, EffectAndExit, ConnectionError, Kill, Exit
<1>2. faults' \in 0 .. MaxFaults /\ kills' \in 0 .. faults'
  <2>1. faults \in 0 .. MaxFaults /\ kills \in 0 .. faults
    BY DEF IInv, TypeOK
  <2> QED BY <2>1, ConsumersAssumption DEF EffectAndExit, ConnectionError, Kill, Fault
<1>3. CASE UNCHANGED files
  <2>1. FilesOK' /\ SameWork /\ (\A k : Done(k) => Done(k)') /\ tried' = tried /\ rows' = rows
    BY <1>1, <1>3, QuietTypes, SameFiles DEF files
  <2>2. IInv' /\ SameQueues
    BY <1>1, <1>2, <2>1, Ends
  <2> QED BY <2>1, <2>2 DEF Flow
<1>4. CASE EffectAndExit(c)
  <2>1. PICK x \in Copies : Id(c) = x.id /\ x.id \in Msgs /\ x.id \in Range(published)
    <3>1. step[c] \in {"work", "effect"}
      BY <1>4 DEF EffectAndExit, At
    <3> QED BY <3>1, AtWork DEF IInv, CopyInv, Earned
  <2>2. PICK m \in Msgs : m = Id(c) /\ m \in Range(published)
    BY <2>1
  <2>3. /\ AppendEffect(m)
        /\ rows' = rows /\ processed' = processed /\ log' = log /\ tried' = tried
    BY <1>4, <2>2 DEF EffectAndExit
  <2>4. /\ effects' \in [Msgs -> 0 .. Many]
        /\ \A k \in Msgs \ {m} : effects'[k] = effects[k]
        /\ \A k \in Msgs : effects[k] > 0 => effects'[k] > 0
    BY <1>1, <2>3, MoreEffects
  <2>5. FilesOK'
    BY <1>1, <2>3, <2>4 DEF FilesOK
  <2>6. \A k : Done(k) => Done(k)'
    BY <1>1, <2>3, <2>4, DoneGrows
  <2>7. \A k : k # m /\ Done(k)' => Done(k)
    BY <2>3, <2>4, OneDone
  <2>8. IInv' /\ SameQueues
    BY <1>1, <1>2, <2>3, <2>5, <2>6, Ends
  <2> QED BY <2>2, <2>6, <2>7, <2>8 DEF Flow, Works
<1> QED BY <1>3, <1>4 DEF ConnectionError, Kill

\* The process sends a frame, or comes back: what changes at its connection.
LEMMA RestartStep ==
  ASSUME IInv, NEW c \in Consumers, Restart(c)
  PROVE  IInv' /\ Flow
<1> USE DEF IInv
<1>1. /\ step[c] = "down" /\ ~open[c]
      /\ step' = [step EXCEPT ![c] = "idle"] /\ open' = [open EXCEPT ![c] = TRUE]
      /\ UNCHANGED <<orders, retry, dlq, held, wire, hand, files, published, faults, kills>>
  BY DEF Restart
<1>2. ConsumersOK
  BY TypeParts
<1>3. /\ step' \in [Consumers -> Steps] /\ step'[c] = "idle"
      /\ \A d \in Consumers \ {c} : step'[d] = step[d]
  BY <1>1, <1>2 DEF ConsumersOK, Steps
<1>4. held' = held /\ wire' = wire /\ hand' = hand
  BY <1>1
<1>5. /\ open' \in [Consumers -> BOOLEAN] /\ open'[c]
      /\ \A d \in Consumers \ {c} : open'[d] <=> open[d]
  BY <1>1, Opens
<1>6. ConsumersOK'
  <2>1. \A d \in Consumers : Room(held[d], hand[d], step'[d])
    <3> SUFFICES ASSUME NEW d \in Consumers PROVE Room(held[d], hand[d], step'[d])
      OBVIOUS
    <3>1. Room(held[d], hand[d], step[d])
      BY <1>2 DEF ConsumersOK
    <3> QED BY <1>1, <1>3, <3>1 DEF Room
  <2> QED BY <1>2, <1>3, <1>4, <2>1, Zenon DEF ConsumersOK
<1>7. TypeOK'
  <2>1. /\ FilesOK' /\ orders' = orders /\ retry' = retry /\ dlq' = dlq
        /\ faults' = faults /\ kills' = kills
    BY <1>1, QuietTypes
  <2> QED BY <1>5, <1>6, <2>1, TypeParts, Zenon
<1>8. CopyInv' /\ LostInv' /\ Stable
  <2>1. Live' = Live
    BY <1>1 DEF Live, Delayed, Delivered
  <2>2. InHand' \subseteq InHand \cup Live /\ Range(dlq') = Range(dlq) /\ published' = published
    BY <1>1 DEF InHand
  <2>3. UNCHANGED files
    BY <1>1
  <2> QED BY <2>1, <2>2, <2>3, SameFiles, SameCopies
<1>9. LinkInv'
  <2>1. hand'[c] = <<>> /\ wire'[c] = <<>>
    <3>1. LinkOf(c) /\ hand[c] = <<>>
      BY <1>1, Slots DEF LinkInv
    <3>2. wire[c] = <<>>
      BY <1>1, <3>1, Zenon DEF LinkOf
    <3> QED BY <1>4, <3>1, <3>2
  <2>2. \A z \in Copies : hand'[c] # <<z>>
    BY <2>1, RangeShort
  <2>3. LinkOf(c)'
    BY <1>5, <2>1, <2>2, Zenon DEF LinkOf, Line
  <2> QED BY <1>3, <1>4, <1>5, <1>8, <2>3, OtherLinks
<1>10. Flow
  <2>1. UNCHANGED files /\ dlq' = dlq
    BY <1>1
  <2>2. Live' = Live
    BY <1>1 DEF Live, Delayed, Delivered
  <2> QED BY <2>1, <2>2, SameFiles DEF Flow, SameQueues
<1> QED BY <1>7, <1>8, <1>9, <1>10
\* The process sends a frame; only the connection is left to look at.
LEMMA Sends ==
  ASSUME IInv, NEW c \in Consumers, NEW w \in Seq(Frames), NEW s \in Steps,
         NEW h \in Seq(Copies), Len(h) <= 1, h = <<>> <=> s \in {"down", "idle"},
         Range(h) \subseteq InHand,
         wire' = [wire EXCEPT ![c] = w], step' = [step EXCEPT ![c] = s],
         hand' = [hand EXCEPT ![c] = h], broker' = broker,
         published' = published, faults' = faults, kills' = kills, FilesOK',
         \A m : Done(m) => Done(m)',
         \A m \in Msgs : tried[m] \subseteq tried'[m], rows' = rows
  PROVE  /\ TypeOK' /\ CopyInv' /\ LostInv' /\ Stable /\ SameQueues
         /\ wire'[c] = w /\ step'[c] = s /\ hand'[c] = h
         /\ held'[c] = held[c] /\ (open'[c] <=> open[c])
         /\ \A d \in Consumers \ {c} :
              /\ (open'[d] <=> open[d]) /\ held'[d] = held[d] /\ hand'[d] = hand[d]
              /\ wire'[d] = wire[d] /\ step'[d] = step[d]
<1> USE DEF IInv
<1>1. ConsumersOK
  BY TypeParts
<1>2. orders' = orders /\ retry' = retry /\ dlq' = dlq /\ open' = open /\ held' = held
  BY DEF broker
<1>3. /\ step' \in [Consumers -> Steps] /\ step'[c] = s
      /\ \A d \in Consumers \ {c} : step'[d] = step[d]
  BY <1>1 DEF ConsumersOK
<1>4. /\ hand' \in [Consumers -> Seq(Copies)] /\ hand'[c] = h
      /\ \A d \in Consumers \ {c} : hand'[d] = hand[d]
  BY <1>1 DEF ConsumersOK
<1>5. /\ wire' \in [Consumers -> Seq(Frames)] /\ wire'[c] = w
      /\ \A d \in Consumers \ {c} : wire'[d] = wire[d]
  BY <1>1 DEF ConsumersOK
<1>6. ConsumersOK'
  <2>1. \A d \in Consumers : Room(held[d], hand'[d], step'[d])
    <3> SUFFICES ASSUME NEW d \in Consumers PROVE Room(held[d], hand'[d], step'[d])
      OBVIOUS
    <3>1. Room(held[d], hand[d], step[d])
      BY <1>1 DEF ConsumersOK
    <3>2. CASE d = c
      BY <1>3, <1>4, <3>1, <3>2 DEF Room
    <3>3. CASE d # c
      BY <1>3, <1>4, <3>1, <3>3
    <3> QED BY <3>2, <3>3
  <2> QED BY <1>1, <1>2, <1>3, <1>4, <1>5, <2>1, Zenon DEF ConsumersOK
<1>7. TypeOK'
  BY <1>2, <1>6, TypeParts, Zenon
<1>8. CopyInv' /\ LostInv' /\ Stable /\ SameQueues
  <2>1. Live' = Live
    BY <1>2 DEF Live, Delayed, Delivered
  <2>2. InHand' \subseteq InHand \cup Live
    BY <1>4 DEF InHand
  <2>3. Range(dlq') = Range(dlq)
    BY <1>2
  <2> QED BY <2>1, <2>2, <2>3, SameCopies DEF SameQueues
<1> QED BY <1>2, <1>3, <1>4, <1>5, <1>7, <1>8

\* A failed attempt: the copy that follows is sent, the ack is not yet.
LEMMA RetryStep ==
  ASSUME IInv, NEW c \in Consumers, RetryOrBury(c)
  PROVE  IInv' /\ Flow
<1>1. step[c] = "work" /\ open[c]
  BY DEF RetryOrBury, At
<1>2. PICK x \in Copies : /\ hand[c] = <<x>> /\ Head(hand[c]) = x /\ Id(c) = x.id
                          /\ x.id \in Msgs /\ x \in InHand /\ x.attempt \in 0 .. 3
                          /\ held[c] = <<x>> /\ wire[c] = <<>>
  BY <1>1, AtWork, Zenon
<1>3. PICK y \in Copies : y = Resent(c) /\ y.id = x.id /\ y.attempt = x.attempt + 1
  <2>1. Target(NextAttempt(c)) = x.attempt + 1 /\ x.attempt + 1 \in 0 .. Final
    BY <1>2 DEF Target, NextAttempt, Final
  <2>2. Resent(c) = [id |-> x.id, attempt |-> x.attempt + 1]
    BY <1>2, <2>1 DEF Resent
  <2> QED BY <1>2, <2>1, <2>2 DEF Copies
<1>4. PICK f \in Frames : f = Send(y)
  BY CopyParts
<1>5. PICK w \in Seq(Frames) : w = <<Send(y)>>
  <2>1. <<Send(y)>> \in Seq(Frames)
    BY <1>4
  <2> QED BY <2>1
<1>6. /\ x.id \in Poison /\ wire' = [wire EXCEPT ![c] = w]
      /\ step' = [step EXCEPT ![c] = "ack"]
      /\ tried' = [tried EXCEPT ![x.id] = tried[x.id] \cup {x.attempt}]
      /\ UNCHANGED <<hand, rows, effects, processed, log, published, faults, kills>>
      /\ broker' = broker
  <2>1. Append(<<>>, f) = <<f>>
    BY RangeShort
  <2>2. Append(wire[c], Send(Resent(c))) = w
    BY <1>2, <1>3, <1>4, <1>5, <2>1
  <2> QED BY <1>2, <2>2 DEF RetryOrBury, At
<1>7. FilesOK /\ TypeOK /\ ConsumersOK
  BY TypeParts DEF IInv
<1>8. /\ tried' \in [Msgs -> SUBSET (0 .. 3)] /\ x.attempt \in tried'[x.id]
      /\ \A m \in Msgs : tried[m] \subseteq tried'[m]
  BY <1>2, <1>6, <1>7 DEF FilesOK
<1>9. FilesOK'
  BY <1>6, <1>7, <1>8 DEF FilesOK
<1>10. \A m : Done(m) => Done(m)'
  BY <1>6 DEF Done
<1>11. PICK h \in Seq(Copies) : h = <<x>> /\ Len(h) = 1 /\ h # <<>> /\ Range(h) \subseteq InHand
  BY <1>2, RangeShort
<1>12. hand' = [hand EXCEPT ![c] = h]
  BY <1>2, <1>6, <1>7, <1>11 DEF ConsumersOK
<1>13. /\ TypeOK' /\ CopyInv' /\ LostInv' /\ Stable /\ SameQueues
       /\ wire'[c] = w /\ step'[c] = "ack" /\ hand'[c] = h
       /\ held'[c] = held[c] /\ (open'[c] <=> open[c])
       /\ \A d \in Consumers \ {c} :
            /\ (open'[d] <=> open[d]) /\ held'[d] = held[d] /\ hand'[d] = hand[d]
            /\ wire'[d] = wire[d] /\ step'[d] = step[d]
  <2>1. "ack" \in Steps /\ Len(h) <= 1 /\ (h = <<>> <=> "ack" \in {"down", "idle"})
    BY <1>11 DEF Steps
  <2>2. /\ wire' = [wire EXCEPT ![c] = w] /\ step' = [step EXCEPT ![c] = "ack"]
        /\ broker' = broker /\ published' = published /\ rows' = rows
        /\ faults' = faults /\ kills' = kills
        /\ Range(h) \subseteq InHand
        /\ \A m \in Msgs : tried[m] \subseteq tried'[m]
    BY <1>6, <1>8, <1>11
  <2> QED BY <1>9, <1>10, <1>12, <2>1, <2>2, Sends
<1>14. LinkOf(c)'
  <2>1. Follows(y, x)'
    BY <1>3, <1>6, <1>8 DEF Follows
  <2>2. Line(c)'
    BY <1>2, <1>5, <1>13, <2>1, Zenon DEF Line
  <2>3. wire'[c] # <<>>
    BY <1>4, <1>5, <1>13, RangeShort
  <2>4. open'[c] /\ held'[c] = hand'[c] /\ step'[c] # "effect"
    BY <1>1, <1>2, <1>11, <1>13
  <2> QED BY <2>2, <2>3, <2>4, Zenon DEF LinkOf
<1>15. LinkInv'
  BY <1>13, <1>14, OtherLinks DEF IInv
<1>16. Flow
  <2>1. SameWork
    BY <1>6 DEF SameWork, Done
  <2> QED BY <1>13, <2>1 DEF Flow
<1> QED BY <1>13, <1>15, <1>16 DEF IInv

\* The ack: after the copy that follows, or for work that is durable.
LEMMA SendAckStep ==
  ASSUME IInv, NEW c \in Consumers, SendAck(c)
  PROVE  IInv' /\ Flow
<1>1. step[c] = "ack" /\ open[c] /\ UNCHANGED files
  BY DEF SendAck
<1>2. PICK x \in Copies : hand[c] = <<x>> /\ held[c] = <<x>>
  BY <1>1, AtWork
<1>3. LinkOf(c) /\ Line(c)
  BY DEF IInv, LinkInv, LinkOf
<1>4. Ack \in Frames
  BY CopyParts
<1>5. PICK w \in Seq(Frames) :
        /\ w = Append(wire[c], Ack)
        /\ \/ w = <<Ack>> /\ Answered(x)
           \/ \E y \in Copies : w = <<Send(y), Ack>> /\ Follows(y, x)
  <2>1. CASE wire[c] = <<>>
    <3>1. Answered(x)
      BY <1>1, <1>2, <1>3, <2>1 DEF LinkOf
    <3>2. Append(<<>>, Ack) = <<Ack>> /\ <<Ack>> \in Seq(Frames)
      BY <1>4, RangeShort
    <3>3. Append(wire[c], Ack) = <<Ack>>
      BY <2>1, <3>2
    <3> QED BY <3>1, <3>2, <3>3
  <2>2. ASSUME NEW z \in Copies, NEW y \in Copies, held[c] = <<z>>, Follows(y, z),
               wire[c] = <<Send(y)>>
        PROVE  \E w \in Seq(Frames) :
                 /\ w = Append(wire[c], Ack)
                 /\ \/ w = <<Ack>> /\ Answered(x)
                    \/ \E u \in Copies : w = <<Send(u), Ack>> /\ Follows(u, x)
    <3>1. z = x
      BY <1>2, <2>2
    <3>2. Send(y) \in Frames
      BY CopyParts
    <3>3. <<Send(y), Ack>> \in Seq(Frames) /\ Append(<<Send(y)>>, Ack) = <<Send(y), Ack>>
      BY <1>4, <3>2, Pairs
    <3> QED BY <2>2, <3>1, <3>3, Zenon
  <2> QED BY <1>1, <1>3, <2>1, <2>2, Zenon DEF Line
<1>6. /\ wire' = [wire EXCEPT ![c] = w] /\ step' = [step EXCEPT ![c] = "idle"]
      /\ hand' = [hand EXCEPT ![c] = <<>>] /\ broker' = broker
      /\ published' = published /\ faults' = faults /\ kills' = kills
  BY <1>5 DEF SendAck
<1>7. /\ FilesOK' /\ (\A m : Done(m) => Done(m)') /\ rows' = rows
      /\ \A m \in Msgs : tried[m] \subseteq tried'[m]
  BY <1>1, <1>6, QuietTypes, SameFiles DEF files, IInv
<1>8. PICK h \in Seq(Copies) : h = <<>>
  <2>1. <<>> \in Seq(Copies)
    OBVIOUS
  <2> QED BY <2>1
<1>9. hand' = [hand EXCEPT ![c] = h]
  BY <1>6, <1>8
<1>10. /\ TypeOK' /\ CopyInv' /\ LostInv' /\ Stable /\ SameQueues
       /\ wire'[c] = w /\ step'[c] = "idle" /\ hand'[c] = h
       /\ held'[c] = held[c] /\ (open'[c] <=> open[c])
       /\ \A d \in Consumers \ {c} :
            /\ (open'[d] <=> open[d]) /\ held'[d] = held[d] /\ hand'[d] = hand[d]
            /\ wire'[d] = wire[d] /\ step'[d] = step[d]
  <2>1. "idle" \in Steps /\ Len(h) <= 1 /\ (h = <<>> <=> "idle" \in {"down", "idle"})
        /\ Range(h) \subseteq InHand
    <3>1. Len(h) = 0 /\ Range(h) = {}
      BY <1>8, RangeShort
    <3> QED BY <1>8, <3>1 DEF Steps
  <2> QED BY <1>6, <1>7, <1>9, <2>1, Sends
<1>11. LinkOf(c)'
  <2>1. (Answered(x) => Answered(x)') /\ \A y : Follows(y, x) => Follows(y, x)'
    BY <1>10, AnsweredStays
  <2>2. Line(c)'
    BY <1>2, <1>5, <1>10, <2>1, Zenon DEF Line
  <2>3. \A z \in Copies : hand'[c] # <<z>>
    BY <1>8, <1>10, RangeShort
  <2>4. open'[c] /\ hand'[c] = <<>>
    BY <1>1, <1>8, <1>10
  <2> QED BY <2>2, <2>3, <2>4, Zenon DEF LinkOf
<1>12. LinkInv'
  BY <1>10, <1>11, OtherLinks DEF IInv
<1>13. Flow
  BY <1>1, <1>10, SameFiles DEF Flow, IInv
<1> QED BY <1>10, <1>12, <1>13 DEF IInv

LEMMA StepIInv == IInv /\ [Next]_vars => IInv' /\ Flow
<1> SUFFICES ASSUME IInv, [Next]_vars PROVE IInv' /\ Flow
  OBVIOUS
<1>1. ASSUME NEW m \in Msgs, Publish(m) \/ Republish(m) PROVE IInv' /\ Flow
  BY <1>1, PublishStep
<1>2. ASSUME NEW n \in Attempts, Expire(n) PROVE IInv' /\ Flow
  BY <1>2, ExpireStep
<1>3. ASSUME NEW c \in Consumers, Deliver(c) \/ DeliverToDead(c) PROVE IInv' /\ Flow
  BY <1>3, DeliverStep, DeliverToDeadStep
<1>4. ASSUME NEW c \in Consumers, Take(c) \/ Cut(c) PROVE IInv' /\ Flow
  <2>1. CASE TakePublish(c)
    BY <2>1, TakePublishStep
  <2>2. CASE TakeAck(c)
    BY <2>2, TakeAckStep
  <2>3. CASE Close(c) \/ Cut(c)
    <3>1. faults \in 0 .. MaxFaults /\ kills \in 0 .. faults
      BY DEF IInv, TypeOK
    <3>2. faults' \in 0 .. MaxFaults /\ kills' \in 0 .. faults' /\ Disconnect(c)
      BY <2>3, <3>1, ConsumersAssumption DEF Close, Cut, Fault
    <3> QED BY <3>2, DisconnectStep
  <2> QED BY <1>4, <2>1, <2>2, <2>3 DEF Take
<1>5. ASSUME NEW c \in Consumers, Handle(c) \/ Restart(c) \/ Kill(c) PROVE IInv' /\ Flow
  <2>1. CASE WriteRow(c) \/ LogEffect(c) \/ Check(c) \/ Mark(c) \/ Complete(c) \/ Skip(c)
    BY <2>1, WorkSteps
  <2>2. CASE EffectAndExit(c) \/ ConnectionError(c) \/ Kill(c)
    BY <2>2, EndSteps
  <2>3. CASE RetryOrBury(c)
    BY <2>3, RetryStep
  <2>4. CASE SendAck(c)
    BY <2>4, SendAckStep
  <2>5. CASE Restart(c)
    BY <2>5, RestartStep
  <2> QED BY <1>5, <2>1, <2>2, <2>3, <2>4, <2>5 DEF Handle
<1>6. CASE UNCHANGED vars
  <2>1. UNCHANGED <<files, published>> /\ UNCHANGED <<open, held, hand, wire, step>>
        /\ orders' = orders /\ retry' = retry /\ dlq' = dlq /\ faults' = faults /\ kills' = kills
    BY <1>6 DEF vars, files
  <2>2. TypeOK'
    <3>1. FilesOK' /\ ConsumersOK' /\ open' = open
      BY <2>1, QuietTypes, TypeParts, Zenon DEF IInv, ConsumersOK
    <3> QED BY <2>1, <3>1, TypeParts, Zenon DEF IInv
  <2>3. CopyInv' /\ LostInv' /\ Stable
    <3>1. Live' = Live /\ InHand' = InHand
      BY <2>1 DEF Live, Delayed, Delivered, InHand
    <3>2. /\ \A m : Done(m) => Done(m)'
          /\ \A m \in Msgs : tried[m] \subseteq tried'[m]
          /\ rows \subseteq rows'
      BY <2>1, SameFiles DEF IInv
    <3> QED BY <2>1, <3>1, <3>2, SameCopies DEF IInv
  <2>4. Flow
    <3>1. Live' = Live
      BY <2>1 DEF Live, Delayed, Delivered
    <3> QED BY <2>1, <3>1, SameFiles DEF Flow, SameQueues, IInv
  <2> QED BY <2>1, <2>2, <2>3, <2>4, SameLinks DEF IInv
<1> QED BY <1>1, <1>2, <1>3, <1>4, <1>5, <1>6 DEF Next

\* Every reachable state keeps, for each copy of a message, the attempts that
\* its header claims, and lets go of none before its work is durable.
THEOREM Invariance == Spec => []IInv
BY InitIInv, StepIInv, PTL DEF Spec
-----------------------------------------------------------------------------
\* The copies of a message, found in the queues.
LEMMA HasRange ==
  ASSUME NEW q \in Seq(Copies), NEW m
  PROVE  Has(q, m) <=> \E z \in Range(q) : z.id = m
<1>1. DOMAIN q = 1 .. Len(q)
  BY LenProperties
<1> QED BY <1>1 DEF Has, Range

LEMMA CopiesAre ==
  ASSUME TypeOK, NEW m
  PROVE  /\ HasLiveCopy(m) <=> \E z \in Live : z.id = m
         /\ Has(dlq, m) <=> \E z \in Range(dlq) : z.id = m
         /\ HasCopy(m) <=> \E z \in AtRest : z.id = m
<1>1. /\ orders \in Seq(Copies) /\ dlq \in Seq(Copies)
      /\ \A n \in Attempts : retry[n] \in Seq(Copies)
      /\ \A c \in Consumers : held[c] \in Seq(Copies)
  BY DEF TypeOK
<1>2. Has(orders, m) <=> \E z \in Range(orders) : z.id = m
  BY <1>1, HasRange
<1>3. Has(dlq, m) <=> \E z \in Range(dlq) : z.id = m
  BY <1>1, HasRange
<1>4. \A n \in Attempts : Has(retry[n], m) <=> \E z \in Range(retry[n]) : z.id = m
  BY <1>1, HasRange
<1>5. \A c \in Consumers : Has(held[c], m) <=> \E z \in Range(held[c]) : z.id = m
  BY <1>1, HasRange
<1>6. HasLiveCopy(m) <=> \E z \in Live : z.id = m
  BY <1>2, <1>4, <1>5, Zenon DEF HasLiveCopy, Live, Delayed, Delivered
<1> QED BY <1>3, <1>6 DEF HasCopy, AtRest

\* A published message has a copy in some queue until its work is durable, and
\* a poison message for ever (consumer.py:109-125).
THEOREM NothingIsLost == Spec => []NothingLost
<1>1. ASSUME IInv PROVE NothingLost
  <2> SUFFICES ASSUME NEW m \in Range(published) PROVE HasCopy(m) \/ Done(m)
    BY DEF NothingLost
  <2> QED BY <1>1, CopiesAre DEF IInv, LostInv
<1> QED BY <1>1, Invariance, PTL

\* What is in the dead-letter queue has failed with every header from 0 to 3.
THEOREM BuriedAfterFourFailures == Spec => []BuriedAfterAllAttempts
<1>1. ASSUME IInv PROVE BuriedAfterAllAttempts
  <2> SUFFICES ASSUME NEW i \in 1 .. Len(dlq)
               PROVE  dlq[i].attempt = Final /\ tried[dlq[i].id] = 0 .. 3
    BY DEF BuriedAfterAllAttempts
  <2>1. dlq \in Seq(Copies)
    BY <1>1 DEF IInv, TypeOK
  <2>2. i \in DOMAIN dlq /\ dlq[i] \in Copies
    BY <2>1, LenProperties, ElementOfSeq
  <2>3. PICK z \in Copies : z = dlq[i] /\ z \in Range(dlq)
    BY <2>2 DEF Range
  <2>4. z.attempt = Final /\ Earned(z)
    BY <1>1, <2>3 DEF IInv, CopyInv, AtRest
  <2>5. \A k \in 0 .. 3 : k \in tried[z.id]
    BY <2>4 DEF Earned, Final
  <2>6. tried[z.id] \subseteq 0 .. 3
    BY <1>1, CopyParts DEF IInv, TypeOK
  <2> QED BY <2>3, <2>4, <2>5, <2>6
<1> QED BY <1>1, Invariance, PTL

-----------------------------------------------------------------------------
\* Every step is one of the abstract queue's, or one it does not see.
LEMMA DeliveryStep ==
  ASSUME IInv, [Next]_vars
  PROVE  [Queue!Next]_(Queue!vars)
<1> DEFINE Mine == Msgs \ Unknown
           pending == {m \in Mine : HasLiveCopy(m)}
           worked == {m \in Mine : Done(m)}
           buried == {m \in Mine : Has(dlq, m)}
<1> SUFFICES Queue!Next \/ (pending' = pending /\ worked' = worked /\ buried' = buried)
  BY DEF Queue!vars
<1>1. IInv' /\ Flow
  BY StepIInv
<1>2. /\ \A m : HasLiveCopy(m) <=> \E z \in Live : z.id = m
      /\ \A m : Has(dlq, m) <=> \E z \in Range(dlq) : z.id = m
  BY CopiesAre DEF IInv
<1>3. /\ \A m : HasLiveCopy(m)' <=> \E z \in Live' : z.id = m
      /\ \A m : Has(dlq, m)' <=> \E z \in Range(dlq') : z.id = m
  <2> SUFFICES ASSUME NEW m
               PROVE  /\ HasLiveCopy(m)' <=> \E z \in Live' : z.id = m
                      /\ Has(dlq', m) <=> \E z \in Range(dlq') : z.id = m
    OBVIOUS
  <2>1. /\ orders' \in Seq(Copies) /\ dlq' \in Seq(Copies)
        /\ \A n \in Attempts : retry'[n] \in Seq(Copies)
        /\ \A c \in Consumers : held'[c] \in Seq(Copies)
    BY <1>1 DEF IInv, TypeOK
  <2>2. Has(orders', m) <=> \E z \in Range(orders') : z.id = m
    BY <2>1, HasRange
  <2>3. Has(dlq', m) <=> \E z \in Range(dlq') : z.id = m
    BY <2>1, HasRange
  <2>4. \A n \in Attempts : Has(retry'[n], m) <=> \E z \in Range(retry'[n]) : z.id = m
    BY <2>1, HasRange
  <2>5. \A c \in Consumers : Has(held'[c], m) <=> \E z \in Range(held'[c]) : z.id = m
    BY <2>1, HasRange
  <2>6. HasLiveCopy(m)' <=> \E z \in Live' : z.id = m
    BY <2>2, <2>4, <2>5, Zenon DEF HasLiveCopy, Live, Delayed, Delivered
  <2> QED BY <2>3, <2>6
<1>4. SameQueues => pending' = pending /\ buried' = buried
  BY <1>2, <1>3 DEF SameQueues
<1>5. SameWork => worked' = worked
  BY DEF SameWork
<1>6. ASSUME NEW y \in Copies, Brings(y)
      PROVE  Queue!Next \/ (pending' = pending /\ worked' = worked /\ buried' = buried)
  <2>1. buried' = buried /\ worked' = worked /\ y.id \in Msgs
    BY <1>2, <1>3, <1>5, <1>6 DEF Brings
  <2>2. \A m : HasLiveCopy(m)' <=> HasLiveCopy(m) \/ m = y.id
    BY <1>2, <1>3, <1>6 DEF Brings
  <2>3. CASE y.id \in Unknown
    BY <2>1, <2>2, <2>3
  <2>4. CASE y.id \notin Unknown
    <3>1. pending' = pending \cup {y.id} /\ y.id \in Mine
      BY <2>1, <2>2, <2>4
    <3> QED BY <2>1, <3>1 DEF Queue!Next, Queue!Accept
  <2> QED BY <2>3, <2>4
<1>7. ASSUME NEW y \in Copies, Buries(y)
      PROVE  Queue!Next \/ (pending' = pending /\ worked' = worked /\ buried' = buried)
  <2>1. pending' = pending /\ worked' = worked /\ y.id \in Msgs /\ HasLiveCopy(y.id)
    BY <1>2, <1>3, <1>5, <1>7 DEF Buries
  <2>2. \A m : Has(dlq, m)' <=> Has(dlq, m) \/ m = y.id
    BY <1>2, <1>3, <1>7 DEF Buries
  <2>3. CASE y.id \in Unknown
    BY <2>1, <2>2, <2>3
  <2>4. CASE y.id \notin Unknown
    <3>1. buried' = buried \cup {y.id} /\ y.id \in Mine /\ y.id \in pending
      BY <2>1, <2>2, <2>4
    <3> QED BY <2>1, <3>1 DEF Queue!Next, Queue!Bury
  <2> QED BY <2>3, <2>4
<1>8. ASSUME NEW x \in Copies, Forgets(x)
      PROVE  Queue!Next \/ (pending' = pending /\ worked' = worked /\ buried' = buried)
  <2>1. buried' = buried /\ worked' = worked
    BY <1>2, <1>3, <1>5, <1>8 DEF Forgets
  <2>2. x.id \in Msgs /\ HasLiveCopy(x.id)
    BY <1>2, <1>8, CopyParts DEF Forgets
  <2>3. \A m : m # x.id => (HasLiveCopy(m)' <=> HasLiveCopy(m))
    BY <1>2, <1>3, <1>8 DEF Forgets
  <2>4. CASE HasLiveCopy(x.id)' \/ x.id \in Unknown
    <3>1. pending' = pending
      BY <2>2, <2>3, <2>4
    <3> QED BY <2>1, <3>1
  <2>5. CASE ~HasLiveCopy(x.id)' /\ x.id \notin Unknown
    <3>1. pending' = pending \ {x.id} /\ x.id \in Mine /\ x.id \in pending
      BY <2>2, <2>3, <2>5
    <3>2. x.id \in worked \cup buried
      <4>1. CASE x.id \notin Poison
        BY <1>8, <3>1, <4>1 DEF Forgets, Answered
      <4>2. CASE x.id \in Poison
        <5>1. PICK z \in AtRest : z.id = x.id /\ z.attempt > x.attempt
          BY <1>8, <4>2 DEF Forgets, Answered, Surpassed
        <5>2. z # x
          <6>1. x.attempt \in 0 .. 4
            BY CopyParts
          <6> QED BY <5>1, <6>1
        <5>3. z \notin Live
          BY <1>3, <1>8, <2>5, <5>1, <5>2 DEF Forgets
        <5>4. z \in Range(dlq)
          BY <5>3 DEF AtRest
        <5> QED BY <1>2, <3>1, <5>1, <5>4
      <4> QED BY <4>1, <4>2
    <3> QED BY <2>1, <3>1, <3>2 DEF Queue!Next, Queue!Finish
  <2> QED BY <2>4, <2>5
<1>9. ASSUME NEW m \in Msgs, Works(m)
      PROVE  Queue!Next \/ (pending' = pending /\ worked' = worked /\ buried' = buried)
  <2>1. pending' = pending /\ buried' = buried
    BY <1>4, <1>9 DEF Works
  <2>2. (\A k : Done(k) => Done(k)') /\ (\A k : k # m /\ Done(k)' => Done(k))
    BY <1>9 DEF Works
  <2>3. CASE worked' = worked
    BY <2>1, <2>3
  <2>4. CASE worked' # worked
    <3>1. m \in Mine /\ ~Done(m) /\ worked' = worked \cup {m}
      BY <2>2, <2>4
    <3>2. \E z \in AtRest : z.id = m
      BY <1>9, <3>1 DEF Works, IInv, LostInv
    <3>3. m \in pending \cup buried
      BY <1>2, <3>1, <3>2 DEF AtRest
    <3> QED BY <2>1, <3>1, <3>3 DEF Queue!Next, Queue!Work
  <2> QED BY <2>3, <2>4
<1> HIDE DEF pending, worked, buried
<1> QED BY <1>1, <1>4, <1>5, <1>6, <1>7, <1>8, <1>9 DEF Flow

\* The exchange, the delay queues and the consumers together deliver at least
\* once (producer.py to the last ack).
THEOREM DeliversAtLeastOnce == Spec => ImplementsDelivery
<1>1. Init => Queue!Init
  <2> SUFFICES ASSUME Init PROVE Queue!Init
    OBVIOUS
  <2>1. TypeOK
    BY InitIInv DEF IInv
  <2>2. Live = {} /\ Range(dlq) = {}
    <3>1. Range(<<>>) = {}
      BY EmptySeq DEF Range
    <3> QED BY <3>1 DEF Init, Live, Delayed, Delivered
  <2>3. \A m : ~HasLiveCopy(m) /\ ~Has(dlq, m)
    BY <2>1, <2>2, CopiesAre
  <2>4. \A m \in Msgs \ Unknown : ~Done(m)
    BY DEF Init, Done
  <2> QED BY <2>3, <2>4 DEF Queue!Init
<1>2. IInv /\ [Next]_vars => [Queue!Next]_(Queue!vars)
  BY DeliveryStep
<1> QED BY <1>1, <1>2, Invariance, PTL DEF Spec, ImplementsDelivery, Queue!Spec
-----------------------------------------------------------------------------
\* With one container a crash_idempotent message is marked before its effect and
\* the effect happens once; only a fault comes in between for good.
OneRunning ==
  \A c, d \in Consumers : step[c] # "down" /\ step[d] # "down" => c = d
Alone(c) == \A d \in Consumers \ {c} : step[d] = "down"

AtEffect(m) ==
  \E c \in Consumers : \E x \in Copies :
    step[c] = "effect" /\ hand[c] = <<x>> /\ x.id = m

CutInv == \A c \in Consumers : step[c] # "down" /\ ~open[c] => faults # 0
StageInv ==
  \A c \in Consumers : \A x \in Copies : hand[c] = <<x>> /\ x.id \in Idempotent =>
    /\ step[c] = "mark" => x.id \notin processed
    /\ step[c] = "effect" => x.id \in processed /\ effects[x.id] = 0
OnceInv ==
  \A m \in Idempotent :
    /\ effects[m] <= 1
    /\ effects[m] # 0 => m \in processed
    /\ m \in processed => effects[m] = 1 \/ faults # 0 \/ AtEffect(m)

\* One container starts a process when no other runs.
LEMMA RestartAlone ==
  ASSUME Containers = 1, NEW c \in Consumers, Restart(c)
  PROVE  \A d \in Consumers : step[d] = "down"
<1>1. Running \subseteq Consumers /\ IsFiniteSet(Consumers)
  BY ConsumersAssumption DEF Running
<1>2. IsFiniteSet(Running)
  BY <1>1, FS_Subset
<1>3. Cardinality(Running) \in Nat /\ Cardinality(Running) < 1
  BY <1>2, FS_CardinalityType DEF Restart
<1>4. Running = {}
  BY <1>2, <1>3, FS_EmptySet
<1> QED BY <1>4 DEF Running

LEMMA RunStep ==
  ASSUME Containers = 1, IInv, OneRunning, [Next]_vars
  PROVE  OneRunning'
<1>1. ASSUME NEW c \in Consumers, NEW s, step' = [step EXCEPT ![c] = s]
      PROVE  \A d \in Consumers \ {c} : step'[d] = step[d]
  BY <1>1 DEF IInv, TypeOK
<1>2. ASSUME NEW c \in Consumers, Restart(c) PROVE OneRunning'
  <2>1. \A d \in Consumers : step[d] = "down"
    BY <1>2, RestartAlone
  <2>2. \A d \in Consumers \ {c} : step'[d] = "down"
    BY <1>1, <1>2, <2>1 DEF Restart
  <2> QED BY <2>2 DEF OneRunning
<1>3. ASSUME NEW c \in Consumers, step[c] # "down", NEW s, step' = [step EXCEPT ![c] = s]
      PROVE  OneRunning'
  <2>1. \A d \in Consumers : step'[d] # "down" => step[d] # "down"
    BY <1>1, <1>3
  <2> QED BY <2>1 DEF OneRunning
<1>4. CASE step' = step
  BY <1>4 DEF OneRunning
<1>5. CASE \/ \E m \in Msgs : Publish(m) \/ Republish(m)
           \/ \E n \in Attempts : Expire(n)
           \/ \E c \in Consumers : DeliverToDead(c) \/ Take(c) \/ Cut(c)
           \/ UNCHANGED vars
  BY <1>4, <1>5 DEF Publish, Republish, Expire, DeliverToDead, Take, TakePublish, TakeAck,
                    Close, Cut, Disconnect, vars
<1>6. ASSUME NEW c \in Consumers, Deliver(c) PROVE OneRunning'
  BY <1>3, <1>6 DEF Deliver
<1>7. ASSUME NEW c \in Consumers, Handle(c) \/ Kill(c) PROVE OneRunning'
  <2>1. step[c] # "down" /\ \E s : step' = [step EXCEPT ![c] = s]
    BY <1>7 DEF Handle, WriteRow, LogEffect, RetryOrBury, EffectAndExit, Check, Mark, Complete,
                Skip, SendAck, ConnectionError, Kill, Go, Exit, At
  <2> QED BY <1>3, <2>1
<1> QED BY <1>2, <1>5, <1>6, <1>7 DEF Next

\* A connection that is not open under a running process was cut.
LEMMA CutStep ==
  ASSUME IInv, CutInv, [Next]_vars
  PROVE  CutInv' /\ (faults # 0 => faults' # 0)
<1> USE DEF IInv
<1>1. faults \in Nat
  BY DEF TypeOK
<1>2. \/ faults' = faults
      \/ faults' = faults + 1
  BY DEF Next, vars, Publish, Republish, Expire, Deliver, DeliverToDead, Take, TakePublish, TakeAck,
         Close, Handle, WriteRow, LogEffect, RetryOrBury, EffectAndExit, Check, Mark, Complete,
         Skip, SendAck, ConnectionError, Restart, Cut, Kill, Fault, Go
<1>3. faults # 0 => faults' # 0
  BY <1>1, <1>2
<1> SUFFICES ASSUME NEW d \in Consumers, step'[d] # "down", ~open'[d]
             PROVE  faults' # 0
  BY <1>3, Zenon DEF CutInv
<1>4. CASE UNCHANGED <<step, open>>
  BY <1>3, <1>4, Zenon DEF CutInv
<1>5. ASSUME NEW c \in Consumers, Disconnect(c), step' = step,
             step[c] = "down" \/ faults' # 0
      PROVE  faults' # 0
  <2>1. \A e \in Consumers \ {c} : open'[e] <=> open[e]
    BY <1>5, Opens DEF Disconnect
  <2>2. CASE d = c
    BY <1>5, <2>2
  <2>3. CASE d # c
    BY <1>3, <1>5, <2>1, <2>3, Zenon DEF CutInv
  <2> QED BY <2>2, <2>3
<1>6. ASSUME NEW c \in Consumers, open' = open, step[c] # "down" \/ open[c],
             \A e \in Consumers \ {c} : step'[e] = step[e]
      PROVE  faults' # 0
  <2>1. ~open[d]
    BY <1>6, Zenon
  <2>2. CASE d = c
    BY <1>3, <1>6, <2>1, <2>2, Zenon DEF CutInv
  <2>3. CASE d # c
    BY <1>3, <1>6, <2>1, <2>3, Zenon DEF CutInv
  <2> QED BY <2>2, <2>3
<1>7. ASSUME NEW c \in Consumers, Restart(c) PROVE faults' # 0
  <2>1. /\ open'[c] /\ \A e \in Consumers \ {c} : open'[e] <=> open[e]
    BY <1>7, Opens DEF Restart
  <2>2. \A e \in Consumers \ {c} : step'[e] = step[e]
    BY <1>7 DEF Restart, TypeOK
  <2>3. d # c
    BY <2>1, Zenon
  <2> QED BY <1>3, <2>1, <2>2, <2>3, Zenon DEF CutInv
<1>8. ASSUME NEW c \in Consumers, NEW s, step' = [step EXCEPT ![c] = s]
      PROVE  \A e \in Consumers \ {c} : step'[e] = step[e]
  BY <1>8 DEF TypeOK
<1>9. CASE \/ \E m \in Msgs : Publish(m) \/ Republish(m)
           \/ \E n \in Attempts : Expire(n)
           \/ \E c \in Consumers : DeliverToDead(c) \/ TakePublish(c) \/ TakeAck(c)
           \/ UNCHANGED vars
  BY <1>4, <1>9 DEF Publish, Republish, Expire, DeliverToDead, TakePublish, TakeAck, vars
<1>10. ASSUME NEW c \in Consumers, Close(c) \/ Cut(c) PROVE faults' # 0
  BY <1>1, <1>5, <1>10 DEF Close, Cut, Fault, Disconnect
<1>11. ASSUME NEW c \in Consumers, Deliver(c) PROVE faults' # 0
  BY <1>6, <1>8, <1>11 DEF Deliver
<1>12. ASSUME NEW c \in Consumers,
              WriteRow(c) \/ LogEffect(c) \/ Check(c) \/ Mark(c) \/ Complete(c) \/ Skip(c)
       PROVE  faults' # 0
  <2>1. step[c] # "down" /\ open' = open /\ \E s : step' = [step EXCEPT ![c] = s]
    BY <1>12 DEF WriteRow, LogEffect, Check, Mark, Complete, Skip, At, Go, broker
  <2> QED BY <1>6, <1>8, <2>1
<1>13. ASSUME NEW c \in Consumers, RetryOrBury(c) \/ SendAck(c) PROVE faults' # 0
  <2>1. step[c] # "down" /\ open' = open /\ \E s : step' = [step EXCEPT ![c] = s]
    BY <1>13 DEF RetryOrBury, SendAck, At, broker
  <2> QED BY <1>6, <1>8, <2>1
<1>14. ASSUME NEW c \in Consumers, EffectAndExit(c) \/ ConnectionError(c) \/ Kill(c)
       PROVE  faults' # 0
  <2>1. step[c] # "down" /\ open' = open /\ \E s : step' = [step EXCEPT ![c] = s]
    BY <1>14 DEF EffectAndExit, ConnectionError, Kill, Exit, At, broker
  <2> QED BY <1>6, <1>8, <2>1
<1> QED BY <1>7, <1>9, <1>10, <1>11, <1>12, <1>13, <1>14 DEF Next, Take, Handle
\* A step of the only process that is neither of the three below.
LEMMA OnceMove ==
  ASSUME IInv, StageInv, OnceInv, NEW c \in Consumers, Alone(c), Alone(c)',
         processed' = processed,
         \A m \in Idempotent : effects'[m] = effects[m],
         faults # 0 => faults' # 0,
         \/ step'[c] \notin {"mark", "effect"}
         \/ \A x \in Copies : hand'[c] = <<x>> => x.id \notin Idempotent,
         \/ faults' # 0 \/ step[c] # "effect"
         \/ \A x \in Copies : hand[c] = <<x>> => x.id \notin Idempotent
  PROVE  StageInv' /\ OnceInv'
<1>1. \A d \in Consumers : d = c \/ (step[d] = "down" /\ step'[d] = "down")
  BY DEF Alone
<1>2. StageInv'
  BY <1>1 DEF StageInv
<1>3. OnceInv'
  <2> SUFFICES ASSUME NEW m \in Idempotent
               PROVE  /\ effects'[m] <= 1 /\ (effects'[m] # 0 => m \in processed')
                      /\ m \in processed' => effects'[m] = 1 \/ faults' # 0 \/ AtEffect(m)'
    BY DEF OnceInv
  <2>1. faults' # 0 \/ ~AtEffect(m)
    BY <1>1 DEF AtEffect
  <2> QED BY <2>1 DEF OnceInv
<1> QED BY <1>2, <1>3

LEMMA OnceStep ==
  ASSUME Containers = 1, IInv, CutInv, OneRunning, StageInv, OnceInv, [Next]_vars
  PROVE  StageInv' /\ OnceInv'
<1>1. faults # 0 => faults' # 0
  BY CutStep
<1>2. CASE UNCHANGED <<step, hand, processed, effects>>
  <2>1. StageInv'
    BY <1>2 DEF StageInv
  <2>2. \A m : AtEffect(m)' <=> AtEffect(m)
    BY <1>2 DEF AtEffect
  <2> QED BY <1>1, <1>2, <2>1, <2>2 DEF OnceInv
<1>3. CASE \/ \E m \in Msgs : Publish(m) \/ Republish(m)
           \/ \E n \in Attempts : Expire(n)
           \/ \E c \in Consumers : DeliverToDead(c) \/ Take(c) \/ Cut(c)
           \/ UNCHANGED vars
  BY <1>2, <1>3 DEF Publish, Republish, Expire, DeliverToDead, Take, TakePublish, TakeAck, Close, Cut,
                    Disconnect, vars, files
<1>0. ASSUME NEW c \in Consumers, step[c] # "down" \/ Restart(c),
              NEW s, step' = [step EXCEPT ![c] = s]
       PROVE  Alone(c) /\ Alone(c)'
  <2>1. \A d \in Consumers \ {c} : step'[d] = step[d]
    BY <1>0 DEF IInv, TypeOK
  <2>2. Alone(c)
    BY <1>0, RestartAlone DEF OneRunning, Alone
  <2> QED BY <2>1, <2>2 DEF Alone
<1>4. ASSUME NEW c \in Consumers, step[c] # "effect", step[c] # "down" \/ Restart(c),
             NEW s \in {"down", "idle", "work", "ack"},
             step' = [step EXCEPT ![c] = s], UNCHANGED <<processed, effects>>
      PROVE  StageInv' /\ OnceInv'
  <2>1. step'[c] = s
    BY <1>4 DEF IInv, TypeOK
  <2>2. Alone(c) /\ Alone(c)'
    BY <1>4, <1>0
  <2> QED BY <1>1, <1>4, <2>1, <2>2, OnceMove
<1>5. ASSUME NEW c \in Consumers,
             \/ Deliver(c) \/ RetryOrBury(c) \/ Complete(c) \/ Skip(c) \/ SendAck(c)
             \/ ConnectionError(c) \/ Restart(c)
      PROVE  StageInv' /\ OnceInv'
  <2>1. /\ step[c] # "effect" /\ (step[c] # "down" \/ Restart(c))
        /\ processed' = processed /\ effects' = effects
        /\ \E s \in {"down", "idle", "work", "ack"} : step' = [step EXCEPT ![c] = s]
    BY <1>5 DEF Deliver, RetryOrBury, Complete, Skip, SendAck, ConnectionError, Restart, At, Go,
                Exit, files
  <2> QED BY <1>4, <2>1
<1>6. ASSUME NEW c \in Consumers, Kill(c) PROVE StageInv' /\ OnceInv'
  <2>1. /\ step' = [step EXCEPT ![c] = "down"] /\ processed' = processed /\ effects' = effects
        /\ faults' # 0
    BY <1>6 DEF Kill, Exit, Fault, files, IInv, TypeOK
  <2>2. step'[c] = "down"
    BY <2>1 DEF IInv, TypeOK
  <2>3. Alone(c) /\ Alone(c)'
    BY <1>6, <1>0, <2>1 DEF Kill
  <2> QED BY <2>1, <2>2, <2>3, OnceMove
<1>7. ASSUME NEW c \in Consumers, step[c] \in {"work", "mark", "effect"}
      PROVE  \E x \in Copies :
               /\ hand[c] = <<x>> /\ Id(c) = x.id /\ Head(hand[c]) = x /\ x.id \in Msgs
               /\ \A z \in Copies : hand[c] = <<z>> => z = x
  BY <1>7, AtWork
<1>8. /\ effects \in [Msgs -> 0 .. 2] /\ \A m \in Idempotent : m \in Msgs
      /\ step \in [Consumers -> {"down", "idle", "work", "mark", "effect", "ack"}]
  BY DEF IInv, TypeOK, Many, Msgs
<1>9. ASSUME NEW c \in Consumers, WriteRow(c) \/ LogEffect(c) PROVE StageInv' /\ OnceInv'
  <2>1. step[c] \in {"work", "effect"} /\ Head(hand[c]).id \in Normal /\ hand' = hand
    BY <1>9 DEF WriteRow, LogEffect, At, Go
  <2>2. PICK x \in Copies : /\ hand[c] = <<x>> /\ Id(c) = x.id /\ Head(hand[c]) = x
                            /\ x.id \in Msgs /\ \A z \in Copies : hand[c] = <<z>> => z = x
    BY <1>7, <2>1
  <2>3. x.id \in Normal /\ x.id \notin Idempotent
    BY <2>1, <2>2, TypesAssumption
  <2>4. processed' = processed /\ \A m \in Idempotent : effects'[m] = effects[m]
    <3>1. CASE WriteRow(c)
      BY <3>1 DEF WriteRow
    <3>2. CASE LogEffect(c)
      <4>1. AppendEffect(x.id) /\ processed' = processed
        BY <2>2, <3>2 DEF LogEffect
      <4>2. \A k \in Msgs \ {x.id} : effects'[k] = effects[k]
        BY <2>2, <4>1, MoreEffects DEF IInv
      <4> QED BY <1>8, <2>3, <4>1, <4>2
    <3> QED BY <1>9, <3>1, <3>2
  <2>5. \A z \in Copies : hand[c] = <<z>> => z.id \notin Idempotent
    BY <2>2, <2>3
  <2>6. Alone(c) /\ Alone(c)'
    BY <1>9, <1>0, <2>1 DEF WriteRow, LogEffect, Go
  <2> QED BY <1>1, <2>1, <2>4, <2>5, <2>6, OnceMove
<1>10. ASSUME NEW c \in Consumers, Check(c) PROVE StageInv' /\ OnceInv'
  <2>1. step[c] = "work" /\ hand' = hand /\ processed' = processed /\ effects' = effects
    BY <1>10 DEF Check, At, Go, files
  <2>2. PICK x \in Copies : /\ hand[c] = <<x>> /\ Id(c) = x.id
                            /\ \A z \in Copies : hand[c] = <<z>> => z = x
    BY <1>7, <2>1
  <2>3. CASE x.id \in processed
    <3>1. step' = [step EXCEPT ![c] = "ack"]
      BY <1>10, <2>2, <2>3 DEF Check, Go
    <3> QED BY <1>4, <2>1, <3>1
  <2>4. CASE x.id \notin processed
    <3>1. step' = [step EXCEPT ![c] = "mark"]
      BY <1>10, <2>2, <2>4 DEF Check, Go
    <3>2. /\ step'[c] = "mark"
          /\ \A d \in Consumers : d = c \/ (step[d] = "down" /\ step'[d] = "down")
      BY <1>8, <1>0, <2>1, <3>1 DEF Alone
    <3>3. StageInv'
      BY <2>1, <2>2, <2>4, <3>2 DEF StageInv
    <3>4. \A m : ~AtEffect(m)
      BY <2>1, <3>2 DEF AtEffect
    <3>5. OnceInv'
      BY <1>1, <2>1, <3>4 DEF OnceInv
    <3> QED BY <3>3, <3>5
  <2> QED BY <2>3, <2>4
<1>11. ASSUME NEW c \in Consumers, Mark(c) PROVE StageInv' /\ OnceInv'
  <2>1. step[c] = "mark" /\ Head(hand[c]).id \in Idempotent
        /\ hand' = hand /\ effects' = effects /\ step' = [step EXCEPT ![c] = "effect"]
    BY <1>11 DEF Mark, At, Go
  <2>2. PICK x \in Copies : /\ hand[c] = <<x>> /\ Id(c) = x.id /\ Head(hand[c]) = x
                            /\ \A z \in Copies : hand[c] = <<z>> => z = x
    BY <1>7, <2>1
  <2>3. x.id \in Idempotent /\ processed' = processed \cup {x.id}
    BY <1>11, <2>1, <2>2 DEF Mark
  <2>4. x.id \notin processed /\ effects[x.id] = 0
    BY <2>1, <2>2, <2>3 DEF StageInv, OnceInv
  <2>5. /\ step'[c] = "effect"
        /\ \A d \in Consumers : d = c \/ (step[d] = "down" /\ step'[d] = "down")
    BY <1>8, <1>0, <2>1 DEF Alone
  <2>6. StageInv'
    BY <2>1, <2>2, <2>3, <2>4, <2>5 DEF StageInv
  <2>7. AtEffect(x.id)'
    BY <2>1, <2>2, <2>5 DEF AtEffect
  <2>8. \A m : ~AtEffect(m)
    BY <2>1, <2>5 DEF AtEffect
  <2>9. OnceInv'
    <3> SUFFICES ASSUME NEW m \in Idempotent
                 PROVE  /\ effects'[m] <= 1 /\ (effects'[m] # 0 => m \in processed')
                        /\ m \in processed' => effects'[m] = 1 \/ faults' # 0 \/ AtEffect(m)'
      BY DEF OnceInv
    <3> QED BY <1>1, <2>1, <2>3, <2>7, <2>8 DEF OnceInv
  <2> QED BY <2>6, <2>9
<1>12. ASSUME NEW c \in Consumers, EffectAndExit(c) PROVE StageInv' /\ OnceInv'
  <2>1. /\ step[c] \in {"work", "effect"}
        /\ \/ step[c] = "work" /\ Head(hand[c]).id \in Crash
           \/ step[c] = "effect" /\ Head(hand[c]).id \in Idempotent
        /\ step' = [step EXCEPT ![c] = "down"] /\ processed' = processed
    BY <1>12 DEF EffectAndExit, At, Exit
  <2>2. PICK x \in Copies : /\ hand[c] = <<x>> /\ Id(c) = x.id /\ Head(hand[c]) = x
                            /\ x.id \in Msgs /\ \A z \in Copies : hand[c] = <<z>> => z = x
    BY <1>7, <2>1
  <2>3. AppendEffect(x.id)
    BY <1>12, <2>2 DEF EffectAndExit
  <2>4. \A k \in Msgs \ {x.id} : effects'[k] = effects[k]
    BY <2>2, <2>3, MoreEffects DEF IInv
  <2>5. CASE x.id \in Crash /\ step[c] = "work"
    <3>1. \A m \in Idempotent : effects'[m] = effects[m]
      BY <1>8, <2>4, <2>5, TypesAssumption
    <3>2. step'[c] = "down"
      BY <1>8, <2>1
    <3>3. step[c] # "effect"
      BY <2>5
    <3>4. Alone(c) /\ Alone(c)'
      BY <1>0, <2>1
    <3> QED BY <1>1, <2>1, <3>1, <3>2, <3>3, <3>4, OnceMove
  <2>6. CASE x.id \in Idempotent /\ step[c] = "effect"
    <3>1. x.id \in processed /\ effects[x.id] = 0
      BY <2>2, <2>6 DEF StageInv
    <3>2. effects' = [effects EXCEPT ![x.id] = 1]
      BY <2>3, <3>1 DEF AppendEffect, Many
    <3>3. effects'[x.id] = 1
      BY <1>8, <2>2, <3>2
    <3>4. /\ step'[c] = "down"
          /\ \A d \in Consumers : d = c \/ (step[d] = "down" /\ step'[d] = "down")
      BY <1>8, <1>0, <2>1 DEF Alone
    <3>5. StageInv'
      BY <3>4 DEF StageInv
    <3>6. \A m : AtEffect(m) => m = x.id
      BY <2>2, <3>4 DEF AtEffect
    <3>7. OnceInv'
      <4> SUFFICES ASSUME NEW m \in Idempotent
                   PROVE  /\ effects'[m] <= 1 /\ (effects'[m] # 0 => m \in processed')
                          /\ m \in processed' => effects'[m] = 1 \/ faults' # 0 \/ AtEffect(m)'
        BY DEF OnceInv
      <4>1. CASE m = x.id
        BY <2>1, <3>1, <3>3, <4>1
      <4>2. CASE m # x.id
        <5>1. effects'[m] = effects[m] /\ ~AtEffect(m)
          BY <1>8, <2>4, <3>6, <4>2
        <5> QED BY <1>1, <2>1, <5>1 DEF OnceInv
      <4> QED BY <4>1, <4>2
    <3> QED BY <3>5, <3>7
  <2> QED BY <2>1, <2>2, <2>5, <2>6
<1> QED BY <1>3, <1>5, <1>6, <1>9, <1>10, <1>11, <1>12 DEF Next, Handle

\* consumer.py:22-25: with one container the effect of a crash_idempotent message
\* happens at most once; it has happened when no copy is left, unless a fault
\* came between the mark and the effect.
THEOREM EffectOnce == ASSUME Containers = 1 PROVE Spec => []IdempotentOnce
<1>1. Init => CutInv /\ OneRunning /\ StageInv /\ OnceInv
  <2> SUFFICES ASSUME Init PROVE CutInv /\ OneRunning /\ StageInv /\ OnceInv
    OBVIOUS
  <2>1. CutInv
    BY Zenon DEF Init, CutInv
  <2>2. StageInv
    BY DEF Init, StageInv
  <2>3. OnceInv
    BY DEF Init, OnceInv, Msgs
  <2>4. OneRunning
    BY DEF Init, OneRunning
  <2> QED BY <2>1, <2>2, <2>3, <2>4
<1>2. IInv /\ CutInv /\ OneRunning /\ StageInv /\ OnceInv /\ [Next]_vars
        => (CutInv /\ OneRunning /\ StageInv /\ OnceInv)'
  BY CutStep, RunStep, OnceStep
<1>3. ASSUME IInv, CutInv, OnceInv PROVE IdempotentOnce
  <2> SUFFICES ASSUME NEW m \in Idempotent
               PROVE  /\ effects[m] <= 1
                      /\ m \in Range(published) /\ ~HasCopy(m) => effects[m] = 1 \/ faults > 0
    BY DEF IdempotentOnce
  <2>1. effects[m] <= 1
    BY <1>3 DEF OnceInv
  <2>2. ASSUME m \in Range(published), ~HasCopy(m), effects[m] # 1, faults = 0 PROVE FALSE
    <3>1. Done(m) /\ m \notin Normal /\ m \notin Ordered /\ m \notin Unknown
      BY <1>3, <2>2, CopiesAre, TypesAssumption DEF IInv, LostInv
    <3>2. m \in processed
      BY <3>1 DEF Done
    <3>3. PICK c \in Consumers, x \in Copies : step[c] = "effect" /\ hand[c] = <<x>> /\ x.id = m
      BY <1>3, <2>2, <3>2 DEF OnceInv, AtEffect
    <3>4. open[c]
      BY <1>3, <2>2, <3>3, Zenon DEF CutInv
    <3>5. held[c] = <<x>>
      <4>1. PICK z \in Copies : hand[c] = <<z>> /\ (open[c] => held[c] = <<z>>)
        BY <1>3, <3>3, AtWork
      <4>2. z = x
        <5>1. Head(<<z>>) = z /\ Head(<<x>>) = x
          BY RangeShort
        <5> QED BY <3>3, <4>1, <5>1, Zenon
      <4>3. held[c] = <<z>>
        BY <3>4, <4>1, Zenon
      <4> QED BY <4>2, <4>3
    <3>6. x \in AtRest
      <4>1. x \in Range(held[c])
        BY <3>5, RangeShort
      <4> QED BY <4>1 DEF AtRest, Live, Delivered
    <3> QED BY <1>3, <2>2, <3>3, <3>6, CopiesAre DEF IInv
  <2>3. faults \in Nat
    BY <1>3 DEF IInv, TypeOK
  <2> QED BY <2>1, <2>2, <2>3
<1> QED BY <1>1, <1>2, <1>3, Invariance, PTL DEF Spec
-----------------------------------------------------------------------------
\* With one container the ordered messages that no dead process has held stay in
\* the order they were published.  What is given to a connection whose process is
\* dead is set apart: it comes back at the head of the queue, out of its order.
PosIn(q) == [m \in Msgs |-> CHOOSE i \in 1 .. Len(q) : q[i] = m]
OnceEach(q) == \A i, j \in 1 .. Len(q) : q[i] = q[j] => i = j
Pos == PosIn(published)
Sorted(q, p, S) ==
  \A i, j \in 1 .. Len(q) : i < j /\ q[i].id \in S /\ q[j].id \in S => p[q[i].id] < p[q[j].id]
Ahead(x, T, p, S) == x.id \in S => \A z \in T : z.id \in S => p[x.id] < p[z.id]
NotAfter(x, z, S) == x.id \in S /\ z.id \in S => Pos[x.id] <= Pos[z.id]

\* What the running process has been given, and what it may still be given.
Attached == UNION {Range(held[c]) : c \in Running}
Waiting == Range(orders) \cup Delayed \cup Attached

LineUp(S) ==
  /\ Sorted(orders, Pos, S)
  /\ \A z \in Delayed : z.id \in Poison
  /\ \A x \in Attached : Ahead(x, Range(orders), Pos, S)
LogInv(S) ==
  /\ \A i, j \in 1 .. Len(log) :
       i < j /\ log[i] \in S /\ log[j] \in S => Pos[log[i]] <= Pos[log[j]]
  /\ \A k \in Range(log) :
       /\ k \in Range(published)
       /\ k \in S => \A z \in Waiting \cup InHand : z.id \in S => Pos[k] <= Pos[z.id]
  /\ \A x \in InHand : \A z \in Waiting : NotAfter(x, z, S)
InOrder(S) == OnceEach(published) /\ LineUp(S) /\ LogInv(S)

\* A dead process whose half-open connection may yet hold an ordered message:
\* one that ended on a message of another type keeps that one to the close.
Stuck(c) == wire[c] = <<>> /\ held[c] # <<>> /\ Head(held[c]).id \notin Ordered
Orphans == {c \in Consumers : step[c] = "down" /\ open[c] /\ ~Stuck(c)}

\* Each kill pays for one half-open connection, and that for one late message.
OrderInv ==
  \E late \in SUBSET Ordered :
    /\ IsFiniteSet(late)
    /\ Cardinality(late) + Cardinality(Orphans) <= kills
    /\ InOrder(Ordered \ late)

\* Each published message has its place.
LEMMA PosIs ==
  ASSUME NEW q \in Seq(Msgs), OnceEach(q)
  PROVE  /\ \A i \in 1 .. Len(q) : q[i] \in Msgs /\ PosIn(q)[q[i]] = i
         /\ \A m \in Range(q) : PosIn(q)[m] \in 1 .. Len(q) /\ m \in Msgs
<1>1. DOMAIN q = 1 .. Len(q)
  BY LenProperties
<1>2. ASSUME NEW i \in 1 .. Len(q)
      PROVE  q[i] \in Msgs /\ PosIn(q)[q[i]] = i
  <2>1. q[i] \in Msgs
    BY ElementOfSeq
  <2>2. \A j \in 1 .. Len(q) : q[j] = q[i] => j = i
    BY DEF OnceEach
  <2> QED BY <2>1, <2>2 DEF PosIn
<1>3. ASSUME NEW m \in Range(q)
      PROVE  PosIn(q)[m] \in 1 .. Len(q) /\ m \in Msgs
  <2>1. PICK i \in 1 .. Len(q) : q[i] = m
    BY <1>1 DEF Range
  <2> QED BY <1>2, <2>1
<1> QED BY <1>2, <1>3

\* A message published for the first time comes after the others.
LEMMA LastPos ==
  ASSUME NEW q \in Seq(Msgs), OnceEach(q), NEW m \in Msgs, m \notin Range(q)
  PROVE  /\ OnceEach(Append(q, m))
         /\ \A k \in Range(q) : /\ PosIn(Append(q, m))[k] = PosIn(q)[k]
                                /\ PosIn(q)[k] < PosIn(Append(q, m))[m]
<1> DEFINE r == Append(q, m)
<1>1. /\ r \in Seq(Msgs) /\ Len(r) = Len(q) + 1 /\ r[Len(q) + 1] = m /\ Len(q) \in Nat
      /\ \A i \in 1 .. Len(q) : r[i] = q[i]
  BY AppendProperties, LenProperties
<1>2. DOMAIN q = 1 .. Len(q)
  BY LenProperties
<1> HIDE DEF r
<1>3. \A i \in 1 .. Len(q) : q[i] # m
  BY <1>2 DEF Range
<1>4. OnceEach(r)
  <2> SUFFICES ASSUME NEW i \in 1 .. Len(r), NEW j \in 1 .. Len(r), r[i] = r[j] PROVE i = j
    BY DEF OnceEach
  <2>1. (i \in 1 .. Len(q) \/ i = Len(q) + 1) /\ (j \in 1 .. Len(q) \/ j = Len(q) + 1)
    BY <1>1
  <2> QED BY <1>1, <1>3, <2>1 DEF OnceEach
<1>5. PosIn(r)[m] = Len(q) + 1
  <2>1. Len(q) + 1 \in 1 .. Len(r)
    BY <1>1
  <2> QED BY <1>1, <1>4, <2>1, PosIs
<1>6. ASSUME NEW k \in Range(q) PROVE PosIn(r)[k] = PosIn(q)[k] /\ PosIn(q)[k] < PosIn(r)[m]
  <2>1. PICK i \in 1 .. Len(q) : q[i] = k
    BY <1>2 DEF Range
  <2>2. PosIn(q)[k] = i
    BY <2>1, PosIs
  <2>3. i \in 1 .. Len(r) /\ r[i] = k
    BY <1>1, <2>1
  <2>4. PosIn(r)[k] = i
    BY <1>1, <1>4, <2>3, PosIs
  <2> QED BY <1>1, <1>5, <2>2, <2>4
<1> QED BY <1>4, <1>6 DEF r

\* Queues that stay sorted.
LEMMA SortedSame ==
  ASSUME NEW q \in Seq(Copies), NEW p, NEW r, NEW S, Sorted(q, p, S),
         \A z \in Range(q) : p[z.id] = r[z.id]
  PROVE  Sorted(q, r, S)
<1>1. DOMAIN q = 1 .. Len(q)
  BY LenProperties
<1>2. \A i \in 1 .. Len(q) : q[i] \in Range(q)
  BY <1>1 DEF Range
<1>3. \A i \in 1 .. Len(q) : p[q[i].id] = r[q[i].id]
  BY <1>2
<1> QED BY <1>3 DEF Sorted

LEMMA SortedAppend ==
  ASSUME NEW q \in Seq(Copies), NEW a \in Copies, NEW p, NEW S, Sorted(q, p, S),
         a.id \in S => \A z \in Range(q) : z.id \in S => p[z.id] < p[a.id]
  PROVE  Sorted(Append(q, a), p, S)
<1> DEFINE r == Append(q, a)
<1>1. /\ Len(r) = Len(q) + 1 /\ r[Len(q) + 1] = a /\ Len(q) \in Nat
      /\ \A i \in 1 .. Len(q) : r[i] = q[i]
  BY AppendProperties, LenProperties
<1>2. \A i \in 1 .. Len(q) : q[i] \in Range(q)
  BY LenProperties DEF Range
<1> HIDE DEF r
<1>3. Sorted(r, p, S)
  <2> SUFFICES ASSUME NEW i \in 1 .. Len(r), NEW j \in 1 .. Len(r), i < j,
                      r[i].id \in S, r[j].id \in S
               PROVE  p[r[i].id] < p[r[j].id]
    BY DEF Sorted
  <2>1. i \in 1 .. Len(q) /\ r[i] = q[i]
    BY <1>1
  <2>2. CASE j \in 1 .. Len(q)
    BY <1>1, <2>1, <2>2 DEF Sorted
  <2>3. CASE j = Len(q) + 1
    BY <1>1, <1>2, <2>1, <2>3
  <2> QED BY <1>1, <2>2, <2>3
<1> QED BY <1>3 DEF r

LEMMA SortedTail ==
  ASSUME NEW q \in Seq(Copies), q # <<>>, NEW p, NEW S, Sorted(q, p, S)
  PROVE  Sorted(Tail(q), p, S) /\ Ahead(Head(q), Range(Tail(q)), p, S)
<1> DEFINE t == Tail(q)
<1>1. /\ t \in Seq(Copies) /\ Head(q) = q[1] /\ Len(t) = Len(q) - 1 /\ Len(q) \in Nat
      /\ \A i \in 1 .. Len(t) : t[i] = q[i + 1]
  BY HeadTailProperties, LenProperties
<1>2. DOMAIN t = 1 .. Len(t)
  BY <1>1, LenProperties
<1> HIDE DEF t
<1>3. \A i \in 1 .. Len(t) : i + 1 \in 1 .. Len(q) /\ 1 \in 1 .. Len(q) /\ 1 < i + 1
  BY <1>1
<1>4. Sorted(t, p, S)
  <2> SUFFICES ASSUME NEW i \in 1 .. Len(t), NEW j \in 1 .. Len(t), i < j,
                      t[i].id \in S, t[j].id \in S
               PROVE  p[t[i].id] < p[t[j].id]
    BY DEF Sorted
  <2>1. i + 1 < j + 1 /\ i + 1 \in 1 .. Len(q) /\ j + 1 \in 1 .. Len(q)
    BY <1>3
  <2>2. t[i] = q[i + 1] /\ t[j] = q[j + 1]
    BY <1>1
  <2> QED BY <2>1, <2>2 DEF Sorted
<1>5. Ahead(Head(q), Range(t), p, S)
  <2> SUFFICES ASSUME NEW i \in 1 .. Len(t), q[1].id \in S, t[i].id \in S
               PROVE  p[q[1].id] < p[t[i].id]
    BY <1>1, <1>2 DEF Ahead, Range
  <2> QED BY <1>1, <1>3 DEF Sorted
<1> QED BY <1>4, <1>5 DEF t

LEMMA SortedFirst ==
  ASSUME NEW q \in Seq(Copies), NEW x \in Copies, NEW p, NEW S, Sorted(q, p, S), Ahead(x, Range(q), p, S)
  PROVE  Sorted(<<x>> \o q, p, S)
<1> DEFINE s == <<x>>
<1>1. s \in Seq(Copies) /\ Len(s) = 1 /\ s[1] = x
  OBVIOUS
<1> HIDE DEF s
<1> DEFINE r == s \o q
<1>2. /\ r \in Seq(Copies) /\ Len(r) = Len(s) + Len(q)
      /\ \A i \in 1 .. Len(s) + Len(q) :
           r[i] = IF i <= Len(s) THEN s[i] ELSE q[i - Len(s)]
  <2>1. \A a, b \in Seq(Copies) :
          /\ a \o b \in Seq(Copies) /\ Len(a \o b) = Len(a) + Len(b)
          /\ \A i \in 1 .. Len(a) + Len(b) :
               (a \o b)[i] = IF i <= Len(a) THEN a[i] ELSE b[i - Len(a)]
    BY ConcatProperties
  <2> QED BY <1>1, <2>1
<1> HIDE DEF r
<1>3. r[1] = x /\ Len(r) = 1 + Len(q) /\ Len(q) \in Nat
  BY <1>1, <1>2, LenProperties
<1>4. \A i \in 2 .. Len(r) : i - 1 \in 1 .. Len(q) /\ r[i] = q[i - 1]
  BY <1>1, <1>2, <1>3
<1>5. \A i \in 1 .. Len(q) : q[i] \in Range(q)
  BY LenProperties DEF Range
<1>6. Sorted(r, p, S)
  <2> SUFFICES ASSUME NEW i \in 1 .. Len(r), NEW j \in 1 .. Len(r), i < j,
                      r[i].id \in S, r[j].id \in S
               PROVE  p[r[i].id] < p[r[j].id]
    BY DEF Sorted
  <2>1. j \in 2 .. Len(r) /\ j - 1 \in 1 .. Len(q) /\ r[j] = q[j - 1]
    BY <1>4
  <2>2. CASE i = 1
    BY <1>3, <1>5, <2>1, <2>2 DEF Ahead
  <2>3. CASE i # 1
    <3>1. i - 1 \in 1 .. Len(q) /\ r[i] = q[i - 1] /\ i - 1 < j - 1
      BY <1>4, <2>1, <2>3
    <3> QED BY <2>1, <3>1 DEF Sorted
  <2> QED BY <2>2, <2>3
<1> QED BY <1>6 DEF r, s

\* Where the copies stand, in the queue and in the log, as numbers.
LEMMA Placed ==
  ASSUME IInv, OnceEach(published)
  PROVE  \A z \in Waiting \cup InHand :
           z.id \in Range(published) /\ Pos[z.id] \in Nat /\ z.id \in Msgs
<1>1. \A z \in Live \cup InHand : z.id \in Range(published)
  BY DEF IInv, CopyInv, Earned, AtRest
<1>2. Waiting \subseteq Live
  BY DEF Waiting, Live, Attached, Delivered, Running
<1>3. published \in Seq(Msgs) /\ Len(published) \in Nat
  BY LenProperties DEF IInv, TypeOK
<1>4. \A k \in Range(published) : Pos[k] \in 1 .. Len(published) /\ k \in Msgs
  BY <1>3, PosIs DEF Pos
<1> QED BY <1>1, <1>2, <1>3, <1>4

\* What the running process has been given can only grow by a delivery to it.
LEMMA AttachedShrinks ==
  ASSUME \A d \in Consumers :
           \/ step'[d] = "down" \/ held'[d] = <<>>
           \/ step[d] # "down" /\ held'[d] = held[d]
  PROVE  Attached' \subseteq Attached
<1> SUFFICES ASSUME NEW d \in Running', NEW z \in Range(held'[d]) PROVE z \in Attached
  BY DEF Attached
<1>1. d \in Consumers /\ step'[d] # "down"
  BY DEF Running
<1>2. held'[d] # <<>>
  <2>1. Range(<<>>) = {}
    BY EmptySeq DEF Range
  <2> QED BY <2>1
<1>3. step[d] # "down" /\ held'[d] = held[d]
  BY <1>1, <1>2
<1> QED BY <1>1, <1>3 DEF Attached, Running

\* The log stays as it is while no ordered message comes back.
LEMMA LogKeeps ==
  ASSUME NEW S \in SUBSET Ordered, InOrder(S), published' = published, log' = log,
         \A z \in Waiting' \cup InHand' : z.id \in S => z \in Waiting \cup InHand,
         \A x \in InHand' : \A z \in Waiting' : NotAfter(x, z, S)
  PROVE  Pos' = Pos /\ OnceEach(published)' /\ LogInv(S)'
<1>1. Pos' = Pos
  BY DEF Pos
<1>2. \A k \in Range(log) :
        /\ k \in Range(published)
        /\ k \in S => \A z \in Waiting' \cup InHand' : z.id \in S => Pos[k] <= Pos[z.id]
  BY DEF InOrder, LogInv
<1>3. \A x \in InHand' : \A z \in Waiting' : NotAfter(x, z, S)'
  BY <1>1 DEF NotAfter
<1>4. \A i, j \in 1 .. Len(log) :
        i < j /\ log[i] \in S /\ log[j] \in S => Pos[log[i]] <= Pos[log[j]]
  BY DEF InOrder, LogInv
<1>5. OnceEach(published)'
  BY DEF InOrder
<1>6. LogInv(S)'
  BY <1>1, <1>2, <1>3, <1>4, Zenon DEF LogInv
<1> QED BY <1>1, <1>5, <1>6

\* Nothing comes to the queue, but its head may be given to a dead process.
LEMMA OrderQuiet ==
  ASSUME NEW S \in SUBSET Ordered, IInv, InOrder(S), published' = published, log' = log,
         orders' = orders \/ (orders # <<>> /\ orders' = Tail(orders)),
         \A z \in Delayed' : z \in Delayed \/ z.id \in Poison,
         Attached' \subseteq Attached, InHand' \subseteq InHand
  PROVE  InOrder(S)'
<1>0. Sorted(orders', Pos, S) /\ Range(orders') \subseteq Range(orders)
  <2>1. orders \in Seq(Copies) /\ Sorted(orders, Pos, S)
    BY DEF IInv, TypeOK, InOrder, LineUp
  <2>2. CASE orders' = orders
    BY <2>1, <2>2
  <2>3. CASE orders # <<>> /\ orders' = Tail(orders)
    BY <2>1, <2>3, SortedTail, RangeTail
  <2> QED BY <2>2, <2>3
<1>1. \A z \in Waiting' : z \in Waiting \/ z.id \in Poison
  BY <1>0 DEF Waiting
<1>2. \A z \in Delayed' : z.id \in Poison
  BY DEF InOrder, LineUp
<1>3. \A z : z.id \in Poison => z.id \notin Ordered
  BY TypesAssumption
<1>4. \A x \in InHand' : \A z \in Waiting' : NotAfter(x, z, S)
  BY <1>1, <1>3 DEF InOrder, LogInv, NotAfter
<1>5. \A z \in Waiting' \cup InHand' : z.id \in S => z \in Waiting \cup InHand
  BY <1>1, <1>3
<1>6. Pos' = Pos /\ OnceEach(published)' /\ LogInv(S)'
  BY <1>4, <1>5, LogKeeps
<1>7. \A x \in Attached' : Ahead(x, Range(orders'), Pos, S)
  BY <1>0 DEF InOrder, LineUp, Ahead
<1>8. LineUp(S)'
  BY <1>0, <1>2, <1>6, <1>7, Zenon DEF LineUp
<1> QED BY <1>6, <1>8 DEF InOrder

\* A copy that is not of an ordered message comes to the end of the queue.
LEMMA OrderBack ==
  ASSUME NEW S \in SUBSET Ordered, IInv, InOrder(S), published' = published, log' = log,
         NEW a \in Copies, a.id \notin Ordered, orders' = Append(orders, a),
         Delayed' \subseteq Delayed, Attached' = Attached, InHand' = InHand
  PROVE  InOrder(S)'
<1>1. orders \in Seq(Copies)
  BY DEF IInv, TypeOK
<1>2. Range(orders') = Range(orders) \cup {a}
  BY <1>1, RangeAppend
<1>3. Waiting' \subseteq Waiting \cup {a}
  BY <1>2 DEF Waiting
<1>4. \A x \in InHand' : \A z \in Waiting' : NotAfter(x, z, S)
  BY <1>3 DEF InOrder, LogInv, NotAfter
<1>5. \A z \in Waiting' \cup InHand' : z.id \in S => z \in Waiting \cup InHand
  BY <1>3
<1>6. Pos' = Pos /\ OnceEach(published)' /\ LogInv(S)'
  BY <1>4, <1>5, LogKeeps
<1>7. Sorted(orders, Pos, S)
  BY DEF InOrder, LineUp
<1>8. Sorted(orders', Pos, S)
  BY <1>1, <1>7, SortedAppend
<1>9. \A x \in Attached' : Ahead(x, Range(orders'), Pos, S)
  BY <1>2 DEF InOrder, LineUp, Ahead
<1>10. \A z \in Delayed' : z.id \in Poison
  BY DEF InOrder, LineUp
<1>11. LineUp(S)'
  BY <1>6, <1>8, <1>9, <1>10, Zenon DEF LineUp
<1> QED BY <1>6, <1>11 DEF InOrder

LEMMA OrderPublish ==
  ASSUME NEW S \in SUBSET Ordered, IInv, InOrder(S), NEW m \in Msgs, Publish(m)
  PROVE  InOrder(S)'
<1>1. /\ orders \in Seq(Copies) /\ published \in Seq(Msgs) /\ log \in Seq(Ordered)
      /\ OnceEach(published) /\ m \notin Range(published)
      /\ published' = Append(published, m) /\ orders' = Append(orders, Fresh(m))
      /\ retry' = retry /\ held' = held /\ hand' = hand /\ log' = log /\ step' = step
  BY DEF IInv, TypeOK, InOrder, Publish, files
<1>2. /\ OnceEach(published')
      /\ \A k \in Range(published) : Pos'[k] = Pos[k] /\ Pos[k] < Pos'[m]
  BY <1>1, LastPos DEF Pos
<1>3. Range(published') = Range(published) \cup {m}
  BY <1>1, RangeAppend
<1>4. published' \in Seq(Msgs)
  BY <1>1, RangeAppend
<1>5. \A k \in Range(published') : Pos'[k] \in Nat
  <2>1. \A k \in Range(published') : PosIn(published')[k] \in 1 .. Len(published')
    BY <1>2, <1>4, PosIs
  <2>2. Len(published') \in Nat
    BY <1>4, LenProperties
  <2> QED BY <2>1, <2>2 DEF Pos
<1>6. PICK a \in Copies : a = Fresh(m) /\ a.id = m
  BY CopyParts
<1>7. Range(orders') = Range(orders) \cup {a}
  BY <1>1, <1>6, RangeAppend
<1>8. Waiting' = Waiting \cup {a} /\ Delayed' = Delayed /\ Attached' = Attached /\ InHand' = InHand
  BY <1>1, <1>7 DEF Waiting, Delayed, Attached, Running, InHand
<1>9. \A z \in Waiting \cup InHand : /\ z.id \in Range(published) /\ Pos'[z.id] = Pos[z.id]
                                  /\ Pos'[z.id] < Pos'[a.id] /\ Pos'[z.id] \in Nat
  BY <1>1, <1>2, <1>3, <1>5, <1>6, Placed
<1>10. Pos'[a.id] \in Nat
  BY <1>3, <1>5, <1>6
<1>11. Sorted(orders', Pos', S)
  <2>1. \A z \in Range(orders) : Pos[z.id] = Pos'[z.id] /\ Pos'[z.id] < Pos'[a.id]
    BY <1>9 DEF Waiting
  <2>2. Sorted(orders, Pos, S)
    BY DEF InOrder, LineUp
  <2>3. Sorted(orders, Pos', S)
    BY <1>1, <2>1, <2>2, SortedSame
  <2> QED BY <1>1, <1>6, <2>1, <2>3, SortedAppend
<1>12. \A x \in Attached : Ahead(x, Range(orders'), Pos', S)
  <2>1. ASSUME NEW x \in Attached, NEW z \in Range(orders'), x.id \in S, z.id \in S
        PROVE  Pos'[x.id] < Pos'[z.id]
    <3>1. x \in Waiting
      BY DEF Waiting
    <3>2. CASE z = a
      BY <1>9, <3>1, <3>2
    <3>3. CASE z \in Range(orders)
      <4>1. Pos[x.id] < Pos[z.id] /\ z \in Waiting
        BY <2>1, <3>3 DEF InOrder, LineUp, Ahead, Waiting
      <4> QED BY <1>9, <3>1, <4>1
    <3> QED BY <1>7, <3>2, <3>3
  <2> QED BY <2>1 DEF Ahead
<1>13. LineUp(S)'
  <2>1. \A z \in Delayed' : z.id \in Poison
    BY <1>8 DEF InOrder, LineUp
  <2> QED BY <1>8, <1>11, <1>12, <2>1, Zenon DEF LineUp
<1>14. \A k \in Range(log) : k \in Range(published) /\ Pos'[k] = Pos[k] /\ Pos'[k] < Pos'[m]
  BY <1>2 DEF InOrder, LogInv
<1>15. \A i \in 1 .. Len(log) : log[i] \in Range(log)
  <2>1. DOMAIN log = 1 .. Len(log)
    BY <1>1, LenProperties
  <2> QED BY <2>1 DEF Range
<1>16. LogInv(S)'
  <2>1. \A i, j \in 1 .. Len(log) :
          i < j /\ log[i] \in S /\ log[j] \in S => Pos'[log[i]] <= Pos'[log[j]]
    BY <1>14, <1>15 DEF InOrder, LogInv
  <2>2. \A k \in Range(log) :
          /\ k \in Range(published')
          /\ k \in S => \A z \in Waiting' \cup InHand' : z.id \in S => Pos'[k] <= Pos'[z.id]
    <3>1. ASSUME NEW k \in Range(log), k \in S, NEW z \in Waiting' \cup InHand', z.id \in S
          PROVE  Pos'[k] <= Pos'[z.id]
      <4>1. CASE z = a
        BY <1>3, <1>5, <1>6, <1>14, <4>1
      <4>2. CASE z \in Waiting \cup InHand
        BY <1>9, <1>14, <3>1, <4>2 DEF InOrder, LogInv
      <4> QED BY <1>8, <4>1, <4>2
    <3> QED BY <1>3, <1>14, <3>1
  <2>3. \A x \in InHand' : \A z \in Waiting' : NotAfter(x, z, S)'
    <3>1. ASSUME NEW x \in InHand, NEW z \in Waiting \cup {a}, x.id \in S, z.id \in S
          PROVE  Pos'[x.id] <= Pos'[z.id]
      <4>1. CASE z = a
        BY <1>9, <1>10, <4>1
      <4>2. CASE z \in Waiting
        BY <1>9, <3>1, <4>2 DEF InOrder, LogInv, NotAfter
      <4> QED BY <4>1, <4>2
    <3> QED BY <1>8, <3>1 DEF NotAfter
  <2> QED BY <1>1, <2>1, <2>2, <2>3, Zenon DEF LogInv
<1> QED BY <1>2, <1>13, <1>16 DEF InOrder

\* The head of the queue is delivered to the only process, which works on nothing.
LEMMA OrderDeliver ==
  ASSUME NEW S \in SUBSET Ordered, OneRunning, IInv, InOrder(S), NEW c \in Consumers, Deliver(c)
  PROVE  InOrder(S)'
<1>1. /\ orders \in Seq(Copies) /\ orders # <<>> /\ orders' = Tail(orders)
      /\ held[c] = <<>> /\ retry' = retry /\ published' = published /\ log' = log
      /\ held' = [held EXCEPT ![c] = <<Head(orders)>>]
      /\ hand' = [hand EXCEPT ![c] = <<Head(orders)>>]
      /\ step[c] = "idle" /\ step' = [step EXCEPT ![c] = "work"]
  BY DEF IInv, TypeOK, Deliver, files
<1>2. PICK x \in Copies : /\ x = Head(orders) /\ Range(orders) = {x} \cup Range(Tail(orders))
                          /\ Tail(orders) \in Seq(Copies)
  BY <1>1, RangeTail
<1>3. \A d \in Consumers \ {c} : step[d] = "down" /\ step'[d] = "down" /\ hand'[d] = <<>>
  <2>1. \A d \in Consumers \ {c} : step[d] = "down"
    BY <1>1 DEF OneRunning
  <2>2. \A d \in Consumers \ {c} : step'[d] = step[d] /\ hand'[d] = hand[d]
    BY <1>1 DEF IInv, TypeOK
  <2> QED BY <2>1, <2>2, Slots DEF IInv
<1>4. held'[c] = <<x>> /\ hand'[c] = <<x>> /\ step'[c] = "work"
  BY <1>1, <1>2 DEF IInv, TypeOK
<1>5. Attached = {} /\ Attached' = {x} /\ InHand' = {x}
  <2>1. Running = {c} /\ Running' = {c}
    BY <1>1, <1>3, <1>4 DEF Running
  <2>2. Range(<<>>) = {} /\ Range(<<x>>) = {x}
    BY RangeShort
  <2>3. Range(hand'[c]) = {x} /\ \A d \in Consumers \ {c} : Range(hand'[d]) = {}
    BY <1>3, <1>4, <2>2
  <2>4. InHand' = {x}
    BY <2>3 DEF InHand
  <2> QED BY <1>1, <1>4, <2>1, <2>2, <2>4 DEF Attached
<1>6. Delayed' = Delayed /\ \A z \in Delayed : z.id \notin Ordered
  BY <1>1, TypesAssumption DEF Delayed, InOrder, LineUp
<1>7. Waiting' = Waiting /\ x \in Waiting
  BY <1>1, <1>2, <1>5, <1>6 DEF Waiting
<1>8. Sorted(Tail(orders), Pos, S) /\ Ahead(x, Range(Tail(orders)), Pos, S)
  BY <1>1, <1>2, SortedTail DEF InOrder, LineUp
<1>9. \A z \in InHand' : \A y \in Waiting' : NotAfter(z, y, S)
  <2> SUFFICES ASSUME NEW y \in Waiting, x.id \in S, y.id \in S
               PROVE  Pos[x.id] <= Pos[y.id]
    BY <1>5, <1>7 DEF NotAfter
  <2>1. Pos[x.id] \in Nat /\ Pos[y.id] \in Nat
    BY <1>7, Placed DEF InOrder
  <2>2. y = x \/ y \in Range(Tail(orders))
    BY <1>2, <1>5, <1>6 DEF Waiting
  <2> QED BY <1>8, <2>1, <2>2 DEF Ahead
<1>10. \A z \in Waiting' \cup InHand' : z.id \in S => z \in Waiting \cup InHand
  BY <1>5, <1>7
<1>11. Pos' = Pos /\ OnceEach(published)' /\ LogInv(S)'
  BY <1>1, <1>9, <1>10, LogKeeps
<1>12. \A z \in Attached' : Ahead(z, Range(orders'), Pos, S)
  BY <1>1, <1>5, <1>8
<1>13. \A z \in Delayed' : z.id \in Poison
  BY <1>6 DEF InOrder, LineUp
<1>14. LineUp(S)'
  BY <1>1, <1>8, <1>11, <1>12, <1>13, Zenon DEF LineUp
<1> QED BY <1>11, <1>14 DEF InOrder

\* What the running process was given goes back before everything else; what a
\* dead one was given is nothing that has to be in order.
LEMMA OrderDisconnect ==
  ASSUME NEW S \in SUBSET Ordered, OneRunning, IInv, InOrder(S), NEW c \in Consumers,
         Disconnect(c), \/ step[c] # "down"
                        \/ \A x \in Copies : held[c] = <<x>> => x.id \notin S
  PROVE  InOrder(S)'
<1>1. /\ orders \in Seq(Copies) /\ orders' = held[c] \o orders /\ held[c] \in Seq(Copies)
      /\ retry' = retry /\ hand' = hand /\ published' = published /\ step' = step /\ log' = log
      /\ held' = [held EXCEPT ![c] = <<>>]
  BY DEF IInv, TypeOK, Disconnect, Requeue, files
<1>2. held'[c] = <<>> /\ \A d \in Consumers \ {c} : held'[d] = held[d]
  BY <1>1 DEF IInv, TypeOK
<1>3. Attached' \subseteq Attached
  BY <1>1, <1>2, AttachedShrinks
<1>4. Delayed' = Delayed /\ InHand' = InHand
  BY <1>1 DEF Delayed, InHand
<1>5. Range(orders') = Range(held[c]) \cup Range(orders)
  BY <1>1, RangeConcatenation
<1>6. step[c] # "down" => Range(held[c]) \subseteq Attached /\ Attached' = {}
  <2> SUFFICES ASSUME step[c] # "down"
               PROVE  Range(held[c]) \subseteq Attached /\ Attached' = {}
    OBVIOUS
  <2>1. Running' = {c} /\ c \in Running
    BY <1>1 DEF OneRunning, Running
  <2>2. Range(held'[c]) = {}
    BY <1>2, EmptySeq DEF Range
  <2> QED BY <2>1, <2>2 DEF Attached
<1>7. \A x \in Range(held[c]) : Ahead(x, Range(orders), Pos, S) /\ (x.id \in S => x \in Attached)
  <2> SUFFICES ASSUME NEW x \in Range(held[c])
               PROVE  Ahead(x, Range(orders), Pos, S) /\ (x.id \in S => x \in Attached)
    OBVIOUS
  <2>1. CASE step[c] # "down"
    BY <1>6, <2>1 DEF InOrder, LineUp
  <2>2. CASE step[c] = "down"
    <3>1. held[c] # <<>>
      BY EmptySeq DEF Range
    <3>2. PICK y \in Copies : held[c] = <<y>>
      BY <3>1, Slots DEF IInv
    <3>3. Range(held[c]) = {y}
      BY <3>2, RangeShort
    <3>4. x.id \notin S
      BY <2>2, <3>2, <3>3
    <3> QED BY <3>4 DEF Ahead
  <2> QED BY <2>1, <2>2
<1>8. Sorted(orders', Pos, S)
  <2>1. Sorted(orders, Pos, S)
    BY DEF InOrder, LineUp
  <2>2. CASE held[c] = <<>>
    <3>1. orders' = orders
      BY <1>1, <2>2
    <3> QED BY <2>1, <3>1
  <2>3. ASSUME NEW x \in Copies, held[c] = <<x>> PROVE Sorted(orders', Pos, S)
    <3>1. Ahead(x, Range(orders), Pos, S)
      BY <1>7, <2>3, RangeShort
    <3> QED BY <1>1, <2>1, <2>3, <3>1, SortedFirst
  <2> QED BY <2>2, <2>3, Slots DEF IInv
<1>9. \A z \in Waiting' : z.id \in S => z \in Waiting
  BY <1>3, <1>4, <1>5, <1>7 DEF Waiting
<1>10. \A z \in InHand' : \A y \in Waiting' : NotAfter(z, y, S)
  BY <1>4, <1>9 DEF InOrder, LogInv, NotAfter
<1>11. \A z \in Waiting' \cup InHand' : z.id \in S => z \in Waiting \cup InHand
  BY <1>4, <1>9
<1>12. Pos' = Pos /\ OnceEach(published)' /\ LogInv(S)'
  BY <1>1, <1>10, <1>11, LogKeeps
<1>13. \A z \in Attached' : Ahead(z, Range(orders'), Pos, S)
  <2>1. CASE step[c] # "down"
    BY <1>6, <2>1
  <2>2. CASE step[c] = "down"
    <3>1. \A x \in Range(held[c]) : x.id \notin S
      <4>1. held[c] = <<>> => Range(held[c]) = {}
        BY EmptySeq DEF Range
      <4>2. \A y \in Copies : held[c] = <<y>> => Range(held[c]) = {y}
        BY RangeShort
      <4> QED BY <2>2, <4>1, <4>2, Slots DEF IInv
    <3> QED BY <1>3, <1>5, <3>1 DEF InOrder, LineUp, Ahead
  <2> QED BY <2>1, <2>2
<1>14. \A z \in Delayed' : z.id \in Poison
  BY <1>4 DEF InOrder, LineUp
<1>15. LineUp(S)'
  BY <1>8, <1>12, <1>13, <1>14, Zenon DEF LineUp
<1> QED BY <1>12, <1>15 DEF InOrder

\* An id is logged that no earlier message can follow.
LEMMA OrderComplete ==
  ASSUME NEW S \in SUBSET Ordered, OneRunning, IInv, InOrder(S), NEW c \in Consumers, Complete(c)
  PROVE  InOrder(S)'
<1>1. /\ step[c] = "work" /\ Head(hand[c]).id \in Ordered /\ log' = Append(log, Id(c))
      /\ published' = published /\ orders' = orders /\ retry' = retry
      /\ held' = held /\ hand' = hand /\ log \in Seq(Ordered)
      /\ step' = [step EXCEPT ![c] = "ack"]
  BY DEF Complete, At, Go, broker, IInv, TypeOK
<1>2. PICK x \in Copies : hand[c] = <<x>> /\ Id(c) = x.id /\ Head(hand[c]) = x
  BY <1>1, AtWork
<1>3. x.id \in Ordered /\ log' = Append(log, x.id) /\ x \in InHand /\ InHand = {x}
  <2>1. Range(hand[c]) = {x}
    BY <1>2, RangeShort
  <2>2. \A d \in Consumers \ {c} : hand[d] = <<>>
    BY <1>1, Slots DEF OneRunning, IInv
  <2>3. Range(<<>>) = {}
    BY RangeShort
  <2>4. \A d \in Consumers \ {c} : Range(hand[d]) = {}
    BY <2>2, <2>3
  <2>5. \A y \in InHand : y = x
    BY <2>1, <2>4 DEF InHand
  <2>6. x \in InHand
    BY <2>1 DEF InHand
  <2>7. InHand = {x}
    BY <2>5, <2>6
  <2>8. x.id \in Ordered /\ log' = Append(log, x.id)
    BY <1>1, <1>2
  <2> QED BY <2>6, <2>7, <2>8
<1>4. Waiting' = Waiting /\ InHand' = InHand /\ Delayed' = Delayed /\ Attached' = Attached
  <2>1. Running' = Running
    BY <1>1 DEF Running, IInv, TypeOK
  <2> QED BY <1>1, <2>1 DEF Waiting, InHand, Delayed, Attached
<1>5. Pos' = Pos /\ OnceEach(published)'
  BY <1>1 DEF Pos, InOrder
<1>6. LineUp(S)'
  BY <1>1, <1>4, <1>5, Zenon DEF InOrder, LineUp
<1>7. x.id \in Range(published) /\ Pos[x.id] \in Nat
  BY <1>3, Placed DEF InOrder
<1>8. x.id \in S => \A z \in Waiting \cup InHand : z.id \in S => Pos[x.id] <= Pos[z.id]
  BY <1>3, <1>7 DEF InOrder, LogInv, NotAfter
<1>9. /\ Len(log') = Len(log) + 1 /\ log'[Len(log) + 1] = x.id /\ Len(log) \in Nat
      /\ \A i \in 1 .. Len(log) : log'[i] = log[i]
      /\ Range(log') = Range(log) \cup {x.id}
  BY <1>1, <1>3, RangeAppend, AppendProperties, LenProperties
<1>10. \A i \in 1 .. Len(log) : log[i] \in Range(log)
  <2>1. DOMAIN log = 1 .. Len(log)
    BY <1>1, LenProperties
  <2> QED BY <2>1 DEF Range
<1>11. x.id \in S => \A k \in Range(log) : k \in S => Pos[k] <= Pos[x.id]
  BY <1>3 DEF InOrder, LogInv
<1>12. \A i, j \in 1 .. Len(log') :
         i < j /\ log'[i] \in S /\ log'[j] \in S => Pos[log'[i]] <= Pos[log'[j]]
  <2> SUFFICES ASSUME NEW i \in 1 .. Len(log'), NEW j \in 1 .. Len(log'), i < j,
                      log'[i] \in S, log'[j] \in S
               PROVE  Pos[log'[i]] <= Pos[log'[j]]
    OBVIOUS
  <2>1. i \in 1 .. Len(log) /\ log'[i] = log[i]
    BY <1>9
  <2>2. CASE j \in 1 .. Len(log)
    BY <1>9, <2>1, <2>2 DEF InOrder, LogInv
  <2>3. CASE j = Len(log) + 1
    BY <1>9, <1>10, <1>11, <2>1, <2>3
  <2> QED BY <1>9, <2>2, <2>3
<1>13. \A k \in Range(log') :
         /\ k \in Range(published)
         /\ k \in S => \A z \in Waiting \cup InHand : z.id \in S => Pos[k] <= Pos[z.id]
  BY <1>7, <1>8, <1>9 DEF InOrder, LogInv
<1>14. \A z \in InHand' : \A y \in Waiting' : NotAfter(z, y, S)'
  BY <1>4, <1>5 DEF InOrder, LogInv, NotAfter
<1>15. LogInv(S)'
  BY <1>1, <1>4, <1>5, <1>12, <1>13, <1>14, Zenon DEF LogInv
<1> QED BY <1>5, <1>6, <1>15 DEF InOrder

LEMMA OrderDelays ==
  ASSUME NEW S \in SUBSET Ordered, IInv, InOrder(S)
  PROVE  /\ \A n \in Attempts : Expire(n) => InOrder(S)'
         /\ \A c \in Consumers : TakePublish(c) \/ TakeAck(c) => InOrder(S)'
<1>1. retry \in [Attempts -> Seq(Copies)] /\ held \in [Consumers -> Seq(Copies)]
  BY DEF IInv, TypeOK
<1>2. ASSUME NEW n \in Attempts, Expire(n) PROVE InOrder(S)'
  <2>1. PICK y \in Copies : y = Head(retry[n]) /\ Tail(retry[n]) \in Seq(Copies)
                            /\ Range(retry[n]) = {y} \cup Range(Tail(retry[n]))
    <3>1. retry[n] \in Seq(Copies) /\ retry[n] # <<>>
      BY <1>1, <1>2 DEF Expire
    <3> QED BY <3>1, RangeTail
  <2>2. /\ orders' = Append(orders, y) /\ retry' = [retry EXCEPT ![n] = Tail(@)]
        /\ held' = held /\ hand' = hand /\ published' = published /\ log' = log
        /\ step' = step
    BY <1>2, <2>1 DEF Expire, files
  <2>3. retry'[n] = Tail(retry[n]) /\ \A k \in Attempts \ {n} : retry'[k] = retry[k]
    BY <1>1, <2>1, <2>2
  <2>4. \A k \in Attempts : Range(retry'[k]) \subseteq Range(retry[k])
    <3>1. Range(retry'[n]) \subseteq Range(retry[n])
      BY <2>1, <2>3
    <3>2. \A k \in Attempts \ {n} : Range(retry'[k]) \subseteq Range(retry[k])
      BY <2>3
    <3> QED BY <3>1, <3>2
  <2>5. Delayed' \subseteq Delayed
    BY <2>4 DEF Delayed
  <2>6. y \in Delayed
    BY <2>1 DEF Delayed
  <2>7. y.id \notin Ordered
    BY <2>6, TypesAssumption DEF InOrder, LineUp
  <2>8. Attached' = Attached /\ InHand' = InHand
    BY <2>2 DEF Attached, Running, InHand
  <2> QED BY <2>2, <2>5, <2>7, <2>8, OrderBack
<1>3. ASSUME NEW c \in Consumers, TakePublish(c) PROVE InOrder(S)'
  <2>1. /\ wire[c] # <<>> /\ Head(wire[c]).to = "queue" /\ orders' = orders
        /\ held' = held /\ hand' = hand /\ published' = published /\ log' = log
        /\ step' = step
    BY <1>3 DEF TakePublish, NextFrame, files
  <2>2. PICK x \in Copies, y \in Copies : Follows(y, x) /\ Head(wire[c]) = Send(y)
    <3>1. Head(wire[c]) # Ack
      BY <2>1, CopyParts
    <3> QED BY <2>1, <3>1, HeadFrame, Zenon
  <2>3. Head(wire[c]).copy = y /\ y.id \in Poison
    BY <2>2, CopyParts DEF Follows
  <2>4. \A z \in Delayed' : z \in Delayed \/ z.id \in Poison
    <3>1. CASE retry' = retry
      BY <3>1 DEF Delayed
    <3>2. ASSUME y.attempt \in Attempts, retry' = [retry EXCEPT ![y.attempt] = Append(@, y)]
          PROVE  \A z \in Delayed' : z \in Delayed \/ z.id \in Poison
      <4> DEFINE n == y.attempt
      <4>1. /\ n \in Attempts /\ retry[n] \in Seq(Copies)
            /\ retry'[n] = Append(retry[n], y)
            /\ \A k \in Attempts \ {n} : retry'[k] = retry[k]
        BY <1>1, <3>2
      <4> HIDE DEF n
      <4>2. Range(retry'[n]) = Range(retry[n]) \cup {y}
        BY <4>1, RangeAppend
      <4>3. ASSUME NEW k \in Attempts, NEW z \in Range(retry'[k])
            PROVE  z \in Delayed \/ z.id \in Poison
        <5>1. CASE k = n
          BY <2>3, <4>1, <4>2, <5>1 DEF Delayed
        <5>2. CASE k # n
          BY <4>1, <5>2 DEF Delayed
        <5> QED BY <5>1, <5>2
      <4> QED BY <4>3 DEF Delayed
    <3>3. \/ retry' = retry
          \/ y.attempt \in Attempts /\ retry' = [retry EXCEPT ![y.attempt] = Append(@, y)]
      BY <1>3, <2>3 DEF TakePublish
    <3> QED BY <3>1, <3>2, <3>3
  <2>5. Attached' = Attached /\ InHand' = InHand
    BY <2>1 DEF Attached, Running, InHand
  <2> QED BY <2>1, <2>4, <2>5, OrderQuiet
<1>4. ASSUME NEW c \in Consumers, TakeAck(c) PROVE InOrder(S)'
  <2>1. /\ held' = [held EXCEPT ![c] = <<>>] /\ orders' = orders /\ retry' = retry
        /\ hand' = hand /\ published' = published /\ log' = log /\ step' = step
    BY <1>4 DEF TakeAck, files
  <2>2. held'[c] = <<>> /\ \A d \in Consumers \ {c} : held'[d] = held[d]
    BY <1>1, <2>1
  <2>4. Attached' \subseteq Attached
    BY <2>1, <2>2, AttachedShrinks
  <2>5. Delayed' = Delayed /\ InHand' = InHand
    BY <2>1 DEF Delayed, InHand
  <2> QED BY <2>1, <2>4, <2>5, OrderQuiet, Zenon DEF InOrder, LineUp
<1> QED BY <1>2, <1>3, <1>4

\* The steps of a process that write to other files, or only to its connection,
\* and the ones that give the head of the queue to a dead process.
LEMMA OrderAside ==
  ASSUME NEW S \in SUBSET Ordered, IInv, InOrder(S), NEW c \in Consumers,
         \/ WriteRow(c) \/ LogEffect(c) \/ Check(c) \/ Mark(c) \/ Skip(c)
         \/ RetryOrBury(c) \/ SendAck(c) \/ EffectAndExit(c) \/ ConnectionError(c)
         \/ Kill(c) \/ Restart(c) \/ DeliverToDead(c)
  PROVE  InOrder(S)'
<1>1. /\ orders' = orders \/ (orders # <<>> /\ orders' = Tail(orders))
      /\ retry' = retry /\ published' = published /\ log' = log
      /\ hand' = hand \/ hand' = [hand EXCEPT ![c] = <<>>]
  BY DEF WriteRow, LogEffect, Check, Mark, Skip, RetryOrBury, SendAck, EffectAndExit,
         ConnectionError, Kill, Restart, DeliverToDead, Go, Exit, broker, files
<1>2. Delayed' = Delayed
  BY <1>1 DEF Delayed
<1>3. Attached' \subseteq Attached
  <2>1. ASSUME NEW s, step' = [step EXCEPT ![c] = s]
        PROVE  \A d \in Consumers \ {c} : step'[d] = step[d]
    BY <2>1 DEF IInv, TypeOK
  <2>2. CASE Restart(c)
    <3>1. held[c] = <<>>
      <4>1. LinkOf(c) /\ ~open[c]
        BY <2>2 DEF IInv, LinkInv, Restart
      <4> QED BY <4>1, Zenon DEF LinkOf
    <3>2. held' = held /\ \A d \in Consumers \ {c} : step'[d] = step[d]
      BY <2>1, <2>2 DEF Restart
    <3>3. \A d \in Consumers : step'[d] = "down" \/ held'[d] = <<>> \/ step[d] # "down"
      BY <3>1, <3>2
    <3> QED BY <3>2, <3>3, AttachedShrinks
  <2>3. CASE DeliverToDead(c)
    <3>1. step' = step /\ step[c] = "down" /\ \A d \in Consumers \ {c} : held'[d] = held[d]
      BY <2>3 DEF DeliverToDead, IInv, TypeOK
    <3> QED BY <3>1, AttachedShrinks
  <2>4. CASE ~Restart(c) /\ ~DeliverToDead(c)
    <3>1. step[c] # "down" /\ held' = held /\ \E s : step' = [step EXCEPT ![c] = s]
      BY <2>4 DEF WriteRow, LogEffect, Check, Mark, Skip, RetryOrBury, SendAck, EffectAndExit,
                  ConnectionError, Kill, Go, Exit, At, broker
    <3> QED BY <2>1, <3>1, AttachedShrinks
  <2> QED BY <2>2, <2>3, <2>4
<1>4. InHand' \subseteq InHand
  <2>1. CASE hand' = hand
    BY <2>1 DEF InHand
  <2>2. CASE hand' = [hand EXCEPT ![c] = <<>>]
    <3>1. hand'[c] = <<>> /\ \A d \in Consumers \ {c} : hand'[d] = hand[d]
      BY <2>2 DEF IInv, TypeOK
    <3>2. Range(hand'[c]) = {}
      BY <3>1, EmptySeq DEF Range
    <3> QED BY <3>1, <3>2 DEF InHand
  <2> QED BY <1>1, <2>1, <2>2
<1> QED BY <1>1, <1>2, <1>3, <1>4, OrderQuiet

\* A step keeps the order of the messages of S unless a closing half-open
\* connection brings one of them back.
LEMMA OrderStep ==
  ASSUME NEW S \in SUBSET Ordered, OneRunning, IInv, InOrder(S), [Next]_vars,
         \A c \in Consumers : Close(c) => \A x \in Copies : held[c] = <<x>> => x.id \notin S
  PROVE  InOrder(S)'
<1>1. ASSUME NEW m \in Msgs, Republish(m) PROVE InOrder(S)'
  <2>1. PICK a \in Copies : a = Fresh(m) /\ a.id = m
    BY CopyParts
  <2>2. /\ m \in Idempotent /\ orders' = Append(orders, a) /\ retry' = retry /\ held' = held
        /\ hand' = hand /\ published' = published /\ log' = log /\ step' = step
    BY <1>1, <2>1 DEF Republish, files
  <2>3. a.id \notin Ordered
    BY <2>1, <2>2, TypesAssumption
  <2>4. Delayed' = Delayed /\ Attached' = Attached /\ InHand' = InHand
    BY <2>2 DEF Delayed, Attached, Running, InHand
  <2> QED BY <2>2, <2>3, <2>4, OrderBack
<1>2. ASSUME NEW c \in Consumers, Close(c) PROVE InOrder(S)'
  <2>1. Disconnect(c) /\ \A x \in Copies : held[c] = <<x>> => x.id \notin S
    BY <1>2 DEF Close
  <2> QED BY <2>1, OrderDisconnect
<1>3. ASSUME NEW c \in Consumers, Cut(c) PROVE InOrder(S)'
  <2>1. Disconnect(c) /\ step[c] # "down"
    BY <1>3 DEF Cut
  <2> QED BY <2>1, OrderDisconnect
<1>4. CASE UNCHANGED vars
  <2>1. /\ orders' = orders /\ retry' = retry /\ held' = held /\ hand' = hand
        /\ published' = published /\ log' = log /\ step' = step
    BY <1>4 DEF vars
  <2>2. Delayed' = Delayed /\ Attached' = Attached /\ InHand' = InHand
    BY <2>1 DEF Delayed, Attached, Running, InHand
  <2> QED BY <2>1, <2>2, OrderQuiet
<1> QED BY <1>1, <1>2, <1>3, <1>4, OrderPublish, OrderDeliver, OrderComplete, OrderDelays,
           OrderAside DEF Next, Take, Handle

-----------------------------------------------------------------------------
\* Only a kill makes another half-open connection that may hold an ordered
\* message, and a close is the end of one.
LEMMA OrphanStep ==
  ASSUME IInv, [Next]_vars
  PROVE  /\ \/ kills' = kills /\ Orphans' \subseteq Orphans
            \/ \E c \in Consumers : kills' = kills + 1 /\ Orphans' \subseteq Orphans \cup {c}
         /\ \A c \in Consumers : Close(c) => c \notin Orphans' /\ kills' = kills
<1>1. ASSUME NEW c \in Consumers,
             step' = step \/ \E s : step' = [step EXCEPT ![c] = s],
             open' = open \/ \E b \in BOOLEAN : open' = [open EXCEPT ![c] = b],
             wire' = wire \/ \E w : wire' = [wire EXCEPT ![c] = w],
             held' = held \/ \E h : held' = [held EXCEPT ![c] = h]
      PROVE  Orphans' \subseteq Orphans \cup {c}
  <2>1. \A d \in Consumers \ {c} : step'[d] = step[d] /\ wire'[d] = wire[d] /\ held'[d] = held[d]
    BY <1>1 DEF IInv, TypeOK
  <2>2. \A d \in Consumers \ {c} : open'[d] <=> open[d]
    <3>1. open[c] \in BOOLEAN
      BY DEF IInv, TypeOK
    <3> QED BY <1>1, <3>1, Opens DEF IInv
  <2> SUFFICES ASSUME NEW d \in Consumers \ {c}, d \in Orphans' PROVE d \in Orphans
    BY DEF Orphans
  <2>3. step'[d] = "down" /\ open'[d] /\ ~Stuck(d)'
    BY DEF Orphans
  <2>4. ~Stuck(d)
    BY <2>1, <2>3 DEF Stuck
  <2>5. step[d] = "down" /\ open[d]
    BY <2>1, <2>2, <2>3, Zenon
  <2> QED BY <2>4, <2>5, Zenon DEF Orphans
<1>2. ASSUME NEW c \in Consumers, step'[c] # "down" \/ ~open'[c] PROVE c \notin Orphans'
  BY <1>2, Zenon DEF Orphans
<1>3. CASE \/ \E m \in Msgs : Publish(m) \/ Republish(m)
           \/ \E n \in Attempts : Expire(n)
           \/ UNCHANGED vars
  <2>1. UNCHANGED <<step, open, wire, held, kills>>
    BY <1>3 DEF Publish, Republish, Expire, vars
  <2>2. Orphans' = Orphans
    BY <2>1 DEF Orphans, Stuck
  <2>3. \A c \in Consumers : Close(c) => c \notin Orphans'
    <3> SUFFICES ASSUME NEW c \in Consumers, Close(c) PROVE c \notin Orphans'
      OBVIOUS
    <3>1. ~open'[c]
      BY Opens DEF Close, Disconnect, IInv
    <3> QED BY <1>2, <3>1
  <2>4. \A c \in Consumers : Close(c) => kills' = kills
    BY <2>1
  <2> QED BY <2>1, <2>2, <2>3, <2>4
<1>4. ASSUME NEW c \in Consumers, Close(c) PROVE c \notin Orphans' /\ kills' = kills
  <2>1. ~open'[c] /\ kills' = kills
    BY <1>4, Opens DEF Close, Disconnect, IInv
  <2> QED BY <1>2, <2>1
<1>5. ASSUME NEW c \in Consumers, Close(c) \/ Cut(c)
      PROVE  kills' = kills /\ Orphans' \subseteq Orphans
  <2>1. /\ step' = step /\ open' = [open EXCEPT ![c] = FALSE] /\ kills' = kills
        /\ wire' = [wire EXCEPT ![c] = <<>>] /\ held' = [held EXCEPT ![c] = <<>>]
    BY <1>5 DEF Close, Cut, Disconnect
  <2>2. Orphans' \subseteq Orphans \cup {c}
    BY <1>1, <2>1
  <2>3. ~open'[c]
    BY <2>1, Opens DEF IInv
  <2> QED BY <1>2, <2>1, <2>2, <2>3
<1>6. ASSUME NEW c \in Consumers,
             \/ Deliver(c) \/ Restart(c) \/ WriteRow(c) \/ LogEffect(c) \/ RetryOrBury(c)
             \/ Check(c) \/ Mark(c) \/ Complete(c) \/ Skip(c) \/ SendAck(c)
      PROVE  kills' = kills /\ Orphans' \subseteq Orphans
  <2>1. /\ kills' = kills /\ \E s \in Steps \ {"down"} : step' = [step EXCEPT ![c] = s]
        /\ open' = open \/ \E b \in BOOLEAN : open' = [open EXCEPT ![c] = b]
        /\ wire' = wire \/ \E w : wire' = [wire EXCEPT ![c] = w]
        /\ held' = held \/ \E h : held' = [held EXCEPT ![c] = h]
    BY <1>6 DEF Deliver, Restart, WriteRow, LogEffect, RetryOrBury, Check, Mark, Complete, Skip,
                SendAck, Go, broker, Steps
  <2>2. step'[c] # "down"
    BY <2>1 DEF IInv, TypeOK
  <2>3. Orphans' \subseteq Orphans \cup {c}
    BY <1>1, <2>1
  <2> QED BY <1>2, <2>1, <2>2, <2>3
<1>7. ASSUME NEW c \in Consumers, EffectAndExit(c) \/ ConnectionError(c) \/ Kill(c)
      PROVE  /\ step' = [step EXCEPT ![c] = "down"] /\ Orphans' \subseteq Orphans \cup {c}
             /\ open' = open /\ wire' = wire /\ held' = held
  <2>1. /\ step' = [step EXCEPT ![c] = "down"] /\ open' = open /\ wire' = wire /\ held' = held
    BY <1>7 DEF EffectAndExit, ConnectionError, Kill, Exit, broker
  <2> QED BY <1>1, <2>1
<1>8. ASSUME NEW c \in Consumers, ConnectionError(c)
      PROVE  kills' = kills /\ Orphans' \subseteq Orphans
  <2>1. ~open'[c] /\ kills' = kills
    BY <1>7, <1>8 DEF ConnectionError
  <2> QED BY <1>2, <1>7, <1>8, <2>1
<1>9. ASSUME NEW c \in Consumers, Kill(c)
      PROVE  kills' = kills + 1 /\ Orphans' \subseteq Orphans \cup {c}
  BY <1>7, <1>9 DEF Kill
<1>10. ASSUME NEW c \in Consumers, EffectAndExit(c)
       PROVE  kills' = kills /\ Orphans' \subseteq Orphans
  <2>1. /\ step[c] \in {"work", "effect"} /\ Head(hand[c]).id \in Crash \cup Idempotent
        /\ kills' = kills
    BY <1>10 DEF EffectAndExit, At
  <2>2. PICK x \in Copies : /\ hand[c] = <<x>> /\ Head(hand[c]) = x
                            /\ open[c] => held[c] = <<x>>
                            /\ wire[c] = <<>>
    BY <2>1, AtWork
  <2>3. x.id \notin Ordered
    BY <2>1, <2>2, TypesAssumption
  <2>4. open[c] => Stuck(c)'
    <3> SUFFICES ASSUME open[c] PROVE Stuck(c)'
      OBVIOUS
    <3>1. held'[c] = <<x>> /\ wire'[c] = <<>>
      BY <1>7, <1>10, <2>2, Zenon
    <3>2. <<x>> # <<>> /\ Head(<<x>>) = x
      BY RangeShort
    <3> QED BY <2>3, <3>1, <3>2 DEF Stuck
  <2>5. c \notin Orphans'
    <3>1. open' = open
      BY <1>7, <1>10
    <3> QED BY <2>4, <3>1, Zenon DEF Orphans
  <2> QED BY <1>7, <1>10, <2>1, <2>5
<1>11. ASSUME NEW c \in Consumers, DeliverToDead(c) \/ TakePublish(c) \/ TakeAck(c)
       PROVE  kills' = kills /\ Orphans' \subseteq Orphans
  <2>1. /\ step' = step /\ open' = open /\ open[c] /\ kills' = kills
        /\ wire' = wire \/ \E w : wire' = [wire EXCEPT ![c] = w]
        /\ held' = held \/ \E h : held' = [held EXCEPT ![c] = h]
    BY <1>11 DEF DeliverToDead, TakePublish, TakeAck, NextFrame
  <2>2. ~Stuck(c)
    BY <1>11 DEF DeliverToDead, TakePublish, TakeAck, NextFrame, Stuck
  <2>3. Orphans' \subseteq Orphans \cup {c}
    BY <1>1, <2>1
  <2>4. c \in Orphans' => c \in Orphans
    BY <2>1, <2>2, Zenon DEF Orphans
  <2> QED BY <2>1, <2>3, <2>4
<1> QED BY <1>3, <1>4, <1>5, <1>6, <1>8, <1>9, <1>10, <1>11 DEF Next, Take, Handle

\* A half-open connection that brings an ordered message back was counted.
LEMMA LateAtClose ==
  ASSUME IInv, NEW c \in Consumers, Close(c), NEW x \in Copies, held[c] = <<x>>, x.id \in Ordered
  PROVE  c \in Orphans
<1>1. step[c] = "down" /\ open[c]
  BY DEF Close, Disconnect
<1>2. Head(held[c]).id \in Ordered
  BY RangeShort
<1>3. ~Stuck(c)
  BY <1>2 DEF Stuck
<1> QED BY <1>1, <1>3, Zenon DEF Orphans

LEMMA OrphansFinite == IsFiniteSet(Orphans) /\ Cardinality(Orphans) \in Nat
<1>1. Orphans \subseteq Consumers
  BY DEF Orphans
<1> QED BY <1>1, ConsumersAssumption, FS_Subset, FS_CardinalityType

LEMMA FewerInOrder ==
  ASSUME NEW S, NEW R \in SUBSET S, InOrder(S) PROVE InOrder(R)
<1>1. Sorted(orders, Pos, R)
  BY DEF InOrder, LineUp, Sorted
<1>2. LineUp(R)
  BY <1>1 DEF InOrder, LineUp, Ahead
<1>3. LogInv(R)
  BY DEF InOrder, LogInv, NotAfter
<1> QED BY <1>2, <1>3 DEF InOrder

LEMMA OrderInvStep ==
  ASSUME Containers = 1, OneRunning, IInv, OrderInv, [Next]_vars
  PROVE  OrderInv'
<1>1. PICK late \in SUBSET Ordered :
        /\ IsFiniteSet(late)
        /\ Cardinality(late) + Cardinality(Orphans) <= kills
        /\ InOrder(Ordered \ late)
  BY DEF OrderInv
<1>2. /\ IsFiniteSet(Orphans) /\ Cardinality(Orphans) \in Nat
      /\ IsFiniteSet(Orphans') /\ Cardinality(Orphans') \in Nat
      /\ Cardinality(late) \in Nat /\ kills \in Nat
  <2>1. Orphans' \subseteq Consumers
    BY DEF Orphans
  <2>2. IsFiniteSet(Orphans')
    BY <2>1, ConsumersAssumption, FS_Subset
  <2>3. kills \in Nat
    BY DEF IInv, TypeOK
  <2> QED BY <1>1, <2>2, <2>3, OrphansFinite, FS_CardinalityType
<1>3. \/ kills' = kills /\ Cardinality(Orphans') <= Cardinality(Orphans)
      \/ kills' = kills + 1 /\ Cardinality(Orphans') <= Cardinality(Orphans) + 1
  <2>1. CASE kills' = kills /\ Orphans' \subseteq Orphans
    <3>1. Cardinality(Orphans') <= Cardinality(Orphans)
      BY <1>2, <2>1, FS_Subset
    <3> QED BY <2>1, <3>1
  <2>2. ASSUME NEW c \in Consumers, kills' = kills + 1, Orphans' \subseteq Orphans \cup {c}
        PROVE  kills' = kills + 1 /\ Cardinality(Orphans') <= Cardinality(Orphans) + 1
    <3> DEFINE U == Orphans \cup {c}
    <3>1. IsFiniteSet(U) /\ Cardinality(U) \in Nat /\ Cardinality(U) <= Cardinality(Orphans) + 1
      <4>1. IsFiniteSet(U) /\ (Cardinality(U) = Cardinality(Orphans)
                                \/ Cardinality(U) = Cardinality(Orphans) + 1)
        BY <1>2, FS_AddElement
      <4> QED BY <1>2, <4>1
    <3>2. Cardinality(Orphans') <= Cardinality(U)
      <4> HIDE DEF U
      <4>1. Orphans' \subseteq U
        BY <2>2 DEF U
      <4> QED BY <3>1, <4>1, FS_Subset
    <3> HIDE DEF U
    <3> QED BY <1>2, <2>2, <3>1, <3>2
  <2> QED BY <2>1, <2>2, OrphanStep
<1>4. CASE \A c \in Consumers : Close(c) =>
             \A x \in Copies : held[c] = <<x>> => x.id \notin Ordered \ late
  <2>1. InOrder(Ordered \ late)'
    BY <1>1, <1>4, OrderStep
  <2>2. Cardinality(late) + Cardinality(Orphans') <= kills'
    BY <1>1, <1>2, <1>3
  <2> QED BY <1>1, <2>1, <2>2 DEF OrderInv
<1>5. ASSUME NEW c \in Consumers, Close(c), NEW x \in Copies, held[c] = <<x>>,
             x.id \in Ordered \ late
      PROVE  OrderInv'
  <2> DEFINE later == late \cup {x.id}
  <2>1. /\ later \in SUBSET Ordered /\ IsFiniteSet(later)
        /\ Cardinality(later) = Cardinality(late) + 1
    BY <1>1, <1>5, FS_AddElement
  <2>2. c \in Orphans /\ c \notin Orphans' /\ kills' = kills /\ Orphans' \subseteq Orphans
    <3>1. c \in Orphans
      BY <1>5, LateAtClose
    <3>2. c \notin Orphans' /\ kills' = kills
      BY <1>5, OrphanStep
    <3>3. kills' # kills + 1
      BY <1>2, <3>2
    <3> QED BY <3>1, <3>2, <3>3, OrphanStep
  <2>3. Cardinality(Orphans') + 1 <= Cardinality(Orphans)
    <3> DEFINE U == Orphans \ {c}
    <3>1. IsFiniteSet(U) /\ Cardinality(U) = Cardinality(Orphans) - 1
      BY <1>2, <2>2, FS_RemoveElement
    <3>2. Orphans' \subseteq U
      BY <2>2
    <3> HIDE DEF U
    <3>3. Cardinality(Orphans') <= Cardinality(U)
      BY <3>1, <3>2, FS_Subset
    <3> QED BY <1>2, <3>1, <3>3
  <2> HIDE DEF later
  <2>4. Cardinality(later) + Cardinality(Orphans') <= kills'
    BY <1>1, <1>2, <2>1, <2>2, <2>3
  <2>5. InOrder(Ordered \ later)
    <3>1. Ordered \ later \in SUBSET (Ordered \ late)
      BY DEF later
    <3> QED BY <1>1, <3>1, FewerInOrder
  <2>6. \A d \in Consumers : Close(d) =>
          \A z \in Copies : held[d] = <<z>> => z.id \notin Ordered \ later
    <3> SUFFICES ASSUME NEW d \in Consumers, Close(d), NEW z \in Copies, held[d] = <<z>>
                 PROVE  z.id \in later
      OBVIOUS
    <3>1. d = c
      <4>1. ~open'[d] /\ \A e \in Consumers \ {d} : open'[e] <=> open[e]
        BY Opens DEF Close, Disconnect, IInv
      <4>2. open[c] /\ ~open'[c]
        BY <1>5, Opens DEF Close, Disconnect, IInv
      <4> QED BY <4>1, <4>2, Zenon
    <3>2. Head(<<z>>) = z /\ Head(<<x>>) = x
      BY RangeShort
    <3>3. z = x
      BY <1>5, <3>1, <3>2
    <3> QED BY <3>3 DEF later
  <2>7. InOrder(Ordered \ later)'
    <3>1. Ordered \ later \in SUBSET Ordered
      OBVIOUS
    <3> QED BY <2>5, <2>6, <3>1, OrderStep
  <2> QED BY <2>1, <2>4, <2>7 DEF OrderInv
<1> QED BY <1>4, <1>5

\* R7-08: one container completes ordered messages in the order they were first
\* published, through redeliveries, cut connections and restarts, all but one at
\* most for each killed process: the one its half-open connection brings back late.
THEOREM CompletionOrder == ASSUME Containers = 1 PROVE Spec => []CompletedInOrder
<1>1. Init => OneRunning /\ OrderInv
  <2> SUFFICES ASSUME Init PROVE OneRunning /\ OrderInv
    OBVIOUS
  <2>1. Range(<<>>) = {}
    BY EmptySeq DEF Range
  <2>2. Delayed = {} /\ Attached = {} /\ InHand = {}
    BY <2>1 DEF Init, Delayed, Attached, Running, InHand
  <2>3. Len(published) = 0 /\ Len(orders) = 0 /\ Len(log) = 0 /\ Range(log) = {}
    BY <2>1 DEF Init
  <2>4. OnceEach(published)
    BY <2>3 DEF OnceEach
  <2>5. LineUp(Ordered)
    BY <2>2, <2>3 DEF LineUp, Sorted
  <2>6. LogInv(Ordered)
    BY <2>2, <2>3 DEF LogInv
  <2> DEFINE none == {}
  <2>7. /\ none \in SUBSET Ordered /\ IsFiniteSet(none) /\ Cardinality(none) = 0
        /\ Ordered \ none = Ordered
    BY FS_EmptySet
  <2>8. Cardinality(Orphans) = 0 /\ kills = 0
    <3>1. Orphans = {}
      BY DEF Init, Orphans
    <3> QED BY <3>1, FS_EmptySet DEF Init
  <2>9. OneRunning
    BY DEF Init, OneRunning
  <2> HIDE DEF none
  <2> QED BY <2>4, <2>5, <2>6, <2>7, <2>8, <2>9 DEF OrderInv, InOrder
<1>2. IInv /\ OneRunning /\ OrderInv /\ [Next]_vars => (OneRunning /\ OrderInv)'
  BY RunStep, OrderInvStep
<1>3. ASSUME IInv, OrderInv PROVE CompletedInOrder
  <2>1. PICK late \in SUBSET Ordered :
          /\ IsFiniteSet(late)
          /\ Cardinality(late) + Cardinality(Orphans) <= kills
          /\ InOrder(Ordered \ late)
    BY <1>3 DEF OrderInv
  <2>2. Cardinality(late) <= kills
    <3>1. Cardinality(late) \in Nat /\ Cardinality(Orphans) \in Nat /\ kills \in Nat
      BY <1>3, <2>1, OrphansFinite, FS_CardinalityType DEF IInv, TypeOK
    <3> QED BY <2>1, <3>1
  <2>3. ASSUME NEW i \in 1 .. Len(log) PROVE Pos[log[i]] = Position(log[i]) /\ log[i] \in Ordered
    <3>1. log[i] \in Ordered
      BY <1>3, ElementOfSeq DEF IInv, TypeOK
    <3>2. log[i] \in Msgs
      BY <3>1 DEF Msgs
    <3> QED BY <3>1, <3>2 DEF Pos, PosIn, Position
  <2>4. \A i, j \in 1 .. Len(log) :
          i < j /\ log[i] \notin late /\ log[j] \notin late => Position(log[i]) <= Position(log[j])
    <3> SUFFICES ASSUME NEW i \in 1 .. Len(log), NEW j \in 1 .. Len(log), i < j,
                        log[i] \notin late, log[j] \notin late
                 PROVE  Pos[log[i]] <= Pos[log[j]]
      BY <2>3
    <3>1. log[i] \in Ordered \ late /\ log[j] \in Ordered \ late
      BY <2>3
    <3> QED BY <2>1, <3>1 DEF InOrder, LogInv
  <2> QED BY <1>3, <2>1, <2>2, <2>4 DEF IInv, CompletedInOrder
<1> QED BY <1>1, <1>2, <1>3, Invariance, PTL DEF Spec
-----------------------------------------------------------------------------
\* The copies of a message that rest in queues, and those that a connection may
\* still add to them without another fault: one when what is delivered to a
\* process has not been replaced by a resent copy, two when the process is down
\* and its last copy is in flight.
Delays(m) == CountIn(retry[1], m) + CountIn(retry[2], m) + CountIn(retry[3], m)
Resting(m) == CountIn(orders, m) + CountIn(dlq, m) + Delays(m)
Owes(h, m) == h # <<>> /\ Head(h).id = m
Carries(w) == w # <<>> /\ Head(w) # Ack
Replaces(w, s, m) == m \in Poison /\ s \in {"idle", "ack"} /\ ~Carries(w)
OweOne(m) == {c \in Consumers : Owes(held[c], m) /\ ~Replaces(wire[c], step[c], m)}
OweTwo(m) == {c \in Consumers : Owes(held[c], m) /\ step[c] = "down" /\ Carries(wire[c])}
AccountInv ==
  \A m \in Msgs :
    Resting(m) + Cardinality(OweOne(m)) + Cardinality(OweTwo(m)) <= 1 + faults

Places(q, m) == {i \in 1 .. Len(q) : q[i].id = m}
Unit(b) == IF b THEN 1 ELSE 0

\* The places of a message in a queue are finitely many, ...
LEMMA CountNat ==
  ASSUME NEW q \in Seq(Copies), NEW m
  PROVE  /\ IsFiniteSet(Places(q, m)) /\ CountIn(q, m) = Cardinality(Places(q, m))
         /\ CountIn(q, m) \in Nat
<1>1. IsFiniteSet(1 .. Len(q))
  BY LenProperties, FS_Interval
<1>2. Places(q, m) \subseteq 1 .. Len(q)
  BY DEF Places
<1>3. IsFiniteSet(Places(q, m)) /\ CountIn(q, m) = Cardinality(Places(q, m))
  BY <1>1, <1>2, FS_Subset DEF Places, CountIn
<1> QED BY <1>3, FS_CardinalityType

\* ... one more when a copy of it is added at the end ...
LEMMA CountAppend ==
  ASSUME NEW q \in Seq(Copies), NEW a \in Copies, NEW m
  PROVE  CountIn(Append(q, a), m) = CountIn(q, m) + Unit(a.id = m)
<1> DEFINE r == Append(q, a)
<1>1. /\ Len(r) = Len(q) + 1 /\ r[Len(q) + 1] = a /\ Len(q) \in Nat
      /\ \A i \in 1 .. Len(q) : r[i] = q[i]
  BY AppendProperties, LenProperties
<1>2. IsFiniteSet(Places(q, m)) /\ CountIn(q, m) = Cardinality(Places(q, m))
      /\ CountIn(q, m) \in Nat
  BY CountNat
<1> HIDE DEF r
<1>4. CountIn(r, m) = CountIn(q, m) + Unit(a.id = m)
  <2>1. CountIn(r, m) = Cardinality(Places(r, m))
    BY DEF CountIn, Places
  <2>2. CASE a.id = m
    <3>1. Places(r, m) = Places(q, m) \cup {Len(q) + 1} /\ Len(q) + 1 \notin Places(q, m)
      BY <1>1, <2>2 DEF Places
    <3>2. Cardinality(Places(r, m)) = Cardinality(Places(q, m)) + 1
      BY <1>2, <3>1, FS_AddElement
    <3> QED BY <1>2, <2>1, <2>2, <3>2 DEF Unit
  <2>3. CASE a.id # m
    <3>1. Places(r, m) = Places(q, m)
      BY <1>1, <2>3 DEF Places
    <3> QED BY <1>2, <2>1, <2>3, <3>1 DEF Unit
  <2> QED BY <2>2, <2>3
<1> QED BY <1>4 DEF r

\* ... and one less when its first copy is taken, which moves the others up.
LEMMA CountTail ==
  ASSUME NEW q \in Seq(Copies), q # <<>>, NEW m
  PROVE  CountIn(q, m) = CountIn(Tail(q), m) + Unit(Head(q).id = m)
<1> DEFINE t == Tail(q)
<1>1. /\ t \in Seq(Copies) /\ Head(q) \in Copies /\ Head(q) = q[1] /\ Len(t) = Len(q) - 1
      /\ Len(q) \in Nat \ {0} /\ \A i \in 1 .. Len(t) : t[i] = q[i + 1]
  <2>1. Len(q) \in Nat \ {0}
    BY EmptySeq, LenProperties
  <2> QED BY <2>1, HeadTailProperties
<1> HIDE DEF t
<1>2. IsFiniteSet(Places(t, m)) /\ CountIn(t, m) = Cardinality(Places(t, m))
      /\ CountIn(t, m) \in Nat /\ CountIn(q, m) = Cardinality(Places(q, m))
  BY <1>1, CountNat
<1> DEFINE up == {i + 1 : i \in Places(t, m)}
           f == [i \in Places(t, m) |-> i + 1]
<1>3. IsFiniteSet(up) /\ Cardinality(up) = Cardinality(Places(t, m))
  <2>1. Places(t, m) \subseteq Nat
    BY <1>1 DEF Places
  <2>2. /\ f \in [Places(t, m) -> up] /\ \A i \in Places(t, m) : f[i] = i + 1
        /\ \A i, j \in Places(t, m) : f[i] = f[j] => i = j
        /\ \A k \in up : \E i \in Places(t, m) : f[i] = k
    BY <2>1
  <2> HIDE DEF f, up
  <2>3. f \in Bijection(Places(t, m), up)
    BY <2>2, Fun_IsBij
  <2> QED BY <1>2, <2>3, FS_Bijection DEF ExistsBijection
<1>4. 1 \notin up
  BY <1>1 DEF Places
<1>5. CASE Head(q).id = m
  <2>1. Places(q, m) = up \cup {1}
    <3>1. \A k \in Places(q, m) : k \in up \cup {1}
      <4> SUFFICES ASSUME NEW k \in Places(q, m), k # 1 PROVE k \in up
        OBVIOUS
      <4>1. k - 1 \in 1 .. Len(t) /\ t[k - 1] = q[k] /\ k = (k - 1) + 1
        BY <1>1 DEF Places
      <4> QED BY <4>1 DEF Places
    <3>2. \A k \in up \cup {1} : k \in Places(q, m)
      BY <1>1, <1>5 DEF Places
    <3> QED BY <3>1, <3>2
  <2>2. Cardinality(Places(q, m)) = Cardinality(up) + 1
    BY <1>3, <1>4, <2>1, FS_AddElement
  <2> QED BY <1>2, <1>3, <1>5, <2>2 DEF Unit, t
<1>6. CASE Head(q).id # m
  <2>1. Places(q, m) = up
    <3>1. \A k \in Places(q, m) : k \in up
      <4> SUFFICES ASSUME NEW k \in Places(q, m) PROVE k \in up
        OBVIOUS
      <4>1. k - 1 \in 1 .. Len(t) /\ t[k - 1] = q[k] /\ k = (k - 1) + 1
        BY <1>1, <1>6 DEF Places
      <4> QED BY <4>1 DEF Places
    <3>2. \A k \in up : k \in Places(q, m)
      BY <1>1 DEF Places
    <3> QED BY <3>1, <3>2
  <2> QED BY <1>2, <1>3, <1>6, <2>1 DEF Unit, t
<1> QED BY <1>5, <1>6

LEMMA CountFirst ==
  ASSUME NEW q \in Seq(Copies), NEW x \in Copies, NEW m
  PROVE  CountIn(<<x>> \o q, m) = CountIn(q, m) + Unit(x.id = m)
<1> DEFINE s == <<x>>
<1>1. s \in Seq(Copies) /\ Len(s) = 1 /\ s[1] = x
  OBVIOUS
<1> HIDE DEF s
<1> DEFINE r == s \o q
<1>2. /\ r \in Seq(Copies) /\ Len(r) = Len(s) + Len(q)
      /\ \A i \in 1 .. Len(s) + Len(q) :
           r[i] = IF i <= Len(s) THEN s[i] ELSE q[i - Len(s)]
  <2>1. \A a, b \in Seq(Copies) :
          /\ a \o b \in Seq(Copies) /\ Len(a \o b) = Len(a) + Len(b)
          /\ \A i \in 1 .. Len(a) + Len(b) :
               (a \o b)[i] = IF i <= Len(a) THEN a[i] ELSE b[i - Len(a)]
    BY ConcatProperties
  <2> QED BY <1>1, <2>1
<1> HIDE DEF r
<1>3. r[1] = x /\ Len(r) = 1 + Len(q) /\ Len(q) \in Nat
  BY <1>1, <1>2, LenProperties
<1>4. r # <<>>
  BY <1>2, <1>3, EmptySeq
<1> DEFINE t == Tail(r)
<1>5. /\ t \in Seq(Copies) /\ Head(r) = x /\ Len(t) = Len(q)
      /\ \A i \in 1 .. Len(q) : t[i] = r[i + 1]
  <2>1. /\ t \in Seq(Copies) /\ Head(r) = r[1] /\ Len(t) = Len(r) - 1
        /\ \A i \in 1 .. Len(t) : t[i] = r[i + 1]
    BY <1>2, <1>4, HeadTailProperties
  <2> QED BY <1>3, <2>1
<1> HIDE DEF t
<1>6. \A i \in 1 .. Len(q) : t[i] = q[i]
  <2> SUFFICES ASSUME NEW i \in 1 .. Len(q) PROVE t[i] = q[i]
    OBVIOUS
  <2>1. i + 1 \in 1 .. 1 + Len(q) /\ (i + 1) - 1 = i /\ ~(i + 1 <= 1)
    BY <1>3
  <2>2. t[i] = r[i + 1]
    BY <1>5
  <2> QED BY <1>1, <1>2, <2>1, <2>2
<1>7. t = q
  <2>1. t \in Seq(Copies) /\ Len(t) = Len(q)
    BY <1>5
  <2> QED BY <1>6, <2>1, SeqEqual
<1>8. CountIn(r, m) = CountIn(q, m) + Unit(x.id = m)
  <2>1. CountIn(r, m) = CountIn(Tail(r), m) + Unit(Head(r).id = m)
    BY <1>2, <1>4, CountTail
  <2>2. Tail(r) = q
    BY <1>7 DEF t
  <2> QED BY <1>5, <2>1, <2>2
<1> QED BY <1>8 DEF r, s

\* Where a message has no copy it counts for nothing.
LEMMA CountNone ==
  ASSUME NEW q \in Seq(Copies), NEW m, \A z \in Range(q) : z.id # m
  PROVE  CountIn(q, m) = 0
<1>1. DOMAIN q = 1 .. Len(q)
  BY LenProperties
<1>2. {i \in 1 .. Len(q) : q[i].id = m} = {}
  BY <1>1 DEF Range
<1> QED BY <1>2, FS_EmptySet DEF CountIn

LEMMA RestNat ==
  ASSUME TypeOK, NEW m
  PROVE  /\ CountIn(orders, m) \in Nat /\ CountIn(dlq, m) \in Nat
         /\ \A n \in Attempts : CountIn(retry[n], m) \in Nat
         /\ Delays(m) \in Nat /\ Resting(m) \in Nat
<1>1. /\ orders \in Seq(Copies) /\ dlq \in Seq(Copies)
      /\ \A n \in Attempts : retry[n] \in Seq(Copies)
  BY DEF TypeOK
<1>2. CountIn(orders, m) \in Nat /\ CountIn(dlq, m) \in Nat
  BY <1>1, CountNat
<1>3. \A n \in Attempts : CountIn(retry[n], m) \in Nat
  BY <1>1, CountNat
<1>4. /\ CountIn(retry[1], m) \in Nat /\ CountIn(retry[2], m) \in Nat
      /\ CountIn(retry[3], m) \in Nat
  BY <1>3 DEF Attempts
<1> QED BY <1>2, <1>3, <1>4 DEF Delays, Resting

\* One delay queue changes.
LEMMA OneDelay ==
  ASSUME TypeOK, NEW m, NEW n \in Attempts, NEW k \in Int,
         \A j \in Attempts \ {n} : retry'[j] = retry[j],
         CountIn(retry'[n], m) = CountIn(retry[n], m) + k
  PROVE  Delays(m)' = Delays(m) + k
<1>1. \A j \in Attempts : CountIn(retry[j], m) \in Nat
  BY RestNat
<1>2. /\ CountIn(retry[1], m) \in Nat /\ CountIn(retry[2], m) \in Nat
      /\ CountIn(retry[3], m) \in Nat
  BY <1>1 DEF Attempts
<1>3. Delays(m)' = CountIn(retry'[1], m) + CountIn(retry'[2], m) + CountIn(retry'[3], m)
  BY DEF Delays
<1>4. n = 1 \/ n = 2 \/ n = 3
  BY DEF Attempts
<1>5. CASE n = 1
  <2>1. retry'[2] = retry[2] /\ retry'[3] = retry[3]
    BY <1>5 DEF Attempts
  <2> QED BY <1>2, <1>3, <1>5, <2>1 DEF Delays
<1>6. CASE n = 2
  <2>1. retry'[1] = retry[1] /\ retry'[3] = retry[3]
    BY <1>6 DEF Attempts
  <2> QED BY <1>2, <1>3, <1>6, <2>1 DEF Delays
<1>7. CASE n = 3
  <2>1. retry'[1] = retry[1] /\ retry'[2] = retry[2]
    BY <1>7 DEF Attempts
  <2> QED BY <1>2, <1>3, <1>7, <2>1 DEF Delays
<1> QED BY <1>4, <1>5, <1>6, <1>7

\* Two sets that agree but for one element.
LEMMA SetMoves ==
  ASSUME NEW A, NEW B, NEW c, IsFiniteSet(A), A \ {c} = B \ {c}
  PROVE  /\ Cardinality(A) \in Nat /\ Cardinality(B) \in Nat
         /\ Cardinality(B) + Unit(c \in A) = Cardinality(A) + Unit(c \in B)
<1>1. /\ IsFiniteSet(A \ {c}) /\ Cardinality(A) \in Nat
      /\ Cardinality(A \ {c}) = IF c \in A THEN Cardinality(A) - 1 ELSE Cardinality(A)
  BY FS_RemoveElement, FS_CardinalityType
<1>2. B \subseteq (A \ {c}) \cup {c}
  OBVIOUS
<1>3. IsFiniteSet(B)
  BY <1>1, <1>2, FS_AddElement, FS_Subset
<1>4. /\ Cardinality(B) \in Nat
      /\ Cardinality(B \ {c}) = IF c \in B THEN Cardinality(B) - 1 ELSE Cardinality(B)
  BY <1>3, FS_RemoveElement, FS_CardinalityType
<1>5. Cardinality(A \ {c}) = Cardinality(B \ {c})
  OBVIOUS
<1> QED BY <1>1, <1>4, <1>5 DEF Unit

\* The debt of a connection to which h is delivered, which carries w, and whose
\* process is at step s.
Debt(h, w, s, m) ==
  Unit(Owes(h, m) /\ ~Replaces(w, s, m)) + Unit(Owes(h, m) /\ s = "down" /\ Carries(w))

LEMMA DebtBounds ==
  ASSUME NEW h, NEW w, NEW s, NEW m
  PROVE  /\ Debt(h, w, s, m) \in {0, 1, 2} /\ Unit(Owes(h, m)) \in {0, 1}
         /\ h = <<>> => Debt(h, w, s, m) = 0
         /\ s # "down" \/ ~Carries(w) => Debt(h, w, s, m) <= Unit(Owes(h, m))
         /\ s \notin {"idle", "ack"} \/ Carries(w) \/ m \notin Poison =>
              Debt(h, w, s, m) >= Unit(Owes(h, m))
         /\ m \in Poison /\ s \in {"idle", "ack"} /\ ~Carries(w) => Debt(h, w, s, m) = 0
         /\ s = "down" /\ Carries(w) =>
              Debt(h, w, s, m) = Unit(Owes(h, m)) + Unit(Owes(h, m))
<1>1. CASE ~Owes(h, m)
  <2>1. Debt(h, w, s, m) = 0 /\ Unit(Owes(h, m)) = 0
    BY <1>1 DEF Debt, Unit
  <2> QED BY <2>1
<1>2. CASE Owes(h, m)
  <2>1. Unit(Owes(h, m)) = 1 /\ h # <<>>
    BY <1>2 DEF Unit, Owes
  <2>2. CASE Carries(w)
    <3>1. Debt(h, w, s, m) = 1 + (IF s = "down" THEN 1 ELSE 0)
      BY <1>2, <2>2 DEF Debt, Unit, Replaces
    <3> QED BY <2>1, <2>2, <3>1
  <2>3. CASE ~Carries(w)
    <3>1. Debt(h, w, s, m) = IF m \in Poison /\ s \in {"idle", "ack"} THEN 0 ELSE 1
      BY <1>2, <2>3 DEF Debt, Unit, Replaces
    <3> QED BY <2>1, <2>3, <3>1
  <2> QED BY <2>2, <2>3
<1> QED BY <1>1, <1>2

DebtAt(c, m) == Debt(held[c], wire[c], step[c], m)
LEMMA Debts ==
  ASSUME NEW m
  PROVE  /\ \A c \in Consumers : DebtAt(c, m) = Unit(c \in OweOne(m)) + Unit(c \in OweTwo(m))
         /\ IsFiniteSet(OweOne(m)) /\ Cardinality(OweOne(m)) \in Nat
         /\ IsFiniteSet(OweTwo(m)) /\ Cardinality(OweTwo(m)) \in Nat
<1>1. \A c \in Consumers :
        /\ (c \in OweOne(m)) = (Owes(held[c], m) /\ ~Replaces(wire[c], step[c], m))
        /\ (c \in OweTwo(m)) = (Owes(held[c], m) /\ step[c] = "down" /\ Carries(wire[c]))
  BY DEF OweOne, OweTwo
<1>2. OweOne(m) \subseteq Consumers /\ OweTwo(m) \subseteq Consumers
  BY DEF OweOne, OweTwo
<1>3. IsFiniteSet(OweOne(m)) /\ IsFiniteSet(OweTwo(m))
  BY <1>2, ConsumersAssumption, FS_Subset
<1>4. Cardinality(OweOne(m)) \in Nat /\ Cardinality(OweTwo(m)) \in Nat
  BY <1>3, FS_CardinalityType
<1> QED BY <1>1, <1>3, <1>4 DEF Debt, DebtAt

\* A step at one connection keeps the account if what comes to rest was owed, or
\* is owed to a fault.
LEMMA AccountStep ==
  ASSUME TypeOK, TypeOK', AccountInv, NEW c \in Consumers, NEW m \in Msgs,
         \A d \in Consumers \ {c} :
           held'[d] = held[d] /\ wire'[d] = wire[d] /\ step'[d] = step[d],
         Resting(m)' + DebtAt(c, m)' + faults <= Resting(m) + DebtAt(c, m) + faults'
  PROVE  (Resting(m) + Cardinality(OweOne(m)) + Cardinality(OweTwo(m)) <= 1 + faults)'
<1>1. /\ IsFiniteSet(OweOne(m)) /\ Cardinality(OweOne(m)) \in Nat
      /\ IsFiniteSet(OweTwo(m)) /\ Cardinality(OweTwo(m)) \in Nat
  BY Debts
<1>2. OweOne(m) \ {c} = OweOne(m)' \ {c}
  BY DEF OweOne
<1>3. OweTwo(m) \ {c} = OweTwo(m)' \ {c}
  BY DEF OweTwo
<1> DEFINE one == OweOne(m)' two == OweTwo(m)'
<1>4. /\ Cardinality(one) \in Nat
      /\ Cardinality(one) + Unit(c \in OweOne(m)) = Cardinality(OweOne(m)) + Unit(c \in one)
  BY <1>1, <1>2, SetMoves
<1>5. /\ Cardinality(two) \in Nat
      /\ Cardinality(two) + Unit(c \in OweTwo(m)) = Cardinality(OweTwo(m)) + Unit(c \in two)
  BY <1>1, <1>3, SetMoves
<1>6. DebtAt(c, m)' = Unit(c \in one) + Unit(c \in two)
  <2>1. /\ (c \in one) = (Owes(held'[c], m) /\ ~Replaces(wire'[c], step'[c], m))
        /\ (c \in two) = (Owes(held'[c], m) /\ step'[c] = "down" /\ Carries(wire'[c]))
    BY DEF OweOne, OweTwo
  <2> HIDE DEF one, two
  <2> QED BY <2>1 DEF Debt, DebtAt
<1>7. \A b : Unit(b) \in {0, 1}
  BY DEF Unit
<1> HIDE DEF one, two
<1>8. Resting(m) \in Nat /\ faults \in Nat /\ faults' \in Nat
  <2>1. faults \in Nat /\ faults' \in Nat
    BY DEF TypeOK
  <2> QED BY <2>1, RestNat
<1>9. Resting(m)' \in Nat
  <2>1. /\ orders' \in Seq(Copies) /\ dlq' \in Seq(Copies)
        /\ retry'[1] \in Seq(Copies) /\ retry'[2] \in Seq(Copies) /\ retry'[3] \in Seq(Copies)
    BY DEF TypeOK, Attempts
  <2>2. /\ CountIn(orders', m) \in Nat /\ CountIn(dlq', m) \in Nat
        /\ CountIn(retry'[1], m) \in Nat /\ CountIn(retry'[2], m) \in Nat
        /\ CountIn(retry'[3], m) \in Nat
    BY <2>1, CountNat
  <2> QED BY <2>2 DEF Resting, Delays
<1>10. Resting(m) + Cardinality(OweOne(m)) + Cardinality(OweTwo(m)) <= 1 + faults
  BY DEF AccountInv
<1>11. Resting(m)' + Cardinality(one) + Cardinality(two) <= 1 + faults'
  <2> DEFINE a == Unit(c \in OweOne(m)) b == Unit(c \in OweTwo(m))
             e == Unit(c \in one) f == Unit(c \in two)
  <2>1. a \in {0, 1} /\ b \in {0, 1} /\ e \in {0, 1} /\ f \in {0, 1}
    BY <1>7
  <2>2. DebtAt(c, m) = a + b /\ DebtAt(c, m)' = e + f
    BY <1>6, Debts
  <2>3. /\ Cardinality(one) + a = Cardinality(OweOne(m)) + e
        /\ Cardinality(two) + b = Cardinality(OweTwo(m)) + f
    BY <1>4, <1>5
  <2> HIDE DEF a, b, e, f
  <2> QED BY <1>1, <1>4, <1>5, <1>8, <1>9, <1>10, <2>1, <2>2, <2>3
<1> QED BY <1>11 DEF one, two

\* A process does something else than to send, or sends to a queue or an ack.
LEMMA AsideAccount ==
  ASSUME TypeOK, TypeOK', AccountInv, NEW c \in Consumers,
         orders' = orders, dlq' = dlq, retry' = retry, held' = held,
         \A d \in Consumers \ {c} : wire'[d] = wire[d] /\ step'[d] = step[d],
         \A m \in Msgs : DebtAt(c, m)' + faults <= DebtAt(c, m) + faults'
  PROVE  AccountInv'
<1> SUFFICES ASSUME NEW m \in Msgs
             PROVE  (Resting(m) + Cardinality(OweOne(m)) + Cardinality(OweTwo(m)) <= 1 + faults)'
  BY Zenon DEF AccountInv
<1>1. Resting(m)' = Resting(m)
  BY DEF Resting, Delays
<1>2. Resting(m) \in Nat /\ faults \in Nat /\ faults' \in Nat
  <2>1. faults \in Nat /\ faults' \in Nat
    BY DEF TypeOK
  <2> QED BY <2>1, RestNat
<1>3. DebtAt(c, m) \in Nat /\ DebtAt(c, m)' \in Nat
  BY DebtBounds DEF DebtAt
<1>4. Resting(m)' + DebtAt(c, m)' + faults <= Resting(m) + DebtAt(c, m) + faults'
  BY <1>1, <1>2, <1>3
<1>5. \A d \in Consumers \ {c} :
        held'[d] = held[d] /\ wire'[d] = wire[d] /\ step'[d] = step[d]
  OBVIOUS
<1> QED BY <1>4, <1>5, AccountStep

LEMMA AccountAside ==
  ASSUME IInv, TypeOK', AccountInv, NEW c \in Consumers,
         \/ WriteRow(c) \/ LogEffect(c) \/ Check(c) \/ Mark(c) \/ Complete(c) \/ Skip(c)
         \/ RetryOrBury(c) \/ SendAck(c) \/ EffectAndExit(c) \/ ConnectionError(c)
         \/ Kill(c) \/ Restart(c)
  PROVE  AccountInv'
<1>1. TypeOK /\ faults \in Nat /\ LinkOf(c)
      /\ step \in [Consumers -> Steps] /\ wire \in [Consumers -> Seq(Frames)]
  <2>1. TypeOK /\ LinkOf(c)
    BY Zenon DEF IInv, LinkInv
  <2>2. faults \in Nat
    BY <2>1 DEF TypeOK
  <2>3. step \in [Consumers -> Steps] /\ wire \in [Consumers -> Seq(Frames)]
    BY <2>1, TypeParts DEF ConsumersOK
  <2> QED BY <2>1, <2>2, <2>3
<1>2. /\ orders' = orders /\ dlq' = dlq /\ retry' = retry /\ held' = held
      /\ \E s \in Steps : step' = [step EXCEPT ![c] = s]
  BY DEF WriteRow, LogEffect, Check, Mark, Complete, Skip, RetryOrBury, SendAck, EffectAndExit,
         ConnectionError, Kill, Restart, Go, Exit, broker, Steps
<1>3. \A d \in Consumers \ {c} : step'[d] = step[d]
  BY <1>1, <1>2
<1>4. /\ wire' = wire \/ \E f : wire' = [wire EXCEPT ![c] = Append(@, f)]
      /\ faults' = faults \/ Kill(c)
  BY DEF WriteRow, LogEffect, Check, Mark, Complete, Skip, RetryOrBury, SendAck, EffectAndExit,
         ConnectionError, Kill, Restart, Go, Exit
<1>5. \A d \in Consumers \ {c} : wire'[d] = wire[d]
  BY <1>1, <1>4
<1>6. SUFFICES ASSUME NEW m \in Msgs
               PROVE  DebtAt(c, m)' + faults <= DebtAt(c, m) + faults'
  BY <1>1, <1>2, <1>3, <1>5, AsideAccount
<1> DEFINE u == Unit(Owes(held[c], m))
           old == DebtAt(c, m)
           new == Debt(held[c], wire'[c], step'[c], m)
<1>7. new = DebtAt(c, m)' /\ old = DebtAt(c, m) /\ old \in Nat /\ new \in Nat /\ u \in {0, 1}
  BY <1>2, DebtBounds DEF DebtAt
<1>8. /\ held[c] = <<>> => old = 0 /\ new = 0
      /\ step[c] \notin {"idle", "ack"} \/ Carries(wire[c]) \/ m \notin Poison => u <= old
      /\ step'[c] # "down" \/ ~Carries(wire'[c]) => new <= u
      /\ m \in Poison /\ step'[c] \in {"idle", "ack"} /\ ~Carries(wire'[c]) => new = 0
      /\ step'[c] = "down" /\ Carries(wire'[c]) => new = u + u
  BY DebtBounds DEF DebtAt
<1> HIDE DEF u, old, new
<1>9. CASE \/ WriteRow(c) \/ LogEffect(c) \/ Check(c) \/ Mark(c) \/ Complete(c) \/ Skip(c)
           \/ RetryOrBury(c)
  <2>1. /\ step[c] \in {"work", "mark", "effect"} /\ faults' = faults
        /\ \E s \in Steps \ {"down"} : step' = [step EXCEPT ![c] = s]
    BY <1>9 DEF WriteRow, LogEffect, Check, Mark, Complete, Skip, RetryOrBury, Go, At, Steps
  <2>2. step'[c] # "down"
    BY <1>1, <2>1
  <2>3. new <= u /\ u <= old
    BY <1>8, <2>1, <2>2
  <2> QED BY <1>1, <1>7, <2>1, <2>3
<1>10. CASE EffectAndExit(c)
  <2>1. step[c] \in {"work", "effect"} /\ wire' = wire /\ faults' = faults
    BY <1>10 DEF EffectAndExit, Exit, At
  <2>2. wire[c] = <<>>
    BY <2>1, AtWork
  <2>3. new <= u /\ u <= old
    BY <1>8, <2>1, <2>2 DEF Carries
  <2> QED BY <1>1, <1>7, <2>1, <2>3
<1>11. CASE Kill(c)
  <2>1. step[c] # "down" /\ wire' = wire /\ faults' = faults + 1
    BY <1>11 DEF Kill, Exit, Fault
  <2>2. new <= old + 1
    <3>1. CASE Carries(wire[c])
      <4>1. u <= old /\ (new <= u \/ new = u + u)
        BY <1>8, <2>1, <3>1
      <4> QED BY <1>7, <4>1
    <3>2. CASE ~Carries(wire[c])
      <4>1. new <= u
        BY <1>8, <2>1, <3>2
      <4> QED BY <1>7, <4>1
    <3> QED BY <3>1, <3>2
  <2> QED BY <1>1, <1>7, <2>1, <2>2
<1>12. CASE ConnectionError(c) \/ Restart(c)
  <2>1. ~open[c] /\ faults' = faults
    BY <1>12 DEF ConnectionError, Restart
  <2>2. held[c] = <<>>
    BY <1>1, <2>1, Zenon DEF LinkOf
  <2> QED BY <1>1, <1>7, <1>8, <2>1, <2>2
<1>13. CASE SendAck(c)
  <2>1. /\ step[c] = "ack" /\ faults' = faults
        /\ step' = [step EXCEPT ![c] = "idle"] /\ wire' = [wire EXCEPT ![c] = Append(@, Ack)]
    BY <1>13 DEF SendAck
  <2>2. step'[c] = "idle" /\ wire'[c] = Append(wire[c], Ack)
    BY <1>1, <2>1
  <2>3. CASE Carries(wire[c]) \/ m \notin Poison
    <3>1. new <= u /\ u <= old
      BY <1>8, <2>2, <2>3
    <3> QED BY <1>1, <1>7, <2>1, <3>1
  <2>4. CASE ~Carries(wire[c]) /\ m \in Poison
    <3>1. wire[c] = <<>>
      <4>1. ASSUME NEW y \in Copies, wire[c] = <<Send(y)>> PROVE FALSE
        BY <2>4, <4>1, RangeShort, CopyParts DEF Carries
      <4> QED BY <1>1, <2>1, <4>1 DEF LinkOf, Line
    <3>2. wire'[c] = <<Ack>>
      BY <2>2, <3>1
    <3>3. ~Carries(wire'[c])
      BY <3>2 DEF Carries
    <3>4. new = 0
      BY <1>8, <2>2, <2>4, <3>3
    <3> QED BY <1>1, <1>7, <2>1, <3>4
  <2> QED BY <2>3, <2>4
<1> QED BY <1>9, <1>10, <1>11, <1>12, <1>13

\* A copy that is delivered was at rest, and is owed from then on.
LEMMA AccountDeliver ==
  ASSUME IInv, TypeOK', AccountInv, NEW c \in Consumers,
         Deliver(c) \/ DeliverToDead(c)
  PROVE  AccountInv'
<1>1. TypeOK /\ orders \in Seq(Copies) /\ orders # <<>> /\ faults \in Nat
  <2>1. TypeOK /\ orders # <<>>
    BY DEF IInv, Deliver, DeliverToDead
  <2>2. orders \in Seq(Copies) /\ faults \in Nat
    BY <2>1 DEF TypeOK
  <2> QED BY <2>1, <2>2
<1>2. PICK x \in Copies : x = Head(orders) /\ Tail(orders) \in Seq(Copies)
  BY <1>1, RangeTail
<1>3. /\ orders' = Tail(orders) /\ held[c] = <<>> /\ dlq' = dlq /\ retry' = retry /\ wire' = wire
      /\ held' = [held EXCEPT ![c] = <<x>>] /\ faults' = faults
      /\ \/ step' = [step EXCEPT ![c] = "work"]
         \/ step' = step /\ step[c] = "down"
  BY <1>2 DEF Deliver, DeliverToDead
<1>4. /\ held'[c] = <<x>> /\ step'[c] \in {"work", "down"}
      /\ \A d \in Consumers \ {c} :
           held'[d] = held[d] /\ wire'[d] = wire[d] /\ step'[d] = step[d]
  BY <1>1, <1>3 DEF TypeOK
<1>5. ~Carries(wire'[c])
  <2>1. LinkOf(c)
    BY Zenon DEF IInv, LinkInv
  <2>2. wire[c] = <<>>
    BY <1>3, <2>1, RangeShort DEF LinkOf, Line
  <2> QED BY <1>3, <2>2 DEF Carries
<1> SUFFICES ASSUME NEW m \in Msgs
             PROVE  (Resting(m) + Cardinality(OweOne(m)) + Cardinality(OweTwo(m)) <= 1 + faults)'
  BY Zenon DEF AccountInv
<1>6. CountIn(orders, m) = CountIn(orders', m) + Unit(x.id = m)
  BY <1>1, <1>2, <1>3, CountTail
<1>7. /\ Resting(m)' = CountIn(orders', m) + CountIn(dlq, m) + Delays(m)
      /\ Resting(m) = CountIn(orders, m) + CountIn(dlq, m) + Delays(m)
  BY <1>3 DEF Resting, Delays
<1>8. CountIn(orders', m) \in Nat /\ CountIn(dlq, m) \in Nat /\ Delays(m) \in Nat
  BY <1>1, <1>2, <1>3, CountNat, RestNat
<1>9. DebtAt(c, m) = 0
  BY <1>3, DebtBounds DEF DebtAt
<1>10. DebtAt(c, m)' <= Unit(x.id = m) /\ DebtAt(c, m)' \in Nat /\ Unit(x.id = m) \in {0, 1}
  <2>1. Unit(Owes(<<x>>, m)) = Unit(x.id = m)
    <3>1. <<x>> # <<>> /\ Head(<<x>>) = x
      BY RangeShort
    <3> QED BY <3>1 DEF Owes, Unit
  <2>2. \A h, w, s : /\ Debt(h, w, s, m) \in {0, 1, 2}
                     /\ ~Carries(w) => Debt(h, w, s, m) <= Unit(Owes(h, m))
    BY DebtBounds
  <2>3. DebtAt(c, m)' = Debt(<<x>>, wire'[c], step'[c], m)
    BY <1>4 DEF DebtAt
  <2> QED BY <1>5, <2>1, <2>2, <2>3 DEF Unit
<1>11. Resting(m)' + DebtAt(c, m)' + faults <= Resting(m) + DebtAt(c, m) + faults'
  BY <1>1, <1>3, <1>6, <1>7, <1>8, <1>9, <1>10
<1> QED BY <1>1, <1>4, <1>11, AccountStep

\* What was owed comes to rest, or is acknowledged.
LEMMA AccountTakePublish ==
  ASSUME IInv, TypeOK', AccountInv, NEW c \in Consumers, TakePublish(c)
  PROVE  AccountInv'
<1>1. TypeOK /\ faults \in Nat /\ dlq \in Seq(Copies) /\ retry \in [Attempts -> Seq(Copies)]
      /\ wire \in [Consumers -> Seq(Frames)]
  <2>1. TypeOK
    BY DEF IInv
  <2>2. faults \in Nat /\ dlq \in Seq(Copies) /\ retry \in [Attempts -> Seq(Copies)]
    BY <2>1 DEF TypeOK
  <2>3. wire \in [Consumers -> Seq(Frames)]
    BY <2>1, TypeParts DEF ConsumersOK
  <2> QED BY <2>1, <2>2, <2>3
<1>2. /\ wire[c] # <<>> /\ Head(wire[c]).to = "queue" /\ orders' = orders
      /\ held' = held /\ step' = step /\ faults' = faults
      /\ wire' = [wire EXCEPT ![c] = Tail(@)]
  BY DEF TakePublish, NextFrame
<1>3. wire'[c] = Tail(wire[c]) /\ \A d \in Consumers \ {c} : wire'[d] = wire[d]
  BY <1>1, <1>2
<1>4. Head(wire[c]) # Ack
  BY <1>2, CopyParts
<1>5. PICK x \in Copies, y \in Copies :
        /\ held[c] = <<x>> /\ Follows(y, x) /\ Head(wire[c]) = Send(y)
        /\ \/ Tail(wire[c]) = <<>> /\ step[c] \in {"ack", "down"}
           \/ Tail(wire[c]) = <<Ack>> /\ step[c] \in {"idle", "down"}
  BY <1>2, <1>4, HeadFrame, Zenon
<1>6. Head(wire[c]).copy = y /\ y.id = x.id /\ x.id \in Poison
  BY <1>5, CopyParts DEF Follows
<1>7. Carries(wire[c]) /\ ~Carries(wire'[c]) /\ step[c] \in {"ack", "idle", "down"}
  <2>1. wire'[c] = <<>> \/ wire'[c] = <<Ack>>
    BY <1>3, <1>5
  <2>2. Head(<<Ack>>) = Ack
    OBVIOUS
  <2>3. ~Carries(wire'[c])
    BY <2>1, <2>2 DEF Carries
  <2>4. Carries(wire[c])
    BY <1>2, <1>4 DEF Carries
  <2> QED BY <1>5, <2>3, <2>4
<1> SUFFICES ASSUME NEW m \in Msgs
             PROVE  (Resting(m) + Cardinality(OweOne(m)) + Cardinality(OweTwo(m)) <= 1 + faults)'
  BY Zenon DEF AccountInv
<1> DEFINE u == Unit(x.id = m)
<1>8. u \in {0, 1} /\ (u = 1 => m \in Poison) /\ Unit(Owes(held[c], m)) = u
  <2>1. held[c] # <<>> /\ Head(held[c]) = x
    BY <1>5, RangeShort
  <2> QED BY <1>6, <2>1 DEF Unit, Owes
<1>9. /\ CountIn(dlq, m) \in Nat /\ CountIn(orders, m) \in Nat /\ Delays(m) \in Nat
      /\ Resting(m) = CountIn(orders, m) + CountIn(dlq, m) + Delays(m)
  BY <1>1, RestNat DEF Resting
<1>10. Resting(m)' = Resting(m) + u
  <2>1. CASE dlq' = Append(dlq, y) /\ retry' = retry
    <3>1. CountIn(dlq', m) = CountIn(dlq, m) + u
      BY <1>1, <1>6, <2>1, CountAppend
    <3>2. Resting(m)' = CountIn(orders, m) + CountIn(dlq', m) + Delays(m)
      BY <1>2, <2>1 DEF Resting, Delays
    <3> QED BY <1>8, <1>9, <3>1, <3>2
  <2>2. CASE /\ y.attempt \in Attempts /\ dlq' = dlq
             /\ retry' = [retry EXCEPT ![y.attempt] = Append(@, y)]
    <3> DEFINE n == y.attempt
    <3>1. /\ n \in Attempts /\ retry[n] \in Seq(Copies) /\ retry'[n] = Append(retry[n], y)
          /\ \A j \in Attempts \ {n} : retry'[j] = retry[j]
      BY <1>1, <2>2
    <3> HIDE DEF n
    <3>2. CountIn(retry'[n], m) = CountIn(retry[n], m) + u
      BY <1>6, <3>1, CountAppend
    <3>3. u \in Int
      BY <1>8
    <3> HIDE DEF u
    <3>4. Delays(m)' = Delays(m) + u
      BY <1>1, <3>1, <3>2, <3>3, OneDelay
    <3>5. Resting(m)' = CountIn(orders, m) + CountIn(dlq, m) + Delays(m)'
      BY <1>2, <2>2 DEF Resting
    <3> QED BY <1>8, <1>9, <3>4, <3>5
  <2> QED BY <1>6, <2>1, <2>2 DEF TakePublish
<1> HIDE DEF u
<1>11. DebtAt(c, m)' + u <= DebtAt(c, m) /\ DebtAt(c, m)' \in Nat /\ DebtAt(c, m) \in Nat
  <2> DEFINE old == Debt(held[c], wire[c], step[c], m)
             new == Debt(held[c], wire'[c], step[c], m)
  <2>1. old = DebtAt(c, m) /\ new = DebtAt(c, m)'
    BY <1>2 DEF DebtAt
  <2>2. /\ old \in {0, 1, 2} /\ new \in {0, 1, 2} /\ old >= u /\ new <= u
        /\ m \in Poison /\ step[c] \in {"idle", "ack"} => new = 0
        /\ step[c] = "down" => old = u + u
    BY <1>7, <1>8, DebtBounds
  <2> HIDE DEF old, new
  <2>3. CASE step[c] = "down"
    BY <1>8, <2>1, <2>2, <2>3
  <2>4. CASE step[c] # "down"
    BY <1>7, <1>8, <2>1, <2>2, <2>4
  <2> QED BY <2>3, <2>4
<1>12. Resting(m)' + DebtAt(c, m)' + faults <= Resting(m) + DebtAt(c, m) + faults'
  <2>1. Resting(m) \in Nat
    BY <1>1, RestNat
  <2> QED BY <1>1, <1>2, <1>8, <1>10, <1>11, <2>1
<1> QED BY <1>1, <1>2, <1>3, <1>12, AccountStep

LEMMA AccountGive ==
  ASSUME IInv, TypeOK', AccountInv, NEW c \in Consumers,
         TakeAck(c) \/ Close(c) \/ Cut(c)
  PROVE  AccountInv'
<1>1. TypeOK /\ faults \in Nat /\ faults' \in Nat /\ orders \in Seq(Copies)
      /\ held \in [Consumers -> Seq(Copies)] /\ wire \in [Consumers -> Seq(Frames)]
  <2>1. TypeOK
    BY DEF IInv
  <2>2. faults \in Nat /\ faults' \in Nat
    BY <2>1 DEF TypeOK
  <2> QED BY <2>1, <2>2 DEF TypeOK
<1>2. /\ dlq' = dlq /\ retry' = retry /\ step' = step
      /\ held' = [held EXCEPT ![c] = <<>>] /\ \E w : wire' = [wire EXCEPT ![c] = w]
  BY DEF TakeAck, NextFrame, Close, Cut, Disconnect
<1>3. held'[c] = <<>> /\ \A d \in Consumers \ {c} :
                           held'[d] = held[d] /\ wire'[d] = wire[d] /\ step'[d] = step[d]
  BY <1>1, <1>2
<1> SUFFICES ASSUME NEW m \in Msgs
             PROVE  (Resting(m) + Cardinality(OweOne(m)) + Cardinality(OweTwo(m)) <= 1 + faults)'
  BY Zenon DEF AccountInv
<1> DEFINE u == Unit(Owes(held[c], m))
<1>4. /\ DebtAt(c, m)' = 0 /\ DebtAt(c, m) \in Nat /\ u \in {0, 1}
      /\ step[c] = "down" => u <= DebtAt(c, m)
  <2>1. DebtAt(c, m)' = Debt(<<>>, wire'[c], step'[c], m)
    BY <1>3 DEF DebtAt
  <2>2. Debt(<<>>, wire'[c], step'[c], m) = 0
    BY DebtBounds
  <2>3. DebtAt(c, m) \in Nat /\ u \in {0, 1} /\ (step[c] = "down" => u <= DebtAt(c, m))
    BY DebtBounds DEF DebtAt
  <2> QED BY <2>1, <2>2, <2>3
<1>5. CountIn(held[c] \o orders, m) = CountIn(orders, m) + u
  <2>1. CASE held[c] = <<>>
    <3>1. held[c] \o orders = orders
      BY <1>1, <2>1
    <3>2. u = 0
      BY <2>1 DEF Owes, Unit
    <3>3. CountIn(orders, m) \in Nat
      BY <1>1, CountNat
    <3> QED BY <3>1, <3>2, <3>3
  <2>2. ASSUME NEW x \in Copies, held[c] = <<x>>
        PROVE  CountIn(held[c] \o orders, m) = CountIn(orders, m) + u
    <3>1. held[c] # <<>> /\ Head(held[c]) = x
      BY <2>2, RangeShort
    <3>2. u = Unit(x.id = m)
      BY <3>1 DEF Owes, Unit
    <3> QED BY <1>1, <2>2, <3>2, CountFirst
  <2> QED BY <1>1, <2>1, <2>2, Slots
<1> HIDE DEF u
<1>6. /\ CountIn(orders, m) \in Nat /\ CountIn(dlq, m) \in Nat /\ Delays(m) \in Nat
      /\ Resting(m) = CountIn(orders, m) + CountIn(dlq, m) + Delays(m)
      /\ Resting(m)' = CountIn(orders', m) + CountIn(dlq, m) + Delays(m)
  BY <1>1, <1>2, RestNat DEF Resting, Delays
<1>7. Resting(m)' + DebtAt(c, m)' + faults <= Resting(m) + DebtAt(c, m) + faults'
  <2>1. CASE TakeAck(c)
    <3>1. orders' = orders /\ faults' = faults
      BY <2>1 DEF TakeAck
    <3> QED BY <1>1, <1>4, <1>6, <3>1
  <2>2. CASE Close(c)
    <3>1. orders' = held[c] \o orders /\ faults' = faults /\ step[c] = "down"
      BY <2>2 DEF Close, Disconnect, Requeue
    <3>2. Resting(m)' = Resting(m) + u
      BY <1>4, <1>5, <1>6, <3>1
    <3>3. Resting(m) \in Nat /\ faults \in Nat
      BY <1>1, <1>6
    <3> QED BY <1>4, <3>1, <3>2, <3>3
  <2>3. CASE Cut(c)
    <3>1. orders' = held[c] \o orders /\ faults' = faults + 1
      BY <2>3 DEF Cut, Fault, Disconnect, Requeue
    <3>2. Resting(m)' = Resting(m) + u
      BY <1>4, <1>5, <1>6, <3>1
    <3>3. Resting(m) \in Nat /\ faults \in Nat
      BY <1>1, <1>6
    <3> QED BY <1>4, <3>1, <3>2, <3>3
  <2> QED BY <2>1, <2>2, <2>3
<1> QED BY <1>1, <1>3, <1>7, AccountStep

\* The broker moves a copy by itself, or is given a new one.
LEMMA AccountQueues ==
  ASSUME TypeOK, TypeOK', AccountInv, held' = held, wire' = wire, step' = step,
         NEW m \in Msgs,
         \/ Resting(m)' + faults <= Resting(m) + faults'
         \/ Resting(m)' <= 1 /\ OweOne(m) = {} /\ OweTwo(m) = {}
  PROVE  (Resting(m) + Cardinality(OweOne(m)) + Cardinality(OweTwo(m)) <= 1 + faults)'
<1>1. OweOne(m)' = OweOne(m) /\ OweTwo(m)' = OweTwo(m)
  BY DEF OweOne, OweTwo
<1>2. Cardinality(OweOne(m)) \in Nat /\ Cardinality(OweTwo(m)) \in Nat
  BY Debts
<1>3. faults \in Nat /\ faults' \in Nat
  BY DEF TypeOK
<1>4. Resting(m) \in Nat
  BY RestNat
<1>5. Resting(m)' \in Nat
  <2>1. /\ orders' \in Seq(Copies) /\ dlq' \in Seq(Copies)
        /\ retry'[1] \in Seq(Copies) /\ retry'[2] \in Seq(Copies) /\ retry'[3] \in Seq(Copies)
    BY DEF TypeOK, Attempts
  <2>2. /\ CountIn(orders', m) \in Nat /\ CountIn(dlq', m) \in Nat
        /\ CountIn(retry'[1], m) \in Nat /\ CountIn(retry'[2], m) \in Nat
        /\ CountIn(retry'[3], m) \in Nat
    BY <2>1, CountNat
  <2> QED BY <2>2 DEF Resting, Delays
<1>6. Resting(m) + Cardinality(OweOne(m)) + Cardinality(OweTwo(m)) <= 1 + faults
  BY DEF AccountInv
<1>7. Resting(m)' + Cardinality(OweOne(m)) + Cardinality(OweTwo(m)) <= 1 + faults'
  <2>1. CASE Resting(m)' + faults <= Resting(m) + faults'
    BY <1>2, <1>3, <1>4, <1>5, <1>6, <2>1
  <2>2. CASE Resting(m)' <= 1 /\ OweOne(m) = {} /\ OweTwo(m) = {}
    <3>1. Cardinality(OweOne(m)) = 0 /\ Cardinality(OweTwo(m)) = 0
      BY <2>2, FS_EmptySet
    <3> QED BY <1>3, <1>5, <2>2, <3>1
  <2> QED BY <2>1, <2>2
<1> QED BY <1>1, <1>7

LEMMA AccountExpire ==
  ASSUME IInv, TypeOK', AccountInv, NEW n \in Attempts, Expire(n)
  PROVE  AccountInv'
<1>1. TypeOK /\ orders \in Seq(Copies) /\ retry \in [Attempts -> Seq(Copies)]
      /\ retry[n] \in Seq(Copies) /\ retry[n] # <<>>
  <2>1. TypeOK
    BY DEF IInv
  <2>2. orders \in Seq(Copies) /\ retry \in [Attempts -> Seq(Copies)]
    BY <2>1 DEF TypeOK
  <2> QED BY <2>1, <2>2 DEF Expire
<1>2. PICK y \in Copies : y = Head(retry[n])
  BY <1>1, RangeTail
<1>3. /\ orders' = Append(orders, y) /\ dlq' = dlq /\ faults' = faults
      /\ held' = held /\ wire' = wire /\ step' = step
      /\ retry' = [retry EXCEPT ![n] = Tail(@)]
  BY <1>2 DEF Expire
<1>4. retry'[n] = Tail(retry[n]) /\ \A j \in Attempts \ {n} : retry'[j] = retry[j]
  BY <1>1, <1>3
<1> SUFFICES ASSUME NEW m \in Msgs
             PROVE  (Resting(m) + Cardinality(OweOne(m)) + Cardinality(OweTwo(m)) <= 1 + faults)'
  BY Zenon DEF AccountInv
<1> DEFINE u == Unit(y.id = m)
<1>5. CountIn(orders', m) = CountIn(orders, m) + u
  BY <1>1, <1>3, CountAppend
<1>6. CountIn(retry[n], m) = CountIn(retry'[n], m) + u
  BY <1>1, <1>2, <1>4, CountTail
<1>7. u \in {0, 1}
  BY DEF Unit
<1> HIDE DEF u
<1>8. CountIn(orders, m) \in Nat /\ CountIn(dlq, m) \in Nat /\ Delays(m) \in Nat
      /\ CountIn(retry[n], m) \in Nat
  BY <1>1, RestNat
<1>9. CountIn(retry'[n], m) \in Nat
  <2>1. retry'[n] \in Seq(Copies)
    BY DEF TypeOK
  <2> QED BY <2>1, CountNat
<1>10. Delays(m)' = Delays(m) + (0 - u)
  <2>1. CountIn(retry'[n], m) = CountIn(retry[n], m) + (0 - u) /\ (0 - u) \in Int
    BY <1>6, <1>7, <1>8, <1>9
  <2> QED BY <1>1, <1>4, <2>1, OneDelay
<1>11. /\ Resting(m) = CountIn(orders, m) + CountIn(dlq, m) + Delays(m)
       /\ Resting(m)' = CountIn(orders', m) + CountIn(dlq, m) + Delays(m)'
  BY <1>3 DEF Resting
<1>12. faults \in Nat
  BY <1>1 DEF TypeOK
<1>13. Resting(m)' + faults <= Resting(m) + faults'
  BY <1>3, <1>5, <1>7, <1>8, <1>10, <1>11, <1>12
<1> QED BY <1>1, <1>3, <1>13, AccountQueues

\* The first copy of a message is the only one, and another is a fault.
LEMMA AccountPublish ==
  ASSUME IInv, TypeOK', AccountInv, NEW k \in Msgs, Publish(k) \/ Republish(k)
  PROVE  AccountInv'
<1>1. TypeOK /\ orders \in Seq(Copies) /\ faults \in Nat
  <2>1. TypeOK
    BY DEF IInv
  <2>2. orders \in Seq(Copies) /\ faults \in Nat
    BY <2>1 DEF TypeOK
  <2> QED BY <2>1, <2>2
<1>2. PICK y \in Copies : y = Fresh(k) /\ y.id = k
  BY CopyParts
<1>3. /\ orders' = Append(orders, y) /\ dlq' = dlq /\ retry' = retry
      /\ held' = held /\ wire' = wire /\ step' = step
  BY <1>2 DEF Publish, Republish
<1> SUFFICES ASSUME NEW m \in Msgs
             PROVE  (Resting(m) + Cardinality(OweOne(m)) + Cardinality(OweTwo(m)) <= 1 + faults)'
  BY Zenon DEF AccountInv
<1>4. CountIn(orders', m) = CountIn(orders, m) + Unit(y.id = m)
  BY <1>1, <1>3, CountAppend
<1>5. CountIn(orders, m) \in Nat /\ CountIn(dlq, m) \in Nat /\ Delays(m) \in Nat
  BY <1>1, RestNat
<1>6. /\ Resting(m) = CountIn(orders, m) + CountIn(dlq, m) + Delays(m)
      /\ Resting(m)' = CountIn(orders', m) + CountIn(dlq, m) + Delays(m)
  BY <1>3 DEF Resting, Delays
<1>7. CASE Republish(k)
  <2>1. faults' = faults + 1
    BY <1>7 DEF Republish, Fault
  <2>2. Unit(y.id = m) \in {0, 1}
    BY DEF Unit
  <2>3. Resting(m)' + faults <= Resting(m) + faults'
    BY <1>1, <1>4, <1>5, <1>6, <2>1, <2>2
  <2> QED BY <1>1, <1>3, <2>3, AccountQueues
<1>8. CASE Publish(k) /\ k # m
  <2>1. faults' = faults /\ Unit(y.id = m) = 0
    BY <1>2, <1>8 DEF Publish, Unit
  <2>2. Resting(m)' + faults <= Resting(m) + faults'
    BY <1>1, <1>4, <1>5, <1>6, <2>1
  <2> QED BY <1>1, <1>3, <2>2, AccountQueues
<1>9. CASE Publish(k) /\ k = m
  <2>1. m \notin Range(published)
    BY <1>9 DEF Publish
  <2>2. \A z \in AtRest : z.id # m
    BY <2>1 DEF IInv, CopyInv, Earned
  <2>3. CountIn(orders, m) = 0 /\ CountIn(dlq, m) = 0
    <3>1. (\A z \in Range(orders) : z.id # m) /\ (\A z \in Range(dlq) : z.id # m)
      BY <2>2 DEF AtRest, Live
    <3>2. dlq \in Seq(Copies)
      BY <1>1 DEF TypeOK
    <3> QED BY <1>1, <3>1, <3>2, CountNone
  <2>4. Delays(m) = 0
    <3>1. ASSUME NEW n \in Attempts PROVE CountIn(retry[n], m) = 0
      <4>1. \A z \in Range(retry[n]) : z.id # m
        BY <2>2 DEF AtRest, Live, Delayed
      <4>2. retry[n] \in Seq(Copies)
        BY <1>1 DEF TypeOK
      <4> QED BY <4>1, <4>2, CountNone
    <3>2. CountIn(retry[1], m) = 0 /\ CountIn(retry[2], m) = 0 /\ CountIn(retry[3], m) = 0
      BY <3>1 DEF Attempts
    <3> QED BY <3>2 DEF Delays
  <2>5. \A c \in Consumers : ~Owes(held[c], m)
    <3> SUFFICES ASSUME NEW c \in Consumers, Owes(held[c], m) PROVE FALSE
      OBVIOUS
    <3>1. PICK x \in Copies : held[c] = <<x>>
      BY <1>1, Slots DEF Owes
    <3>2. Range(held[c]) = {x} /\ x.id = m
      BY <3>1, RangeShort DEF Owes
    <3>3. x \in AtRest
      BY <3>2 DEF AtRest, Live, Delivered
    <3> QED BY <2>2, <3>2, <3>3
  <2>6. OweOne(m) = {} /\ OweTwo(m) = {}
    BY <2>5 DEF OweOne, OweTwo
  <2>7. Resting(m)' <= 1
    BY <1>4, <1>6, <2>3, <2>4 DEF Unit
  <2> QED BY <1>1, <1>3, <2>6, <2>7, AccountQueues
<1> QED BY <1>7, <1>8, <1>9

LEMMA AccountKept ==
  ASSUME IInv, TypeOK', AccountInv, [Next]_vars
  PROVE  AccountInv'
<1>1. CASE UNCHANGED vars
  <2>1. /\ orders' = orders /\ dlq' = dlq /\ retry' = retry /\ held' = held
        /\ wire' = wire /\ step' = step /\ faults' = faults
    BY <1>1 DEF vars
  <2> SUFFICES ASSUME NEW m \in Msgs
               PROVE  (Resting(m) + Cardinality(OweOne(m)) + Cardinality(OweTwo(m))
                        <= 1 + faults)'
    BY Zenon DEF AccountInv
  <2>2. Resting(m)' = Resting(m)
    BY <2>1 DEF Resting, Delays
  <2>3. TypeOK
    BY DEF IInv
  <2>4. Resting(m) \in Nat /\ faults \in Nat
    <3>1. faults \in Nat
      BY <2>3 DEF TypeOK
    <3> QED BY <2>3, <3>1, RestNat
  <2>5. Resting(m)' + faults <= Resting(m) + faults'
    BY <2>1, <2>2, <2>4
  <2> QED BY <2>1, <2>3, <2>5, AccountQueues
<1> QED BY <1>1, AccountPublish, AccountExpire, AccountDeliver, AccountTakePublish,
           AccountGive, AccountAside DEF Next, Take, Handle

\* A message multiplies only through faults: its copies at rest, live or buried,
\* are at most one and the number of faults so far (consumer.py:109-125).
THEOREM CopiesOnlyByFaults == Spec => []CopiesBounded
<1>1. Init => AccountInv
  <2> SUFFICES ASSUME Init, NEW m \in Msgs
               PROVE  Resting(m) + Cardinality(OweOne(m)) + Cardinality(OweTwo(m)) <= 1 + faults
    BY DEF AccountInv
  <2>1. CountIn(<<>>, m) = 0
    <3>1. {i \in 1 .. Len(<<>>) : <<>>[i].id = m} = {}
      OBVIOUS
    <3> QED BY <3>1, FS_EmptySet DEF CountIn
  <2>2. Resting(m) = 0
    BY <2>1 DEF Init, Resting, Delays, Attempts
  <2>3. OweOne(m) = {} /\ OweTwo(m) = {}
    BY DEF Init, OweOne, OweTwo, Owes
  <2>4. Cardinality(OweOne(m)) = 0 /\ Cardinality(OweTwo(m)) = 0 /\ faults = 0
    BY <2>3, FS_EmptySet DEF Init
  <2> QED BY <2>2, <2>4
<1>2. IInv /\ IInv' /\ AccountInv /\ [Next]_vars => AccountInv'
  BY AccountKept DEF IInv
<1>3. ASSUME IInv, AccountInv PROVE CopiesBounded
  <2>1. TypeOK
    BY <1>3 DEF IInv
  <2> SUFFICES ASSUME NEW m \in Msgs
               PROVE  CountIn(orders, m) + CountIn(dlq, m)
                        + CountIn(retry[1], m) + CountIn(retry[2], m) + CountIn(retry[3], m)
                      <= 1 + faults
    BY <2>1 DEF CopiesBounded
  <2>2. /\ CountIn(orders, m) \in Nat /\ CountIn(dlq, m) \in Nat
        /\ \A n \in Attempts : CountIn(retry[n], m) \in Nat
    BY <2>1, RestNat
  <2>3. /\ CountIn(retry[1], m) \in Nat /\ CountIn(retry[2], m) \in Nat
        /\ CountIn(retry[3], m) \in Nat
    BY <2>2 DEF Attempts
  <2>4. Cardinality(OweOne(m)) \in Nat /\ Cardinality(OweTwo(m)) \in Nat /\ Resting(m) \in Nat
    BY <2>1, Debts, RestNat
  <2>5. faults \in Nat
    BY <2>1 DEF TypeOK
  <2>6. Resting(m) <= 1 + faults
    <3>1. Resting(m) + Cardinality(OweOne(m)) + Cardinality(OweTwo(m)) <= 1 + faults
      BY <1>3 DEF AccountInv
    <3> QED BY <2>4, <2>5, <3>1
  <2> QED BY <2>2, <2>3, <2>5, <2>6 DEF Resting, Delays
<1> QED BY <1>1, <1>2, <1>3, Invariance, PTL DEF Spec
=============================================================================
