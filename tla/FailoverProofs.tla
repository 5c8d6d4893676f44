--------------------------- MODULE FailoverProofs ---------------------------
(***************************************************************************)
(* The safety properties of Failover, for any nodes, writes, ids logged in *)
(* advance and faults.  A crash, a promotion or a rewind leaves every node *)
(* with the beginning of a log that some node had, so the invariant speaks *)
(* of logs in a way that beginnings inherit: the ids of a log's rows are   *)
(* distinct and were logged in advance before them, and two logs that have *)
(* a row in common agree up to it.                                         *)
(***************************************************************************)
EXTENDS Failover, WellFoundedInduction, SequenceTheorems, TLAPS

Begins(s, t) == Len(s) <= Len(t) /\ \A i \in 1 .. Len(s) : s[i] = t[i]

IsRow(log, i) == i \in 1 .. Len(log) /\ log[i].write # NoWrite
IsMark(log, i) == i \in 1 .. Len(log) /\ log[i].write = NoWrite

\* An id that log's sequence does not give again.
Reserved(log, n) == \E j \in 1 .. Len(log) : IsMark(log, j) /\ n <= log[j].id

\* Rows have ids of their own, reserved before them, and the sequence only grows.
LogOK(log) ==
  /\ \A i, j \in 1 .. Len(log) : IsRow(log, i) /\ IsRow(log, j) /\ log[i].id = log[j].id => i = j
  /\ \A i \in 1 .. Len(log) : IsRow(log, i) =>
       \E j \in 1 .. Len(log) : j < i /\ IsMark(log, j) /\ log[i].id <= log[j].id
  /\ \A i, j \in 1 .. Len(log) : IsMark(log, i) /\ IsMark(log, j) /\ i < j => log[i].id <= log[j].id

\* Logs that share a row agree up to it.
Match(s, t) ==
  \A i \in 1 .. Len(s), j \in 1 .. Len(t) :
    IsRow(s, i) /\ s[i].write = t[j].write => i = j /\ \A k \in 1 .. i : s[k] = t[k]

Lacks(log, w) == \A i \in 1 .. Len(log) : log[i].write # w

LogsInv ==
  /\ \A n \in Nodes : LogOK(wal[n])
  /\ \A m, n \in Nodes : Match(wal[m], wal[n])

\* A write is in no log before its commit.
FreshInv ==
  \A w \in Writes : at[w] \in {"idle", "commit", "broken"} => \A n \in Nodes : Lacks(wal[n], w)

\* Where an INSERT waits for its commit there is a leader, whose memory and log
\* are ahead of its id, and no row or other INSERT has it.
PendingInv ==
  /\ leader # NoNode => \A i \in 1 .. Len(wal[leader]) :
       IsRow(wal[leader], i) => wal[leader][i].id < next
  /\ \A w \in Writes : at[w] = "commit" =>
       /\ leader # NoNode /\ id[w] < next /\ Reserved(wal[leader], id[w])
       /\ \A i \in 1 .. Len(wal[leader]) :
            IsRow(wal[leader], i) => wal[leader][i].id # id[w]
       /\ \A v \in Writes : at[v] = "commit" /\ id[v] = id[w] => v = w

IInv == TypeOK /\ LogsInv /\ FreshInv /\ PendingInv

-----------------------------------------------------------------------------
\* Sets of numbers have a least element, and a greatest below a bound.
LEMMA Least ==
  ASSUME NEW T \in SUBSET Nat, T # {}
  PROVE  \E x \in T : \A y \in T : x <= y
<1> DEFINE R == {s \in Nat \X Nat : s[1] < s[2]}
<1>1. IsWellFoundedOn(R, Nat)
  BY NatLessThanWellFounded DEF OpToRel
<1>2. \A x, y \in Nat : <<y, x>> \in R <=> y < x
  OBVIOUS
<1> HIDE DEF R
<1>3. PICK x \in T : \A y \in T : ~ (<<y, x>> \in R)
  BY <1>1, WFMin
<1>4. x \in Nat /\ \A y \in T : y \in Nat
  OBVIOUS
<1>5. \A y \in T : ~(y < x)
  BY <1>2, <1>3, <1>4
<1>6. \A y \in T : x <= y
  BY <1>4, <1>5
<1> QED BY <1>6

LEMMA Greatest ==
  ASSUME NEW n \in Nat, NEW S \in SUBSET (0 .. n), S # {}
  PROVE  \E x \in S : \A y \in S : y <= x
<1> DEFINE T == {n - y : y \in S}
<1>1. T \in SUBSET Nat /\ T # {}
  <2>1. \A y \in S : y \in 0 .. n
    OBVIOUS
  <2>2. \A y \in S : n - y \in Nat
    BY <2>1
  <2> QED BY <2>2
<1>2. PICK z \in T : \A u \in T : z <= u
  BY <1>1, Least
<1>3. PICK x \in S : z = n - x
  OBVIOUS
<1>4. ASSUME NEW y \in S PROVE y <= x
  <2>1. n - x <= n - y
    BY <1>2, <1>3
  <2>2. x \in 0 .. n /\ y \in 0 .. n
    OBVIOUS
  <2> QED BY <2>1, <2>2
<1> QED BY <1>4

\* The value a log leaves its sequence is that of its last mark.
LEMMA LoggedIs ==
  ASSUME NEW log \in Seq(Record)
  PROVE  /\ Logged(log) \in Nat
         /\ \/ Logged(log) = 0 /\ \A i \in 1 .. Len(log) : ~IsMark(log, i)
            \/ \E i \in 1 .. Len(log) :
                 /\ IsMark(log, i) /\ Logged(log) = log[i].id
                 /\ \A j \in 1 .. Len(log) : IsMark(log, j) => j <= i
<1> DEFINE S == {i \in 1 .. Len(log) : log[i].write = NoWrite}
           last == IF S # {} THEN Max(S) ELSE 0
<1>1. Logged(log) = IF last = 0 THEN 0 ELSE log[last].id
  BY DEF Logged, SelectLastInSeq
<1>2. Len(log) \in Nat
  BY LenProperties
<1>3. CASE S = {}
  <2>1. Logged(log) = 0
    BY <1>1, <1>3
  <2> QED BY <1>3, <2>1 DEF IsMark
<1>4. CASE S # {}
  <2>1. S \in SUBSET (0 .. Len(log))
    OBVIOUS
  <2>2. \E x \in S : \A y \in S : x >= y
    <3>1. PICK x \in S : \A y \in S : y <= x
      BY <1>2, <1>4, <2>1, Greatest
    <3>2. \A y \in S : x >= y
      BY <1>2, <3>1
    <3> QED BY <3>2
  <2> DEFINE i == Max(S)
  <2>3. i \in S /\ \A y \in S : i >= y
    BY <2>2 DEF Max
  <2> HIDE DEF i
  <2>4. last = i /\ i # 0 /\ i \in 1 .. Len(log) /\ log[i].write = NoWrite
    BY <1>2, <1>4, <2>3 DEF i
  <2>5. Logged(log) = log[i].id
    BY <1>1, <2>4
  <2>6. log[i] \in Record
    BY <2>4
  <2>7. log[i].id \in Nat
    BY <2>6 DEF Record
  <2>8. \A j \in 1 .. Len(log) : IsMark(log, j) => j <= i
    <3> SUFFICES ASSUME NEW j \in 1 .. Len(log), IsMark(log, j) PROVE j <= i
      OBVIOUS
    <3>1. j \in S
      BY DEF IsMark
    <3> QED BY <1>2, <2>3, <2>4, <3>1
  <2> QED BY <2>4, <2>5, <2>7, <2>8 DEF IsMark
<1> QED BY <1>3, <1>4

\* The longest common prefix is one, and no common beginning is longer.
LEMMA CommonIs ==
  ASSUME NEW s \in Seq(Record), NEW t \in Seq(Record)
  PROVE  LET r == LongestCommonPrefix({s, t})
         IN  /\ r \in Seq(Record) /\ Begins(r, s) /\ Begins(r, t)
             /\ \A k \in 0 .. Len(s) :
                  k <= Len(t) /\ (\A i \in 1 .. k : s[i] = t[i]) => k <= Len(r)
<1> DEFINE C == CommonPrefixes({s, t})
<1>1. Len(s) \in Nat /\ Len(t) \in Nat
  BY LenProperties
<1>2. ASSUME NEW q \in {s, t}, NEW k \in 0 .. Len(q)
      PROVE  /\ SubSeq(q, 1, k) \in Seq(Record) /\ Len(SubSeq(q, 1, k)) = k
             /\ \A i \in 1 .. k : SubSeq(q, 1, k)[i] = q[i]
  <2>1. q \in Seq(Record) /\ k \in Nat
    OBVIOUS
  <2>2. \A i \in 1 .. k : q[i] \in Record
    BY <1>1, <2>1
  <2> QED BY <2>1, <2>2, SubSeqProperties
<1>3. ASSUME NEW p \in C
      PROVE  p \in Seq(Record) /\ Begins(p, s) /\ Begins(p, t)
  <2>1. PICK q \in {s, t} : p \in Prefixes(q)
    BY DEF CommonPrefixes
  <2>2. PICK l \in 0 .. Len(q) : p = SubSeq(q, 1, l)
    BY <2>1 DEF Prefixes
  <2>3. p \in Seq(Record) /\ Len(p) = l /\ l \in Nat
    BY <1>2, <2>2
  <2>4. ASSUME NEW u \in {s, t} PROVE Begins(p, u)
    <3>1. IsPrefix(p, u)
      BY DEF CommonPrefixes
    <3>2. l <= Len(u) /\ SubSeq(p, 1, l) = SubSeq(u, 1, l) /\ l \in 0 .. Len(u)
      BY <1>1, <2>3, <3>1 DEF IsPrefix
    <3>3. \A i \in 1 .. l : SubSeq(u, 1, l)[i] = u[i]
      BY <1>2, <3>2
    <3>4. SubSeq(p, 1, l) = p
      BY <2>3
    <3> QED BY <2>3, <3>2, <3>3, <3>4 DEF Begins
  <2> QED BY <2>3, <2>4
<1>4. ASSUME NEW k \in 0 .. Len(s), k <= Len(t), \A i \in 1 .. k : s[i] = t[i]
      PROVE  \E p \in C : Len(p) = k
  <2> DEFINE p == SubSeq(s, 1, k)
  <2>1. p \in Seq(Record) /\ Len(p) = k /\ \A i \in 1 .. k : p[i] = s[i]
    BY <1>2
  <2>2. p \in Prefixes(s)
    BY DEF Prefixes
  <2> HIDE DEF p
  <2>3. ASSUME NEW u \in {s, t} PROVE IsPrefix(p, u)
    <3>1. k \in 0 .. Len(u) /\ u \in Seq(Record)
      BY <1>1, <1>4
    <3>2. /\ SubSeq(u, 1, k) \in Seq(Record) /\ Len(SubSeq(u, 1, k)) = k
          /\ \A i \in 1 .. k : SubSeq(u, 1, k)[i] = u[i]
      BY <1>2, <3>1
    <3>3. SubSeq(p, 1, k) = p
      BY <2>1
    <3>4. SubSeq(u, 1, k) = p
      <4>1. \A i \in 1 .. k : u[i] = s[i]
        BY <1>4
      <4> QED BY <2>1, <3>2, <4>1, SeqEqual
    <3> QED BY <2>1, <3>1, <3>3, <3>4 DEF IsPrefix
  <2>4. p \in C
    BY <2>2, <2>3 DEF CommonPrefixes
  <2> QED BY <2>1, <2>4
<1>5. \E r \in C : \A p \in C : Len(p) <= Len(r)
  <2> DEFINE L == {Len(p) : p \in C}
  <2>1. L \in SUBSET (0 .. Len(s))
    <3>1. \A p \in C : Len(p) \in 0 .. Len(s)
      BY <1>1, <1>3, LenProperties DEF Begins
    <3> QED BY <3>1
  <2>2. L # {}
    <3>1. \E p \in C : Len(p) = 0
      <4>1. 0 \in 0 .. Len(s) /\ 0 <= Len(t) /\ \A i \in 1 .. 0 : s[i] = t[i]
        BY <1>1
      <4> QED BY <1>4, <4>1
    <3> QED BY <3>1
  <2>3. PICK l \in L : \A k \in L : k <= l
    BY <1>1, <2>1, <2>2, Greatest
  <2>4. PICK r \in C : Len(r) = l
    OBVIOUS
  <2> QED BY <2>3, <2>4
<1> DEFINE r == LongestCommonPrefix({s, t})
<1>6. r \in C /\ \A p \in C : Len(p) <= Len(r)
  BY <1>5 DEF LongestCommonPrefix
<1> HIDE DEF r, C
<1>7. r \in Seq(Record) /\ Begins(r, s) /\ Begins(r, t)
  BY <1>3, <1>6
<1>8. \A k \in 0 .. Len(s) :
         k <= Len(t) /\ (\A i \in 1 .. k : s[i] = t[i]) => k <= Len(r)
  BY <1>4, <1>6
<1> QED BY <1>7, <1>8 DEF r

-----------------------------------------------------------------------------
\* What a beginning of a log inherits.
LEMMA BeginsItself ==
  ASSUME NEW s \in Seq(Record)
  PROVE  Begins(s, s)
BY LenProperties DEF Begins

LEMMA BeginsParts ==
  ASSUME NEW s \in Seq(Record), NEW t \in Seq(Record), Begins(s, t)
  PROVE  \A i \in 1 .. Len(s) : i \in 1 .. Len(t) /\ s[i] = t[i]
BY LenProperties DEF Begins

LEMMA LogBegins ==
  ASSUME NEW s \in Seq(Record), NEW t \in Seq(Record), Begins(s, t), LogOK(t)
  PROVE  LogOK(s)
<1>1. /\ Len(s) \in Nat
      /\ \A i \in 1 .. Len(s) : i \in 1 .. Len(t) /\ s[i] = t[i]
  BY BeginsParts, LenProperties
<1>2. \A i \in 1 .. Len(s) :
         i \in 1 .. Len(t) /\ (IsRow(s, i) <=> IsRow(t, i)) /\ (IsMark(s, i) <=> IsMark(t, i))
  BY <1>1 DEF IsRow, IsMark
<1>3. \A i, j \in 1 .. Len(s) :
         IsRow(s, i) /\ IsRow(s, j) /\ s[i].id = s[j].id => i = j
  BY <1>1, <1>2 DEF LogOK
<1>4. ASSUME NEW i \in 1 .. Len(s), IsRow(s, i)
      PROVE  \E j \in 1 .. Len(s) : j < i /\ IsMark(s, j) /\ s[i].id <= s[j].id
  <2>1. i \in 1 .. Len(t) /\ IsRow(t, i)
    BY <1>2, <1>4
  <2>2. PICK j \in 1 .. Len(t) : j < i /\ IsMark(t, j) /\ t[i].id <= t[j].id
    BY <2>1 DEF LogOK
  <2>3. j \in 1 .. Len(s)
    BY <1>1, <2>2
  <2> QED BY <1>1, <1>2, <2>2, <2>3
<1>5. \A i, j \in 1 .. Len(s) : IsMark(s, i) /\ IsMark(s, j) /\ i < j => s[i].id <= s[j].id
  BY <1>1, <1>2 DEF LogOK
<1> QED BY <1>3, <1>4, <1>5 DEF LogOK

LEMMA MatchBegins ==
  ASSUME NEW s \in Seq(Record), NEW t \in Seq(Record), Match(s, t),
         NEW p \in Seq(Record), NEW q \in Seq(Record), Begins(p, s), Begins(q, t)
  PROVE  Match(p, q)
<1>1. \A i \in 1 .. Len(p) : i \in 1 .. Len(s) /\ p[i] = s[i]
  BY BeginsParts
<1>2. \A i \in 1 .. Len(q) : i \in 1 .. Len(t) /\ q[i] = t[i]
  BY BeginsParts
<1> SUFFICES ASSUME NEW i \in 1 .. Len(p), NEW j \in 1 .. Len(q),
                    IsRow(p, i), p[i].write = q[j].write
             PROVE  i = j /\ \A k \in 1 .. i : p[k] = q[k]
  BY DEF Match
<1>3. i \in 1 .. Len(s) /\ j \in 1 .. Len(t) /\ IsRow(s, i) /\ s[i].write = t[j].write
  BY <1>1, <1>2 DEF IsRow
<1>4. i = j /\ \A k \in 1 .. i : s[k] = t[k]
  BY <1>3 DEF Match
<1>5. \A k \in 1 .. i : k \in 1 .. Len(p) /\ k \in 1 .. Len(q)
  BY <1>4, LenProperties
<1> QED BY <1>1, <1>2, <1>4, <1>5

LEMMA LacksBegins ==
  ASSUME NEW s \in Seq(Record), NEW t \in Seq(Record), Begins(s, t),
         NEW w, Lacks(t, w)
  PROVE  Lacks(s, w)
BY BeginsParts DEF Lacks

\* A row of both logs is in their common prefix.
LEMMA CommonKeeps ==
  ASSUME NEW s \in Seq(Record), NEW t \in Seq(Record), Match(s, t),
         NEW w \in Writes, ~Lacks(s, w), ~Lacks(t, w)
  PROVE  ~Lacks(LongestCommonPrefix({s, t}), w)
<1>1. PICK i \in 1 .. Len(s) : s[i].write = w
  BY DEF Lacks
<1>2. PICK j \in 1 .. Len(t) : t[j].write = w
  BY DEF Lacks
<1>3. IsRow(s, i)
  BY <1>1, FailoverAssumption DEF IsRow
<1>4. i = j /\ \A k \in 1 .. i : s[k] = t[k]
  BY <1>1, <1>2, <1>3 DEF Match
<1> DEFINE r == LongestCommonPrefix({s, t})
<1>5. /\ r \in Seq(Record) /\ Begins(r, s)
      /\ \A k \in 0 .. Len(s) :
           k <= Len(t) /\ (\A l \in 1 .. k : s[l] = t[l]) => k <= Len(r)
  BY CommonIs
<1> HIDE DEF r
<1>6. i <= Len(r)
  BY <1>4, <1>5, LenProperties
<1>7. i \in 1 .. Len(r) /\ r[i] = s[i]
  BY <1>5, <1>6, LenProperties DEF Begins
<1>8. ~Lacks(r, w)
  BY <1>1, <1>7 DEF Lacks
<1> QED BY <1>8 DEF r

-----------------------------------------------------------------------------
\* What a record appended to a log changes.
LEMMA AppendParts ==
  ASSUME NEW s \in Seq(Record), NEW r \in Record
  PROVE  LET t == Append(s, r)
         IN  /\ t \in Seq(Record) /\ Len(t) = Len(s) + 1 /\ Len(s) \in Nat
             /\ t[Len(s) + 1] = r /\ Begins(s, t)
             /\ \A i \in 1 .. Len(t) : i = Len(s) + 1 \/ (i \in 1 .. Len(s) /\ t[i] = s[i])
<1> DEFINE t == Append(s, r)
<1>1. Len(s) \in Nat
  BY LenProperties
<1>2. /\ t \in Seq(Record) /\ Len(t) = Len(s) + 1 /\ t[Len(s) + 1] = r
      /\ \A i \in 1 .. Len(s) : t[i] = s[i]
  BY AppendProperties
<1> HIDE DEF t
<1>3. Begins(s, t)
  <2>1. Len(s) <= Len(t)
    BY <1>1, <1>2
  <2> QED BY <1>2, <2>1 DEF Begins
<1>4. \A i \in 1 .. Len(t) : i = Len(s) + 1 \/ (i \in 1 .. Len(s) /\ t[i] = s[i])
  BY <1>1, <1>2
<1> QED BY <1>1, <1>2, <1>3, <1>4 DEF t

LEMMA LogMark ==
  ASSUME NEW s \in Seq(Record), NEW r \in Record, LogOK(s), r.write = NoWrite,
         \A i \in 1 .. Len(s) : IsMark(s, i) => s[i].id <= r.id
  PROVE  LogOK(Append(s, r))
<1> DEFINE t == Append(s, r)
           z == Len(s) + 1
<1>1. /\ Len(t) = z /\ Len(s) \in Nat /\ t[z] = r
      /\ \A i \in 1 .. z : i = z \/ (i \in 1 .. Len(s) /\ t[i] = s[i])
      /\ \A i \in 1 .. Len(s) : i \in 1 .. z /\ i # z /\ t[i] = s[i]
  BY AppendParts DEF Begins
<1> HIDE DEF t
<1>2. /\ IsMark(t, z) /\ ~IsRow(t, z)
      /\ \A i \in 1 .. Len(s) : (IsRow(t, i) <=> IsRow(s, i)) /\ (IsMark(t, i) <=> IsMark(s, i))
  BY <1>1 DEF IsRow, IsMark
<1> HIDE DEF z
<1>3. \A i, j \in 1 .. Len(t) : IsRow(t, i) /\ IsRow(t, j) /\ t[i].id = t[j].id => i = j
  BY <1>1, <1>2 DEF LogOK
<1>4. ASSUME NEW i \in 1 .. Len(t), IsRow(t, i)
      PROVE  \E j \in 1 .. Len(t) : j < i /\ IsMark(t, j) /\ t[i].id <= t[j].id
  <2>1. i \in 1 .. Len(s) /\ IsRow(s, i) /\ t[i] = s[i]
    BY <1>1, <1>2, <1>4
  <2>2. PICK j \in 1 .. Len(s) : j < i /\ IsMark(s, j) /\ s[i].id <= s[j].id
    BY <2>1 DEF LogOK
  <2>3. j \in 1 .. Len(t) /\ IsMark(t, j) /\ t[j] = s[j]
    BY <1>1, <1>2, <2>2
  <2> QED BY <2>1, <2>2, <2>3
<1>5. ASSUME NEW i \in 1 .. Len(t), NEW j \in 1 .. Len(t), IsMark(t, i), IsMark(t, j), i < j
      PROVE  t[i].id <= t[j].id
  <2>1. i \in 1 .. Len(s) /\ IsMark(s, i) /\ t[i] = s[i]
    <3>1. i # z
      BY <1>1, <1>5 DEF z
    <3> QED BY <1>1, <1>2, <1>5, <3>1
  <2>2. CASE j = z
    BY <1>1, <2>1, <2>2
  <2>3. CASE j # z
    BY <1>1, <1>2, <1>5, <2>1, <2>3 DEF LogOK
  <2> QED BY <2>2, <2>3
<1>6. LogOK(t)
  BY <1>3, <1>4, <1>5 DEF LogOK
<1> QED BY <1>6 DEF t

LEMMA LogRow ==
  ASSUME NEW s \in Seq(Record), NEW r \in Record, LogOK(s), r.write # NoWrite,
         Reserved(s, r.id), \A i \in 1 .. Len(s) : IsRow(s, i) => s[i].id # r.id
  PROVE  LogOK(Append(s, r))
<1> DEFINE t == Append(s, r)
           z == Len(s) + 1
<1>1. /\ Len(t) = z /\ Len(s) \in Nat /\ t[z] = r /\ z \in 1 .. z
      /\ \A i \in 1 .. z : i = z \/ (i \in 1 .. Len(s) /\ t[i] = s[i])
      /\ \A i \in 1 .. Len(s) : i \in 1 .. z /\ i < z /\ i # z /\ t[i] = s[i]
  BY AppendParts DEF Begins
<1> HIDE DEF t
<1>2. /\ IsRow(t, z) /\ ~IsMark(t, z)
      /\ \A i \in 1 .. Len(s) : (IsRow(t, i) <=> IsRow(s, i)) /\ (IsMark(t, i) <=> IsMark(s, i))
  BY <1>1 DEF IsRow, IsMark
<1> HIDE DEF z
<1>3. ASSUME NEW i \in 1 .. Len(t), NEW j \in 1 .. Len(t),
             IsRow(t, i), IsRow(t, j), t[i].id = t[j].id
      PROVE  i = j
  <2>1. CASE i = z /\ j # z
    BY <1>1, <1>2, <1>3, <2>1
  <2>2. CASE i # z /\ j = z
    BY <1>1, <1>2, <1>3, <2>2
  <2>3. CASE i # z /\ j # z
    BY <1>1, <1>2, <1>3, <2>3 DEF LogOK
  <2> QED BY <2>1, <2>2, <2>3
<1>4. ASSUME NEW i \in 1 .. Len(t), IsRow(t, i)
      PROVE  \E j \in 1 .. Len(t) : j < i /\ IsMark(t, j) /\ t[i].id <= t[j].id
  <2>1. \E j \in 1 .. Len(s) : j < i /\ IsMark(s, j) /\ t[i].id <= s[j].id
    <3>1. CASE i = z
      BY <1>1, <3>1 DEF Reserved
    <3>2. CASE i # z
      BY <1>1, <1>2, <1>4, <3>2 DEF LogOK
    <3> QED BY <3>1, <3>2
  <2> QED BY <1>1, <1>2, <2>1
<1>5. \A i, j \in 1 .. Len(t) : IsMark(t, i) /\ IsMark(t, j) /\ i < j => t[i].id <= t[j].id
  BY <1>1, <1>2 DEF LogOK
<1>6. LogOK(t)
  BY <1>3, <1>4, <1>5 DEF LogOK
<1> QED BY <1>6 DEF t

LEMMA MatchGrows ==
  ASSUME NEW s \in Seq(Record), NEW t \in Seq(Record), NEW r \in Record,
         r.write = NoWrite \/ Lacks(t, r.write)
  PROVE  /\ Match(s, t) => Match(Append(s, r), t)
         /\ Match(t, s) => Match(t, Append(s, r))
<1> DEFINE u == Append(s, r)
           z == Len(s) + 1
<1>1. /\ Len(u) = z /\ Len(s) \in Nat /\ u[z] = r
      /\ \A i \in 1 .. z : i = z \/ (i \in 1 .. Len(s) /\ u[i] = s[i])
      /\ \A i \in 1 .. Len(s) : u[i] = s[i]
  BY AppendParts DEF Begins
<1> HIDE DEF u
<1>2. ASSUME Match(s, t), NEW i \in 1 .. Len(u), NEW j \in 1 .. Len(t),
             IsRow(u, i), u[i].write = t[j].write
      PROVE  i = j /\ \A k \in 1 .. i : u[k] = t[k]
  <2>1. i # z
    BY <1>1, <1>2 DEF IsRow, Lacks
  <2>2. i \in 1 .. Len(s) /\ u[i] = s[i] /\ IsRow(s, i)
    BY <1>1, <1>2, <2>1 DEF IsRow
  <2>3. i = j /\ \A k \in 1 .. i : s[k] = t[k]
    BY <1>2, <2>2 DEF Match
  <2>4. \A k \in 1 .. i : k \in 1 .. Len(s)
    BY <1>1, <2>2
  <2> QED BY <1>1, <2>3, <2>4
<1>3. ASSUME Match(t, s), NEW i \in 1 .. Len(t), NEW j \in 1 .. Len(u),
             IsRow(t, i), t[i].write = u[j].write
      PROVE  i = j /\ \A k \in 1 .. i : t[k] = u[k]
  <2>1. j # z
    BY <1>1, <1>3 DEF IsRow, Lacks
  <2>2. j \in 1 .. Len(s) /\ u[j] = s[j]
    BY <1>1, <1>3, <2>1
  <2>3. i = j /\ \A k \in 1 .. i : t[k] = s[k]
    BY <1>3, <2>2 DEF Match
  <2>4. \A k \in 1 .. i : k \in 1 .. Len(s)
    BY <1>1, <2>2, <2>3
  <2> QED BY <1>1, <2>3, <2>4
<1>4. /\ Match(s, t) => Match(u, t)
      /\ Match(t, s) => Match(t, u)
  BY <1>2, <1>3 DEF Match
<1> QED BY <1>4 DEF u

LEMMA MatchSelf ==
  ASSUME NEW s \in Seq(Record), NEW r \in Record, Match(s, s),
         r.write = NoWrite \/ Lacks(s, r.write)
  PROVE  Match(Append(s, r), Append(s, r))
<1> DEFINE u == Append(s, r)
           z == Len(s) + 1
<1>1. /\ Len(u) = z /\ u[z] = r
      /\ \A i \in 1 .. z : i = z \/ (i \in 1 .. Len(s) /\ u[i] = s[i])
  BY AppendParts
<1> HIDE DEF u, z
<1> SUFFICES ASSUME NEW i \in 1 .. Len(u), NEW j \in 1 .. Len(u),
                    IsRow(u, i), u[i].write = u[j].write
             PROVE  i = j
  BY DEF Match, u
<1>2. CASE i = z /\ j # z
  BY <1>1, <1>2 DEF IsRow, Lacks
<1>3. CASE i # z /\ j = z
  BY <1>1, <1>3 DEF IsRow, Lacks
<1>4. CASE i # z /\ j # z
  <2>1. /\ i \in 1 .. Len(s) /\ j \in 1 .. Len(s) /\ IsRow(s, i)
        /\ s[i].write = s[j].write
    BY <1>1, <1>4 DEF IsRow
  <2> QED BY <2>1 DEF Match
<1> QED BY <1>2, <1>3, <1>4

LEMMA LacksGrows ==
  ASSUME NEW s \in Seq(Record), NEW r \in Record, NEW w
  PROVE  /\ Lacks(s, w) /\ w # r.write => Lacks(Append(s, r), w)
         /\ ~Lacks(s, w) => ~Lacks(Append(s, r), w)
<1>1. /\ \A i \in 1 .. Len(Append(s, r)) :
           \/ i = Len(s) + 1 /\ Append(s, r)[i] = r
           \/ i \in 1 .. Len(s) /\ Append(s, r)[i] = s[i]
      /\ Begins(s, Append(s, r)) /\ Append(s, r) \in Seq(Record)
  BY AppendParts
<1>2. \A i \in 1 .. Len(s) : i \in 1 .. Len(Append(s, r)) /\ s[i] = Append(s, r)[i]
  BY <1>1, BeginsParts
<1> QED BY <1>1, <1>2 DEF Lacks

-----------------------------------------------------------------------------
\* No step takes from the nodes a row they all have.
Kept ==
  \A w \in Writes : (\A n \in Nodes : ~Lacks(wal[n], w)) => \A n \in Nodes : ~Lacks(wal'[n], w)

\* No step puts a write into a log.
NoneNew ==
  \A w \in Writes : (\A n \in Nodes : Lacks(wal[n], w)) => \A n \in Nodes : Lacks(wal'[n], w)

\* A request whose commit is still to come was one before.
NoneBack ==
  \A w \in Writes : at'[w] \in {"idle", "commit", "broken"} => at[w] \in {"idle", "commit", "broken"}

LEMMA LogTypes ==
  ASSUME TypeOK
  PROVE  /\ wal \in [Nodes -> Seq(Record)]
         /\ \A n \in Nodes : wal[n] \in Seq(Record) /\ Begins(wal[n], wal[n])
         /\ leader # NoNode => leader \in Nodes
BY BeginsItself DEF TypeOK

LEMMA Ids ==
  ASSUME NEW s \in Seq(Record)
  PROVE  \A i \in 1 .. Len(s) : s[i].id \in Nat
<1> SUFFICES ASSUME NEW i \in 1 .. Len(s) PROVE s[i].id \in Nat
  OBVIOUS
<1>1. s[i] \in Record
  BY LenProperties
<1> QED BY <1>1 DEF Record

\* Every node is left with the beginning of a log that a node had.
LEMMA BeginningStep ==
  ASSUME IInv, TypeOK', \A n \in Nodes : \E m \in Nodes : Begins(wal'[n], wal[m])
  PROVE  LogsInv' /\ NoneNew
<1>1. \A n \in Nodes : wal[n] \in Seq(Record) /\ wal'[n] \in Seq(Record)
  BY DEF IInv, TypeOK
<1>2. \A n \in Nodes : LogOK(wal'[n])
  BY <1>1, LogBegins DEF IInv, LogsInv
<1>3. ASSUME NEW m \in Nodes, NEW n \in Nodes PROVE Match(wal'[m], wal'[n])
  <2>1. PICK k \in Nodes : Begins(wal'[m], wal[k])
    OBVIOUS
  <2>2. PICK l \in Nodes : Begins(wal'[n], wal[l])
    OBVIOUS
  <2>3. Match(wal[k], wal[l])
    BY DEF IInv, LogsInv
  <2> QED BY <1>1, <2>1, <2>2, <2>3, MatchBegins
<1>4. NoneNew
  BY <1>1, LacksBegins DEF NoneNew
<1> QED BY <1>2, <1>3, <1>4 DEF LogsInv

\* The leader appends a record to its log.
LEMMA AppendStep ==
  ASSUME IInv, leader \in Nodes, NEW r \in Record,
         wal' = [wal EXCEPT ![leader] = Append(wal[leader], r)],
         LogOK(Append(wal[leader], r)),
         r.write = NoWrite \/ \A n \in Nodes : Lacks(wal[n], r.write)
  PROVE  /\ wal' \in [Nodes -> Seq(Record)] /\ LogsInv' /\ Kept
         /\ \A w \in Writes \ {r.write} :
              (\A n \in Nodes : Lacks(wal[n], w)) => \A n \in Nodes : Lacks(wal'[n], w)
<1>1. wal \in [Nodes -> Seq(Record)] /\ \A n \in Nodes : wal[n] \in Seq(Record)
  BY DEF IInv, TypeOK
<1>2. Append(wal[leader], r) \in Seq(Record)
  BY <1>1, AppendParts
<1>3. /\ wal' \in [Nodes -> Seq(Record)] /\ wal'[leader] = Append(wal[leader], r)
      /\ \A n \in Nodes \ {leader} : wal'[n] = wal[n]
  BY <1>1, <1>2
<1>4. \A n \in Nodes : LogOK(wal'[n])
  BY <1>3 DEF IInv, LogsInv
<1>5. \A m, n \in Nodes : Match(wal[m], wal[n])
  BY DEF IInv, LogsInv
<1>6. ASSUME NEW m \in Nodes, NEW n \in Nodes PROVE Match(wal'[m], wal'[n])
  <2>1. CASE m = leader /\ n = leader
    BY <1>1, <1>3, <1>5, <2>1, MatchSelf
  <2>2. CASE m = leader /\ n # leader
    BY <1>1, <1>3, <1>5, <2>2, MatchGrows
  <2>3. CASE m # leader /\ n = leader
    BY <1>1, <1>3, <1>5, <2>3, MatchGrows
  <2>4. CASE m # leader /\ n # leader
    BY <1>3, <1>5, <2>4
  <2> QED BY <2>1, <2>2, <2>3, <2>4
<1>7. Kept
  BY <1>1, <1>3, LacksGrows DEF Kept
<1>8. ASSUME NEW w \in Writes \ {r.write}, \A n \in Nodes : Lacks(wal[n], w), NEW n \in Nodes
      PROVE  Lacks(wal'[n], w)
  BY <1>1, <1>3, <1>8, LacksGrows
<1> QED BY <1>3, <1>4, <1>6, <1>7, <1>8 DEF LogsInv

\* What waits for its commit is undisturbed by what does not reach the leader.
LEMMA PendingStays ==
  ASSUME PendingInv, leader' = leader, next' = next, id' = id,
         leader # NoNode => wal'[leader] = wal[leader],
         \A w \in Writes : at'[w] = "commit" => at[w] = "commit"
  PROVE  PendingInv'
BY DEF PendingInv

LEMMA FreshStays ==
  ASSUME FreshInv, NoneNew, NoneBack
  PROVE  FreshInv'
BY Zenon DEF FreshInv, NoneNew, NoneBack

LEMMA InitIInv == Init => IInv
<1> SUFFICES ASSUME Init PROVE IInv
  OBVIOUS
<1>1. TypeOK
  BY FailoverAssumption DEF Init, TypeOK
<1>2. \A n \in Nodes : wal[n] = <<>> /\ Len(wal[n]) = 0
  BY DEF Init
<1>3. LogsInv
  BY <1>2 DEF LogsInv, LogOK, Match
<1>4. FreshInv
  BY <1>2 DEF FreshInv, Lacks
<1>5. PendingInv
  BY <1>1, <1>2, LogTypes DEF Init, PendingInv
<1> QED BY <1>1, <1>3, <1>4, <1>5 DEF IInv

\* An INSERT takes an id that is above all its leader has given, and reserves it.
LEMMA InsertStep ==
  ASSUME IInv, NEW w \in Writes, Insert(w)
  PROVE  IInv' /\ Kept
<1>1. TypeOK /\ leader \in Nodes /\ next \in Nat /\ next # 0
  BY LogTypes DEF IInv, TypeOK, Insert
<1>2. wal \in [Nodes -> Seq(Record)] /\ wal[leader] \in Seq(Record) /\ LogOK(wal[leader])
  BY <1>1, LogTypes DEF IInv, LogsInv
<1> DEFINE l == wal[leader]
           r == [write |-> NoWrite, id |-> next + Ahead]
<1>3. r \in Record /\ r.write = NoWrite /\ r.id = next + Ahead /\ next + Ahead \in Nat
  BY <1>1, FailoverAssumption DEF Record
<1>4. /\ wal' \in [Nodes -> Seq(Record)] /\ LogsInv' /\ Kept /\ NoneNew
      /\ Reserved(wal'[leader], next)
      /\ \A n \in Nat : Reserved(l, n) => Reserved(wal'[leader], n)
      /\ \A i \in 1 .. Len(wal'[leader]) : IsRow(wal'[leader], i) =>
           i \in 1 .. Len(l) /\ IsRow(l, i) /\ wal'[leader][i] = l[i]
  <2>1. CASE next <= Logged(l)
    <3>1. wal' = wal
      BY <1>1, <1>2, <2>1 DEF Insert, SequenceRecord
    <3>2. Reserved(l, next)
      BY <1>1, <1>2, <2>1, LoggedIs DEF Reserved
    <3>3. LogsInv' /\ Kept /\ NoneNew
      BY <3>1 DEF IInv, LogsInv, Kept, NoneNew
    <3> QED BY <1>2, <3>1, <3>2, <3>3
  <2>2. CASE ~(next <= Logged(l))
    <3>1. wal' = [wal EXCEPT ![leader] = Append(l, r)]
      <4>1. wal' = [wal EXCEPT ![leader] = l \o <<r>>]
        BY <2>2 DEF Insert, SequenceRecord
      <4>2. l \o <<r>> = Append(l, r)
        BY <1>2, <1>3, AppendIsConcat
      <4> QED BY <4>1, <4>2
    <3>2. \A i \in 1 .. Len(l) : IsMark(l, i) => l[i].id <= r.id
      <4> SUFFICES ASSUME NEW i \in 1 .. Len(l), IsMark(l, i) PROVE l[i].id <= r.id
        OBVIOUS
      <4>1. l[i].id <= Logged(l) /\ l[i].id \in Nat /\ Logged(l) \in Nat
        <5>1. \A k \in 1 .. Len(l) : l[k].id \in Nat
          BY <1>2, Ids
        <5>2. PICK k \in 1 .. Len(l) : IsMark(l, k) /\ Logged(l) = l[k].id /\ i <= k
          BY <1>2, LoggedIs
        <5>3. CASE i = k
          BY <5>1, <5>2, <5>3
        <5>4. CASE i < k
          BY <1>2, <5>1, <5>2, <5>4 DEF LogOK
        <5> QED BY <1>2, <5>2, <5>3, <5>4, LenProperties
      <4> QED BY <1>1, <1>3, <2>2, <4>1, FailoverAssumption
    <3>3. LogOK(Append(l, r))
      BY <1>2, <1>3, <3>2, LogMark
    <3>4. /\ wal' \in [Nodes -> Seq(Record)] /\ LogsInv' /\ Kept
          /\ \A v \in Writes \ {r.write} :
               (\A n \in Nodes : Lacks(wal[n], v)) => \A n \in Nodes : Lacks(wal'[n], v)
      BY <1>1, <1>3, <3>1, <3>3, AppendStep
    <3>5. NoneNew
      BY <1>3, <3>4, FailoverAssumption DEF NoneNew
    <3> DEFINE t == Append(l, r)
               z == Len(l) + 1
    <3>6. /\ Len(t) = z /\ Len(l) \in Nat /\ t[z] = r /\ z \in 1 .. z
          /\ \A i \in 1 .. z : i = z \/ (i \in 1 .. Len(l) /\ t[i] = l[i])
          /\ \A i \in 1 .. Len(l) : i \in 1 .. z /\ t[i] = l[i]
      <4>1. Begins(l, t) /\ t \in Seq(Record)
        BY <1>2, <1>3, AppendParts
      <4>2. \A i \in 1 .. Len(l) : i \in 1 .. Len(t) /\ t[i] = l[i]
        BY <1>2, <4>1, BeginsParts
      <4> QED BY <1>2, <1>3, <4>2, AppendParts
    <3>7. wal'[leader] = t
      BY <1>1, <1>2, <3>1
    <3> HIDE DEF t, z, r
    <3>8. Reserved(t, next)
      BY <1>1, <1>3, <3>6, FailoverAssumption DEF Reserved, IsMark
    <3>9. \A n \in Nat : Reserved(l, n) => Reserved(t, n)
      BY <3>6 DEF Reserved, IsMark
    <3>10. \A i \in 1 .. Len(t) : IsRow(t, i) => i \in 1 .. Len(l) /\ IsRow(l, i) /\ t[i] = l[i]
      BY <1>3, <3>6 DEF IsRow
    <3> QED BY <3>4, <3>5, <3>7, <3>8, <3>9, <3>10
  <2> QED BY <2>1, <2>2
<1>5. TypeOK'
  <2>1. next' = next + 1 /\ leader' = leader /\ up' = up /\ answer' = answer /\ faults' = faults
    BY DEF Insert
  <2>2. /\ at' \in [Writes -> {"idle", "commit", "broken", "answer", "done"}]
        /\ id' \in [Writes -> Nat]
    BY <1>1 DEF Insert, TypeOK
  <2>3. leader # NoNode
    BY DEF Insert
  <2> QED BY <1>1, <1>4, <2>1, <2>2, <2>3 DEF TypeOK
<1>6. /\ at[w] = "idle" /\ at'[w] = "commit" /\ id'[w] = next
      /\ \A v \in Writes \ {w} : at'[v] = at[v] /\ id'[v] = id[v]
      /\ next' = next + 1 /\ leader' = leader
  BY <1>1 DEF Insert, TypeOK
<1>7. FreshInv'
  <2>1. NoneBack
    BY <1>6 DEF NoneBack
  <2> QED BY <1>4, <2>1, FreshStays DEF IInv
<1>8. PendingInv'
  <2>1. \A i \in 1 .. Len(l) : l[i].id \in Nat
    BY <1>2, Ids
  <2>2. \A i \in 1 .. Len(l) : IsRow(l, i) => l[i].id < next
    BY <1>1, FailoverAssumption DEF IInv, PendingInv
  <2>3. ASSUME NEW i \in 1 .. Len(wal'[leader]), IsRow(wal'[leader], i)
        PROVE  wal'[leader][i].id < next /\ wal'[leader][i].id < next + 1
    BY <1>1, <1>4, <2>1, <2>2, <2>3
  <2>4. ASSUME NEW v \in Writes, at'[v] = "commit"
        PROVE  /\ id'[v] < next + 1 /\ Reserved(wal'[leader], id'[v])
               /\ \A i \in 1 .. Len(wal'[leader]) :
                    IsRow(wal'[leader], i) => wal'[leader][i].id # id'[v]
               /\ \A u \in Writes : at'[u] = "commit" /\ id'[u] = id'[v] => u = v
    <3>1. \A u \in Writes \ {w} : at'[u] = "commit" => id'[u] < next /\ id'[u] \in Nat
      BY <1>1, <1>6 DEF IInv, PendingInv, TypeOK
    <3>2. CASE v = w
      <4>1. \A u \in Writes : at'[u] = "commit" /\ id'[u] = next => u = w
        BY <1>1, <3>1
      <4>2. \A i \in 1 .. Len(wal'[leader]) :
              IsRow(wal'[leader], i) => wal'[leader][i].id # next
        BY <1>1, <2>3
      <4> QED BY <1>1, <1>4, <1>6, <3>2, <4>1, <4>2
    <3>3. CASE v # w
      <4>1. /\ id[v] < next /\ Reserved(l, id[v]) /\ id[v] \in Nat
            /\ \A i \in 1 .. Len(l) : IsRow(l, i) => l[i].id # id[v]
            /\ \A u \in Writes : at[u] = "commit" /\ id[u] = id[v] => u = v
        BY <1>1, <1>6, <2>4, <3>3 DEF IInv, PendingInv, TypeOK
      <4>2. id'[v] = id[v]
        BY <1>6, <3>3
      <4>3. \A u \in Writes : at'[u] = "commit" /\ id'[u] = id[v] => u = v
        BY <1>1, <1>6, <4>1
      <4>4. \A i \in 1 .. Len(wal'[leader]) :
              IsRow(wal'[leader], i) => wal'[leader][i].id # id[v]
        BY <1>4, <4>1
      <4> QED BY <1>1, <1>4, <4>1, <4>2, <4>3, <4>4
    <3> QED BY <3>2, <3>3
  <2>5. leader' # NoNode
    BY <1>6 DEF Insert
  <2> QED BY <1>6, <2>3, <2>4, <2>5 DEF PendingInv
<1> QED BY <1>4, <1>5, <1>7, <1>8 DEF IInv

\* A commit puts the row behind the mark that reserved its id.
LEMMA CommitStep ==
  ASSUME IInv, NEW w \in Writes, Commit(w)
  PROVE  IInv' /\ Kept
<1> DEFINE r == [write |-> w, id |-> id[w]]
<1>1. /\ TypeOK /\ at[w] = "commit" /\ leader \in Nodes /\ wal[leader] \in Seq(Record)
      /\ id[w] \in Nat /\ id[w] < next /\ Reserved(wal[leader], id[w]) /\ LogOK(wal[leader])
      /\ \A i \in 1 .. Len(wal[leader]) : IsRow(wal[leader], i) => wal[leader][i].id # id[w]
      /\ \A n \in Nodes : Lacks(wal[n], w)
  <2>1. TypeOK /\ at[w] = "commit" /\ leader # NoNode
    BY DEF IInv, PendingInv, Commit
  <2>2. leader \in Nodes /\ wal[leader] \in Seq(Record)
    BY <2>1, LogTypes
  <2>3. id[w] \in Nat
    BY <2>1 DEF TypeOK
  <2> QED BY <2>1, <2>2, <2>3 DEF IInv, LogsInv, FreshInv, PendingInv
<1>2. r \in Record /\ r.write = w /\ r.id = id[w] /\ w # NoWrite
  BY <1>1, FailoverAssumption DEF Record
<1>3. wal' = [wal EXCEPT ![leader] = Append(wal[leader], r)]
  BY DEF Commit
<1> HIDE DEF r
<1>4. LogOK(Append(wal[leader], r))
  BY <1>1, <1>2, LogRow
<1>5. /\ wal' \in [Nodes -> Seq(Record)] /\ LogsInv' /\ Kept
      /\ \A v \in Writes \ {w} :
           (\A n \in Nodes : Lacks(wal[n], v)) => \A n \in Nodes : Lacks(wal'[n], v)
  BY <1>1, <1>2, <1>3, <1>4, AppendStep
<1>6. /\ at' = [at EXCEPT ![w] = "answer"] /\ up' = up /\ leader' = leader /\ next' = next
      /\ id' = id /\ answer' = answer /\ faults' = faults
  BY DEF Commit
<1>7. TypeOK'
  <2>1. at' \in [Writes -> {"idle", "commit", "broken", "answer", "done"}]
    BY <1>1, <1>6 DEF TypeOK
  <2> QED BY <1>1, <1>5, <1>6, <2>1 DEF TypeOK
<1>8. at'[w] = "answer" /\ \A v \in Writes \ {w} : at'[v] = at[v]
  BY <1>1, <1>6 DEF TypeOK
<1>9. FreshInv'
  <2> SUFFICES ASSUME NEW v \in Writes, at'[v] \in {"idle", "commit", "broken"}
               PROVE  \A n \in Nodes : Lacks(wal'[n], v)
    BY DEF FreshInv
  <2>1. v # w /\ \A n \in Nodes : Lacks(wal[n], v)
    BY <1>8 DEF IInv, FreshInv
  <2> QED BY <1>5, <2>1
<1>10. PendingInv'
  <2> DEFINE t == Append(wal[leader], r)
             l == wal[leader]
             z == Len(l) + 1
  <2>1. /\ wal'[leader] = t /\ Len(t) = z /\ t[z] = r
        /\ \A i \in 1 .. z : i = z \/ (i \in 1 .. Len(l) /\ t[i] = l[i])
    <3>1. wal'[leader] = t
      BY <1>1, <1>3 DEF TypeOK
    <3> QED BY <1>1, <1>2, <3>1, AppendParts
  <2>2. \A i \in 1 .. Len(l) : i \in 1 .. Len(t) /\ t[i] = l[i]
    <3>1. Begins(l, t) /\ t \in Seq(Record)
      BY <1>1, <1>2, AppendParts
    <3> QED BY <1>1, <3>1, BeginsParts
  <2> HIDE DEF t, z
  <2>3. \A i \in 1 .. Len(t) :
          IsRow(t, i) => t[i].id = id[w] \/ (IsRow(l, i) /\ i \in 1 .. Len(l) /\ t[i].id = l[i].id)
    BY <1>2, <2>1 DEF IsRow
  <2>4. \A i \in 1 .. Len(t) : IsRow(t, i) => t[i].id < next
    BY <1>1, <2>3, FailoverAssumption DEF IInv, PendingInv
  <2>5. ASSUME NEW v \in Writes, at'[v] = "commit"
        PROVE  /\ id[v] < next /\ Reserved(t, id[v])
               /\ \A i \in 1 .. Len(t) : IsRow(t, i) => t[i].id # id[v]
               /\ \A u \in Writes : at'[u] = "commit" /\ id[u] = id[v] => u = v
    <3>1. v # w /\ at[v] = "commit"
      BY <1>8, <2>5
    <3>2. /\ id[v] < next /\ Reserved(l, id[v])
          /\ \A i \in 1 .. Len(l) : IsRow(l, i) => l[i].id # id[v]
          /\ \A u \in Writes : at[u] = "commit" /\ id[u] = id[v] => u = v
      BY <3>1 DEF IInv, PendingInv
    <3>3. id[v] # id[w]
      BY <1>1, <3>1, <3>2
    <3>4. Reserved(t, id[v])
      BY <2>2, <3>2 DEF Reserved, IsMark
    <3>5. \A i \in 1 .. Len(t) : IsRow(t, i) => t[i].id # id[v]
      BY <2>3, <3>2, <3>3
    <3>6. \A u \in Writes : at'[u] = "commit" /\ id[u] = id[v] => u = v
      BY <1>8, <3>2
    <3> QED BY <3>2, <3>4, <3>5, <3>6
  <2>6. leader # NoNode
    BY <1>1, FailoverAssumption
  <2> QED BY <1>6, <2>1, <2>4, <2>5, <2>6 DEF PendingInv
<1> QED BY <1>5, <1>7, <1>9, <1>10 DEF IInv

\* A request that ends changes no log and gives no id.
LEMMA EndStep ==
  ASSUME IInv, NEW w \in Writes, Answer(w) \/ DbError(w)
  PROVE  IInv' /\ Kept
<1>1. /\ wal' = wal /\ up' = up /\ leader' = leader /\ next' = next /\ id' = id
      /\ at' = [at EXCEPT ![w] = "done"]
      /\ \E status \in {200, 500} : answer' = [answer EXCEPT ![w] = status]
  BY DEF Answer, DbError, Done, cluster
<1>2. faults' \in 0 .. MaxFaults
  BY FailoverAssumption DEF Answer, DbError, Fault, IInv, TypeOK
<1>3. TypeOK'
  <2>1. at' \in [Writes -> {"idle", "commit", "broken", "answer", "done"}]
    BY <1>1 DEF IInv, TypeOK
  <2>2. answer' \in [Writes -> {0, 200, 500}]
    BY <1>1 DEF IInv, TypeOK
  <2> QED BY <1>1, <1>2, <2>1, <2>2 DEF IInv, TypeOK
<1>4. LogsInv' /\ NoneNew /\ Kept
  BY <1>1 DEF IInv, LogsInv, NoneNew, Kept
<1>5. \A v \in Writes : at'[v] = "done" \/ at'[v] = at[v]
  BY <1>1 DEF IInv, TypeOK
<1>6. FreshInv'
  <2>1. NoneBack
    BY <1>5 DEF NoneBack
  <2> QED BY <1>4, <2>1, FreshStays DEF IInv
<1>7. PendingInv'
  BY <1>1, <1>5, PendingStays DEF IInv
<1> QED BY <1>3, <1>4, <1>6, <1>7 DEF IInv

\* A replica takes one more record of the leader's log.
LEMMA ReplicateStep ==
  ASSUME IInv, NEW n \in Nodes, Replicate(n)
  PROVE  IInv' /\ Kept
<1>1. /\ TypeOK /\ leader \in Nodes /\ n # leader /\ wal \in [Nodes -> Seq(Record)]
      /\ wal[n] \in Seq(Record) /\ wal[leader] \in Seq(Record)
  <2>1. TypeOK /\ leader # NoNode /\ n # leader
    BY DEF IInv, Replicate
  <2> QED BY <2>1, LogTypes
<1> DEFINE k == Len(wal[n]) + 1
           r == wal[leader][k]
<1>2. /\ wal' = [wal EXCEPT ![n] = Append(wal[n], r)]
      /\ up' = up /\ leader' = leader /\ next' = next /\ at' = at /\ id' = id
      /\ answer' = answer /\ faults' = faults
  BY DEF Replicate, requests
<1>3. k \in 1 .. Len(wal[leader]) /\ \A i \in 1 .. Len(wal[n]) : wal[n][i] = wal[leader][i]
  <2>1. /\ Len(wal[n]) <= Len(wal[leader]) /\ wal[n] # wal[leader]
        /\ SubSeq(wal[n], 1, Len(wal[n])) = SubSeq(wal[leader], 1, Len(wal[n]))
    BY DEF Replicate, IsStrictPrefix, IsPrefix
  <2>2. Len(wal[n]) \in Nat /\ Len(wal[leader]) \in Nat
    BY <1>1, LenProperties
  <2>3. SubSeq(wal[n], 1, Len(wal[n])) = wal[n]
    BY <1>1
  <2>4. \A i \in 1 .. Len(wal[n]) : wal[leader][i] \in Record
    BY <1>1, <2>1, <2>2
  <2>5. \A i \in 1 .. Len(wal[n]) : SubSeq(wal[leader], 1, Len(wal[n]))[i] = wal[leader][i]
    BY <2>2, <2>4, SubSeqProperties
  <2>6. \A i \in 1 .. Len(wal[n]) : wal[n][i] = wal[leader][i]
    BY <2>1, <2>3, <2>5
  <2>7. Len(wal[n]) # Len(wal[leader])
    BY <1>1, <2>1, <2>6, SeqEqual
  <2> QED BY <2>1, <2>2, <2>6, <2>7
<1>4. r \in Record
  BY <1>1, <1>3
<1> HIDE DEF r
<1> DEFINE t == Append(wal[n], r)
<1>5. /\ t \in Seq(Record) /\ Len(t) = k /\ t[k] = r
      /\ \A i \in 1 .. k : i = k \/ (i \in 1 .. Len(wal[n]) /\ t[i] = wal[n][i])
  BY <1>1, <1>4, AppendParts
<1> HIDE DEF t
<1>6. Begins(t, wal[leader])
  <2>1. Len(wal[leader]) \in Nat /\ k <= Len(wal[leader])
    BY <1>1, <1>3, LenProperties
  <2>2. ASSUME NEW i \in 1 .. Len(t) PROVE t[i] = wal[leader][i]
    BY <1>3, <1>5 DEF r
  <2> QED BY <1>5, <2>1, <2>2 DEF Begins
<1>7. wal' = [wal EXCEPT ![n] = t]
  BY <1>2 DEF t
<1>8. TypeOK'
  <2>1. wal' \in [Nodes -> Seq(Record)]
    BY <1>1, <1>5, <1>7
  <2> QED BY <1>1, <1>2, <2>1 DEF TypeOK
<1>9. LogsInv' /\ NoneNew
  <2>1. \A m \in Nodes : \E l \in Nodes : Begins(wal'[m], wal[l])
    BY <1>1, <1>6, <1>7, LogTypes
  <2> QED BY <1>8, <2>1, BeginningStep
<1>10. Kept
  BY <1>1, <1>4, <1>7, LacksGrows DEF Kept, t
<1>11. FreshInv'
  <2>1. NoneBack
    BY <1>2 DEF NoneBack
  <2> QED BY <1>9, <2>1, FreshStays DEF IInv
<1>12. PendingInv'
  <2>1. wal'[leader] = wal[leader]
    BY <1>1, <1>7
  <2> QED BY <1>2, <2>1, PendingStays DEF IInv
<1> QED BY <1>8, <1>9, <1>10, <1>11, <1>12 DEF IInv

\* A crash leaves the logs; that of the leader ends every wait for a commit.
LEMMA CrashStep ==
  ASSUME IInv, NEW n \in Nodes, Crash(n)
  PROVE  IInv' /\ Kept
<1>1. /\ TypeOK /\ wal' = wal /\ id' = id /\ answer' = answer /\ up' = up \ {n}
      /\ faults' \in 0 .. MaxFaults
  BY FailoverAssumption DEF Crash, Fault, IInv, TypeOK
<1>2. LogsInv' /\ NoneNew /\ Kept
  BY <1>1 DEF IInv, LogsInv, NoneNew, Kept
<1>3. CASE n = leader
  <2>1. /\ leader' = NoNode /\ next' = 0
        /\ at' = [w \in Writes |-> IF at[w] = "commit" THEN "broken" ELSE at[w]]
    BY <1>3 DEF Crash
  <2>2. TypeOK'
    <3>1. at' \in [Writes -> {"idle", "commit", "broken", "answer", "done"}]
      BY <1>1, <2>1 DEF TypeOK
    <3> QED BY <1>1, <2>1, <3>1 DEF TypeOK
  <2>3. \A w \in Writes : at'[w] # "commit" /\ (at'[w] = at[w] \/ at[w] = "commit")
    BY <2>1
  <2>4. FreshInv'
    <3>1. NoneBack
      BY <2>3 DEF NoneBack
    <3> QED BY <1>2, <3>1, FreshStays DEF IInv
  <2>5. PendingInv'
    BY <2>1, <2>3 DEF PendingInv
  <2> QED BY <1>2, <2>2, <2>4, <2>5 DEF IInv
<1>4. CASE n # leader
  <2>1. leader' = leader /\ next' = next /\ at' = at
    BY <1>4 DEF Crash
  <2>2. TypeOK'
    BY <1>1, <1>4, <2>1 DEF TypeOK
  <2>3. FreshInv'
    <3>1. NoneBack
      BY <2>1 DEF NoneBack
    <3> QED BY <1>2, <3>1, FreshStays DEF IInv
  <2>4. PendingInv'
    BY <1>1, <2>1, PendingStays DEF IInv
  <2> QED BY <1>2, <2>2, <2>3, <2>4 DEF IInv
<1> QED BY <1>3, <1>4

\* A node that follows another keeps the beginning they share, with every row
\* that both have.
LEMMA Rewind ==
  ASSUME IInv, NEW m \in Nodes, NEW n \in Nodes
  PROVE  /\ Rewound(m, n) \in Seq(Record) /\ Begins(Rewound(m, n), wal[m])
         /\ \A w \in Writes : ~Lacks(wal[m], w) /\ ~Lacks(wal[n], w) => ~Lacks(Rewound(m, n), w)
<1>1. wal[m] \in Seq(Record) /\ wal[n] \in Seq(Record) /\ Match(wal[m], wal[n])
  BY LogTypes DEF IInv, LogsInv
<1>2. Rewound(m, n) = LongestCommonPrefix({wal[m], wal[n]})
  BY DEF Rewound
<1>3. Rewound(m, n) \in Seq(Record) /\ Begins(Rewound(m, n), wal[m])
  BY <1>1, <1>2, CommonIs
<1> QED BY <1>1, <1>2, <1>3, CommonKeeps

\* Logs that are what they were, or rewound.
LEMMA RewindStep ==
  ASSUME IInv, TypeOK', at' = at,
         \A m \in Nodes : wal'[m] = wal[m] \/ \E n \in Nodes : wal'[m] = Rewound(m, n)
  PROVE  LogsInv' /\ FreshInv' /\ Kept
<1>1. \A m \in Nodes : \E n \in Nodes : Begins(wal'[m], wal[n])
  BY Rewind, LogTypes DEF IInv
<1>2. LogsInv' /\ NoneNew
  BY <1>1, BeginningStep
<1>3. NoneBack
  BY DEF NoneBack
<1>4. FreshInv'
  BY <1>2, <1>3, FreshStays DEF IInv
<1>5. Kept
  BY Rewind DEF Kept
<1> QED BY <1>2, <1>4, <1>5

\* A promoted node goes on behind what its log reserves, above all its rows.
LEMMA PromoteStep ==
  ASSUME IInv, NEW n \in Nodes, Promote(n)
  PROVE  IInv' /\ Kept
<1>1. /\ TypeOK /\ wal \in [Nodes -> Seq(Record)] /\ wal[n] \in Seq(Record)
      /\ n \in up /\ leader = NoNode
  BY LogTypes DEF IInv, Promote
<1>2. /\ leader' = n /\ next' = Logged(wal[n]) + 1 /\ up' = up /\ at' = at /\ id' = id
      /\ answer' = answer /\ faults' = faults
      /\ wal' = [m \in Nodes |-> IF m \in up \ {n} THEN Rewound(m, n) ELSE wal[m]]
  BY DEF Promote, requests
<1>3. Logged(wal[n]) \in Nat /\ n # NoNode
  BY <1>1, LoggedIs, FailoverAssumption
<1>4. TypeOK'
  <2>1. wal' \in [Nodes -> Seq(Record)]
    <3>1. \A m \in Nodes : Rewound(m, n) \in Seq(Record)
      BY Rewind
    <3> QED BY <1>1, <1>2, <3>1
  <2>2. next' \in Nat /\ next' # 0
    BY <1>2, <1>3
  <2> QED BY <1>1, <1>2, <1>3, <2>1, <2>2 DEF TypeOK
<1>5. LogsInv' /\ FreshInv' /\ Kept
  <2>1. \A m \in Nodes : wal'[m] = wal[m] \/ \E l \in Nodes : wal'[m] = Rewound(m, l)
    BY <1>2
  <2> QED BY <1>2, <1>4, <2>1, RewindStep
<1>6. PendingInv'
  <2>1. wal'[n] = wal[n]
    BY <1>2
  <2>2. ASSUME NEW i \in 1 .. Len(wal[n]), IsRow(wal[n], i)
        PROVE  wal[n][i].id < Logged(wal[n]) + 1
    <3>1. LogOK(wal[n])
      BY DEF IInv, LogsInv
    <3>2. PICK j \in 1 .. Len(wal[n]) : IsMark(wal[n], j) /\ wal[n][i].id <= wal[n][j].id
      BY <2>2, <3>1 DEF LogOK
    <3>3. PICK l \in 1 .. Len(wal[n]) :
            IsMark(wal[n], l) /\ Logged(wal[n]) = wal[n][l].id /\ j <= l
      BY <1>1, <3>2, LoggedIs
    <3>4. wal[n][j].id <= wal[n][l].id
      <4>1. wal[n][j].id \in Nat
        BY <1>1, Ids
      <4>2. CASE j = l
        BY <4>1, <4>2
      <4>3. CASE j < l
        BY <3>1, <3>2, <3>3, <4>3 DEF LogOK
      <4> QED BY <1>1, <3>3, <4>2, <4>3, LenProperties
    <3>5. wal[n][i].id \in Nat /\ wal[n][j].id \in Nat /\ wal[n][l].id \in Nat
      BY <1>1, Ids
    <3> QED BY <3>2, <3>3, <3>4, <3>5
  <2>3. \A w \in Writes : at'[w] # "commit"
    BY <1>1, <1>2 DEF IInv, PendingInv
  <2> QED BY <1>2, <2>1, <2>2, <2>3 DEF PendingInv
<1> QED BY <1>4, <1>5, <1>6 DEF IInv

\* A node that returns gives up what the leader does not have.
LEMMA RestartStep ==
  ASSUME IInv, NEW n \in Nodes, Restart(n)
  PROVE  IInv' /\ Kept
<1>1. TypeOK /\ wal \in [Nodes -> Seq(Record)] /\ n \notin up
  BY LogTypes DEF IInv, Restart
<1>2. /\ leader' = leader /\ next' = next /\ up' = up \cup {n} /\ at' = at /\ id' = id
      /\ answer' = answer /\ faults' = faults
  BY DEF Restart, requests
<1> DEFINE t == IF leader = NoNode THEN wal[n] ELSE Rewound(n, leader)
<1>3. wal' = [wal EXCEPT ![n] = t]
  BY DEF Restart
<1>4. t \in Seq(Record)
  BY <1>1, Rewind, LogTypes
<1>5. TypeOK'
  <2>1. wal' \in [Nodes -> Seq(Record)]
    BY <1>1, <1>3, <1>4
  <2> QED BY <1>1, <1>2, <2>1 DEF TypeOK
<1>6. LogsInv' /\ FreshInv' /\ Kept
  <2>1. \A m \in Nodes : wal'[m] = wal[m] \/ \E l \in Nodes : wal'[m] = Rewound(m, l)
    BY <1>1, <1>3, LogTypes
  <2> QED BY <1>2, <1>5, <2>1, RewindStep
<1>7. PendingInv'
  <2>1. leader # NoNode => wal'[leader] = wal[leader]
    BY <1>1, <1>3, LogTypes DEF TypeOK
  <2> QED BY <1>2, <2>1, PendingStays DEF IInv
<1> QED BY <1>5, <1>6, <1>7 DEF IInv

LEMMA StepIInv == IInv /\ [Next]_vars => IInv' /\ Kept
<1> SUFFICES ASSUME IInv, [Next]_vars PROVE IInv' /\ Kept
  OBVIOUS
<1>1. ASSUME NEW w \in Writes, Write(w) PROVE IInv' /\ Kept
  BY <1>1, InsertStep, CommitStep, EndStep DEF Write
<1>2. ASSUME NEW n \in Nodes, Replicate(n) \/ Crash(n) \/ Promote(n) \/ Restart(n)
      PROVE  IInv' /\ Kept
  BY <1>2, ReplicateStep, CrashStep, PromoteStep, RestartStep
<1>3. CASE UNCHANGED vars
  <2>1. /\ wal' = wal /\ up' = up /\ leader' = leader /\ next' = next /\ at' = at /\ id' = id
        /\ answer' = answer /\ faults' = faults
    BY <1>3 DEF vars, cluster, requests
  <2>2. TypeOK' /\ LogsInv'
    BY <2>1 DEF IInv, TypeOK, LogsInv
  <2>3. FreshInv' /\ PendingInv'
    BY <2>1 DEF IInv, FreshInv, PendingInv
  <2>4. Kept
    BY <2>1 DEF Kept
  <2> QED BY <2>2, <2>3, <2>4 DEF IInv
<1> QED BY <1>1, <1>2, <1>3 DEF Next

-----------------------------------------------------------------------------
\* IInv holds of every behaviour of requests, replication, crashes, promotions
\* and returning nodes.
THEOREM Invariance == Spec => []IInv
<1>1. IInv /\ [Next]_vars => IInv'
  BY StepIInv
<1> QED BY <1>1, InitIInv, PTL DEF Spec

\* No insert meets the primary key of a row its leader has, in any log and
\* through any number of failovers (the SERIAL column of server.py).
THEOREM KeysNeverMeet == Spec => []UniqueIds
<1>1. ASSUME IInv PROVE UniqueIds
  <2>1. ASSUME NEW n \in Nodes, NEW i \in DOMAIN wal[n], NEW j \in DOMAIN wal[n],
               wal[n][i].write # NoWrite, wal[n][j].write # NoWrite, wal[n][i].id = wal[n][j].id
        PROVE  i = j
    <3>1. LogOK(wal[n]) /\ DOMAIN wal[n] = 1 .. Len(wal[n])
      BY <1>1, LogTypes DEF IInv, LogsInv
    <3> QED BY <2>1, <3>1 DEF LogOK, IsRow
  <2>2. TypeOK
    BY <1>1 DEF IInv
  <2> QED BY <2>1, <2>2 DEF UniqueIds
<1> QED BY <1>1, Invariance, PTL

\* A row that has reached every node is never lost again, whichever of them
\* crash, return and are promoted.
THEOREM NothingReplicatedIsLost == Spec => EverywhereForever
<1>1. ASSUME NEW log \in Seq(Record), NEW w \in Writes
      PROVE  w \in Rows(log) <=> ~Lacks(log, w)
  BY FailoverAssumption, LenProperties DEF Rows, Lacks
<1>2. IInv /\ IInv' /\ [Next]_vars =>
        [\A w \in Writes : (\A n \in Nodes : w \in Rows(wal[n])) =>
                              (\A n \in Nodes : w \in Rows(wal'[n]))]_vars
  <2> SUFFICES ASSUME IInv, IInv', [Next]_vars, NEW w \in Writes,
                      \A n \in Nodes : w \in Rows(wal[n]), NEW n \in Nodes
               PROVE  w \in Rows(wal'[n])
    OBVIOUS
  <2>1. \A m \in Nodes : wal[m] \in Seq(Record) /\ wal'[m] \in Seq(Record)
    BY DEF IInv, TypeOK
  <2>2. Kept
    BY StepIInv
  <2> QED BY <1>1, <2>1, <2>2 DEF Kept
<1> QED BY <1>2, Invariance, PTL DEF Spec, EverywhereForever
=============================================================================
