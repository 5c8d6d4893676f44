------------------------------ MODULE Failover ------------------------------
(***************************************************************************)
(* The server of labs/r14-ha-dr writing rows to a Patroni cluster: an      *)
(* insert takes its id from the table's SERIAL sequence, the commit        *)
(* returns when the leader has it, and replicas copy the leader's          *)
(* write-ahead log later.                                                  *)
(*                                                                         *)
(* PostgreSQL logs a sequence `Ahead` values in advance (SEQ_LOG_VALS, 32) *)
(* and goes on behind what is logged after a promotion, so a failover      *)
(* skips ids that nobody was given.  Patroni promotes a node that is up    *)
(* and whose log is longest; every other node gives up what the leader's   *)
(* log does not have (pg_rewind).  A record counts as on disk when it is   *)
(* written, and the table exists already.                                  *)
(***************************************************************************)
EXTENDS Naturals, Sequences, SequencesExt

CONSTANTS
  Nodes,            \* database nodes
  NoNode,           \* no leader
  Writes,           \* requests to /write
  NoWrite,          \* marks a log record of the sequence
  Ahead,            \* ids logged in advance
  MaxFaults         \* bound on crashes and lost replies

ASSUME FailoverAssumption ==
  NoNode \notin Nodes /\ NoWrite \notin Writes /\ Ahead \in Nat /\ MaxFaults \in Nat

VARIABLES
  wal,              \* wal[n]: committed rows and sequence records, in order
  up,               \* nodes that run
  leader,           \* the node behind port 5000, or NoNode
  next,             \* the leader's next id, in its memory
  at,               \* at[w]: where the request is
  id,               \* id[w]: the id its INSERT returned, 0: none
  answer,           \* answer[w]: status its client got, 0: none
  faults            \* faults so far

cluster == <<wal, up, leader, next>>
requests == <<at, id, answer>>
vars == <<cluster, requests, faults>>

Record == [write : Writes \cup {NoWrite}, id : Nat]

Rows(log) == {log[i].write : i \in DOMAIN log} \ {NoWrite}

\* Ids up to here are not given again by a node that starts from this log.
Logged(log) ==
  LET i == SelectLastInSeq(log, LAMBDA r : r.write = NoWrite)
  IN  IF i = 0 THEN 0 ELSE log[i].id

Init ==
  /\ wal = [n \in Nodes |-> <<>>] /\ up = Nodes /\ leader \in Nodes /\ next = 1
  /\ at = [w \in Writes |-> "idle"] /\ id = [w \in Writes |-> 0]
  /\ answer = [w \in Writes |-> 0] /\ faults = 0

Fault == faults < MaxFaults /\ faults' = faults + 1

-----------------------------------------------------------------------------
\* /write

\* Mutant of SequenceRecord: an unlogged sequence.
SequenceUnlogged == <<>>

SequenceRecord ==
  IF next <= Logged(wal[leader]) THEN <<>> ELSE <<[write |-> NoWrite, id |-> next + Ahead]>>

Insert(w) ==
  /\ at[w] = "idle" /\ leader # NoNode
  /\ at' = [at EXCEPT ![w] = "commit"]
  /\ id' = [id EXCEPT ![w] = next]
  /\ next' = next + 1
  /\ wal' = [wal EXCEPT ![leader] = @ \o SequenceRecord]
  /\ UNCHANGED <<up, leader, answer, faults>>

Commit(w) ==
  /\ at[w] = "commit"
  /\ at' = [at EXCEPT ![w] = "answer"]
  /\ wal' = [wal EXCEPT ![leader] = Append(@, [write |-> w, id |-> id[w]])]
  /\ UNCHANGED <<up, leader, next, id, answer, faults>>

Done(w, status) ==
  /\ at' = [at EXCEPT ![w] = "done"]
  /\ answer' = [answer EXCEPT ![w] = status]

Answer(w) ==
  /\ at[w] = "answer"
  /\ Done(w, 200)
  /\ UNCHANGED <<cluster, id, faults>>

\* No leader, or the connection is lost before or in the commit.
DbError(w) ==
  /\ \/ at[w] = "idle" /\ leader = NoNode /\ UNCHANGED faults
     \/ at[w] = "broken" /\ UNCHANGED faults
     \/ at[w] = "answer" /\ Fault
  /\ Done(w, 500)
  /\ UNCHANGED <<cluster, id>>

-----------------------------------------------------------------------------
\* The cluster.

Replicate(n) ==
  /\ n \in up \ {leader} /\ leader # NoNode
  /\ IsStrictPrefix(wal[n], wal[leader])
  /\ wal' = [wal EXCEPT ![n] = Append(@, wal[leader][Len(@) + 1])]
  /\ UNCHANGED <<up, leader, next, requests, faults>>

\* The leader takes its sessions with it, and the ids in its memory.
Crash(n) ==
  /\ Fault
  /\ n \in up
  /\ up' = up \ {n}
  /\ IF n = leader
       THEN /\ leader' = NoNode
            /\ next' = 0
            /\ at' = [w \in Writes |-> IF at[w] = "commit" THEN "broken" ELSE at[w]]
       ELSE UNCHANGED <<leader, next, at>>
  /\ UNCHANGED <<wal, id, answer>>

\* Mutant of Rewound: a node follows the leader with the log it has.
RewoundNot(n, l) == wal[n]

\* Mutant of Rewound: one record too many is given up.
RewoundTooFar(n, l) ==
  LET common == LongestCommonPrefix({wal[n], wal[l]})
  IN  IF common = <<>> THEN common ELSE Front(common)

\* What a node keeps that follows l.
Rewound(n, l) == LongestCommonPrefix({wal[n], wal[l]})

Promote(n) ==
  /\ leader = NoNode
  /\ n \in up /\ \A m \in up : Len(wal[m]) <= Len(wal[n])
  /\ leader' = n
  /\ next' = Logged(wal[n]) + 1
  /\ wal' = [m \in Nodes |-> IF m \in up \ {n} THEN Rewound(m, n) ELSE wal[m]]
  /\ UNCHANGED <<up, requests, faults>>

Restart(n) ==
  /\ n \notin up
  /\ up' = up \cup {n}
  /\ wal' = [wal EXCEPT ![n] = IF leader = NoNode THEN @ ELSE Rewound(n, leader)]
  /\ UNCHANGED <<leader, next, requests, faults>>

Write(w) == Insert(w) \/ Commit(w) \/ Answer(w) \/ DbError(w)

Next ==
  \/ \E w \in Writes : Write(w)
  \/ \E n \in Nodes : Replicate(n) \/ Crash(n) \/ Promote(n) \/ Restart(n)

Spec == Init /\ [][Next]_vars

\* Replicas stream and Patroni promotes; nobody has to restart a node.
LiveSpec ==
  /\ Spec
  /\ WF_vars(\E n \in Nodes : Promote(n))
  /\ \A n \in Nodes : WF_vars(Replicate(n))

-----------------------------------------------------------------------------

\* Variables keep their types; the leader is up, and only it hands out ids.
TypeOK ==
  /\ wal \in [Nodes -> Seq(Record)]
  /\ up \subseteq Nodes /\ leader \in up \cup {NoNode}
  /\ next \in Nat /\ (leader = NoNode <=> next = 0)
  /\ at \in [Writes -> {"idle", "commit", "broken", "answer", "done"}]
  /\ id \in [Writes -> Nat] /\ answer \in [Writes -> {0, 200, 500}]
  /\ faults \in 0 .. MaxFaults

\* No insert ever meets the primary key of a row its leader has, through any
\* number of failovers with rows and ids in flight.
UniqueIds ==
  /\ TypeOK
  /\ \A n \in Nodes : \A i, j \in DOMAIN wal[n] :
       /\ wal[n][i].write # NoWrite /\ wal[n][j].write # NoWrite
       /\ wal[n][i].id = wal[n][j].id
       => i = j

\* A row that has reached every node is never lost again, whichever of them
\* crash, return and are promoted.
EverywhereForever ==
  [][\A w \in Writes :
       (\A n \in Nodes : w \in Rows(wal[n])) => (\A n \in Nodes : w \in Rows(wal'[n]))]_vars

\* While any node stays up there is a leader again and again, and that node
\* catches up with it, whatever its log had become on its own.
CatchesUp ==
  \A n \in Nodes :
    <>[](n \in up) => []<>(leader # NoNode /\ wal[n] = wal[leader])

Surviving(i) == \E k \in DOMAIN wal[leader] : wal[leader][k] \in [write : Writes, id : {i}]

\* What R14/EXPERIMENT-RESULTS.md concludes from max(id) = 530 after row 562
\* was lost, "rows 531-562 are permanently gone": every id between the last
\* surviving one and the one that was lost had been some write's.
GapIsLoss ==
  leader # NoNode =>
    \A w \in Writes : answer[w] = 200 /\ w \notin Rows(wal[leader]) =>
      \A i \in 1 .. id[w] :
        (\E k \in i .. id[w] : Surviving(k)) \/ \E v \in Writes : id[v] = i
=============================================================================
