--------------------------- MODULE HandlerProofs ----------------------------
(***************************************************************************)
(* The safety properties of the two servers whose handler threads share    *)
(* one thing, the cached key of CacheAside and the circuit breaker of      *)
(* Breaker, for any number of threads, faults and any fail_max.            *)
(*                                                                         *)
(* CacheAside: the bound on a stampede is an account: what the queries     *)
(* have cost since the key left the cache, and what the threads may still  *)
(* ask, are never more than one query per thread and one per fault.        *)
(*                                                                         *)
(* Breaker: the lock makes the thread that queries the only one, so its    *)
(* outcome alone moves the breaker; the budget ties what a dead database   *)
(* may still be asked to the breaker's state and counter.                  *)
(***************************************************************************)
EXTENDS CacheAside, Breaker, FiniteSetTheorems, TLAPS

\* Threads that will or may query the database because the key is not cached: a
\* thread that has queried goes to put the key back.
Missing == {t \in Threads : IF cached THEN at[t] = "miss" ELSE at[t] # "set"}

\* Threads that will or may query it because of a fault: their cache read failed,
\* or their client has left and the sending of a hit will raise.
Owing == {t \in Threads : at[t] = "degraded" \/ (gone[t] /\ at[t] \in {"get", "hit"})}

OwedInv == Cardinality(Owing) <= faults
CostInv == cost + Cardinality(Missing) + Cardinality(Owing) <= Cardinality(Threads) + faults

CacheInv == TypeOK /\ FailOpen /\ OwedInv /\ CostInv

-----------------------------------------------------------------------------
\* What one thread adds to or takes from a set counts for one.
LEMMA Counts ==
  ASSUME NEW A, NEW B, NEW t, IsFiniteSet(A)
  PROVE  /\ Cardinality(A) \in Nat
         /\ B \subseteq A => Cardinality(B) \in Nat /\ Cardinality(B) <= Cardinality(A)
         /\ B \subseteq A \cup {t} =>
              Cardinality(B) \in Nat /\ Cardinality(B) <= Cardinality(A) + 1
         /\ t \in A /\ B \subseteq A \ {t} =>
              Cardinality(B) \in Nat /\ Cardinality(B) <= Cardinality(A) - 1
<1>1. Cardinality(A) \in Nat
  BY FS_CardinalityType
<1>2. ASSUME B \subseteq A
      PROVE  Cardinality(B) \in Nat /\ Cardinality(B) <= Cardinality(A)
  BY <1>2, FS_Subset, FS_CardinalityType
<1>3. ASSUME B \subseteq A \cup {t}
      PROVE  Cardinality(B) \in Nat /\ Cardinality(B) <= Cardinality(A) + 1
  <2>1. /\ IsFiniteSet(A \cup {t})
        /\ Cardinality(A \cup {t}) = Cardinality(A) \/ Cardinality(A \cup {t}) = Cardinality(A) + 1
    BY FS_AddElement
  <2>2. /\ Cardinality(B) \in Nat /\ Cardinality(A \cup {t}) \in Nat
        /\ Cardinality(B) <= Cardinality(A \cup {t})
    BY <1>3, <2>1, FS_Subset, FS_CardinalityType
  <2> QED BY <1>1, <2>1, <2>2
<1>4. ASSUME t \in A, B \subseteq A \ {t}
      PROVE  Cardinality(B) \in Nat /\ Cardinality(B) <= Cardinality(A) - 1
  <2>1. IsFiniteSet(A \ {t}) /\ Cardinality(A \ {t}) = Cardinality(A) - 1
    BY <1>4, FS_RemoveElement
  <2> QED BY <1>4, <2>1, FS_Subset, FS_CardinalityType
<1> QED BY <1>1, <1>2, <1>3, <1>4

LEMMA Finite ==
  /\ IsFiniteSet(Missing) /\ IsFiniteSet(Owing) /\ Cardinality(Threads) \in Nat
  /\ Cardinality(Missing) <= Cardinality(Threads)
<1>1. Missing \subseteq Threads /\ Owing \subseteq Threads
  BY DEF Missing, Owing
<1> QED BY <1>1, CacheAsideAssumption, FS_Subset, FS_CardinalityType

LEMMA CacheInit == Init => CacheInv
<1> SUFFICES ASSUME Init PROVE CacheInv
  OBVIOUS
<1>1. Cardinality(Threads) \in Nat /\ MaxFaults \in Nat
  BY Finite, CacheAsideAssumption
<1>2. /\ cached \in BOOLEAN /\ gone \in [Threads -> BOOLEAN]
      /\ dbFailed \in [Threads -> BOOLEAN]
      /\ \A t \in Threads : ~gone[t] /\ ~dbFailed[t]
  BY Zenon DEF Init
<1>3. /\ at \in [Threads -> {"idle", "get", "hit", "miss", "degraded", "set", "send"}]
      /\ answer \in [Threads -> {0, 200, 500}] /\ cost = 0 /\ faults = 0
      /\ \A t \in Threads : at[t] = "idle" /\ answer[t] = 0
  BY DEF Init
<1>4. TypeOK /\ FailOpen
  BY <1>1, <1>2, <1>3 DEF TypeOK, FailOpen
<1>5. Owing = {}
  BY <1>2, <1>3 DEF Owing
<1>6. Cardinality(Owing) = 0
  BY <1>5, FS_EmptySet
<1>7. Cardinality(Missing) \in Nat /\ Cardinality(Missing) <= Cardinality(Threads)
  BY Finite, FS_CardinalityType
<1> QED BY <1>1, <1>3, <1>4, <1>6, <1>7 DEF CacheInv, OwedInv, CostInv

-----------------------------------------------------------------------------
\* The ways in which a step of a thread moves the account.
Moves(t) == Begin(t) \/ Get(t) \/ SendHit(t) \/ Set(t) \/ SendRead(t)
Fails(t) == ClientLeaves(t) \/ GetFails(t) \/ QueryFails(t) \/ SetFails(t)
Steps(t) == Moves(t) \/ Query(t) \/ Fails(t)

LEMMA StepTypes ==
  ASSUME TypeOK, FailOpen, NEW t \in Threads, Steps(t)
  PROVE  /\ TypeOK' /\ FailOpen'
         /\ at'[t] \in {"idle", "get", "hit", "miss", "degraded", "set", "send"}
         /\ \A u \in Threads \ {t} : at'[u] = at[u] /\ (gone'[u] <=> gone[u])
<1>1. /\ at \in [Threads -> {"idle", "get", "hit", "miss", "degraded", "set", "send"}]
      /\ answer \in [Threads -> {0, 200, 500}] /\ cost \in Nat /\ faults \in Nat
      /\ cost \in 0 .. Cardinality(Threads) + MaxFaults + 1 /\ faults \in 0 .. MaxFaults
      /\ Cardinality(Threads) \in Nat /\ MaxFaults \in Nat
  BY Finite, CacheAsideAssumption DEF TypeOK
<1>2. /\ cached \in BOOLEAN /\ gone \in [Threads -> BOOLEAN]
      /\ dbFailed \in [Threads -> BOOLEAN]
  BY DEF TypeOK
<1>3. /\ at' \in [Threads -> {"idle", "get", "hit", "miss", "degraded", "set", "send"}]
      /\ \A u \in Threads \ {t} : at'[u] = at[u]
  <2>1. CASE ClientLeaves(t)
    BY <1>1, <2>1 DEF ClientLeaves
  <2>2. CASE SendHit(t) \/ SendRead(t) \/ QueryFails(t)
    <3>1. \E there \in {"idle", "degraded"} : at' = [at EXCEPT ![t] = there]
      BY <2>2 DEF SendHit, SendRead, QueryFails, Send
    <3> QED BY <1>1, <3>1
  <2>3. CASE Begin(t) \/ Get(t) \/ GetFails(t) \/ Query(t) \/ Set(t) \/ SetFails(t)
    <3>1. \E there \in {"get", "hit", "miss", "degraded", "set", "send"} :
            at' = [at EXCEPT ![t] = there]
      BY <2>3 DEF Begin, Get, GetFails, Query, Set, SetFails, Go
    <3> QED BY <1>1, <3>1
  <2> QED BY <2>1, <2>2, <2>3 DEF Steps, Moves, Fails
<1>4. /\ answer' \in [Threads -> {0, 200, 500}]
      /\ \A u \in Threads \ {t} : answer'[u] = answer[u]
  <2>1. CASE Get(t) \/ GetFails(t) \/ Query(t) \/ Set(t) \/ SetFails(t) \/ ClientLeaves(t)
    <3>1. answer' = answer
      BY <2>1 DEF Get, GetFails, Query, Set, SetFails, ClientLeaves, request
    <3> QED BY <1>1, <3>1
  <2>2. CASE Begin(t) \/ SendHit(t) \/ SendRead(t) \/ QueryFails(t)
    <3>1. \E status \in {0, 200, 500} : answer' = [answer EXCEPT ![t] = status]
      BY <2>2 DEF Begin, SendHit, SendRead, QueryFails, Send
    <3> QED BY <1>1, <3>1
  <2> QED BY <2>1, <2>2 DEF Steps, Moves, Fails
<1>5. /\ cached' \in BOOLEAN /\ gone' \in [Threads -> BOOLEAN]
      /\ \A u \in Threads \ {t} : gone'[u] <=> gone[u]
  BY <1>2, Zenon
  DEF Steps, Moves, Fails, Begin, Get, SendHit, Set, SendRead, Query, ClientLeaves, GetFails,
      QueryFails, SetFails, request
<1>6. /\ dbFailed' \in [Threads -> BOOLEAN]
      /\ \A u \in Threads \ {t} : dbFailed'[u] <=> dbFailed[u]
  BY <1>2, Zenon
  DEF Steps, Moves, Fails, Begin, Get, SendHit, Set, SendRead, Query, ClientLeaves, GetFails,
      QueryFails, SetFails, request
<1>7. cost' \in 0 .. Cardinality(Threads) + MaxFaults + 1 /\ faults' \in 0 .. MaxFaults
  <2>1. /\ faults' = faults \/ (faults < MaxFaults /\ faults' = faults + 1)
        /\ cost' = cost \/ cost' = Costlier
    BY DEF Steps, Moves, Fails, Begin, Get, SendHit, Set, SendRead, Query, ClientLeaves,
           GetFails, QueryFails, SetFails, Fault
  <2> QED BY <1>1, <2>1 DEF Costlier
<1>8. (dbFailed'[t] => at'[t] = "idle") /\ (answer'[t] = 500 => dbFailed'[t])
  <2>1. (dbFailed[t] => at[t] = "idle") /\ (answer[t] = 500 => dbFailed[t])
    BY DEF TypeOK, FailOpen
  <2>2. CASE Begin(t)
    <3>1. ~dbFailed'[t]
      BY <1>2, <2>2, Zenon DEF Begin
    <3>2. answer'[t] = 0
      BY <1>1, <2>2 DEF Begin
    <3> QED BY <3>1, <3>2
  <2>3. CASE SendHit(t) \/ SendRead(t)
    <3>1. dbFailed' = dbFailed /\ at[t] # "idle" /\ answer'[t] # 500
      BY <1>1, <2>3 DEF SendHit, SendRead, Send
    <3> QED BY <2>1, <3>1
  <2>4. CASE Get(t) \/ GetFails(t) \/ Query(t) \/ Set(t) \/ SetFails(t) \/ ClientLeaves(t)
    <3>1. dbFailed' = dbFailed /\ answer' = answer /\ at[t] # "idle"
      BY <1>1, <2>4 DEF Get, GetFails, Query, Set, SetFails, ClientLeaves, Go, request
    <3> QED BY <2>1, <3>1
  <2>5. CASE QueryFails(t)
    <3>1. dbFailed'[t]
      BY <1>2, <2>5, Zenon DEF QueryFails
    <3>2. at'[t] = "idle"
      BY <1>1, <2>5 DEF QueryFails, Send
    <3> QED BY <3>1, <3>2
  <2> QED BY <2>2, <2>3, <2>4, <2>5 DEF Steps, Moves, Fails
<1>9. TypeOK'
  <2>1. \A u \in Threads : dbFailed'[u] => at'[u] = "idle"
    BY <1>3, <1>6, <1>8 DEF TypeOK
  <2> QED BY <1>3, <1>4, <1>5, <1>6, <1>7, <2>1 DEF TypeOK
<1>10. FailOpen'
  BY <1>4, <1>6, <1>8 DEF FailOpen
<1> QED BY <1>3, <1>5, <1>9, <1>10

\* The account after a step of t: a query is paid by the thread that was to ask,
\* or by a fault, and nothing else is asked for without a fault.
Accounted(t) ==
  \/ /\ Missing' \subseteq Missing /\ Owing' \subseteq Owing
     /\ cost' = cost /\ faults' = faults
  \/ /\ Missing' \subseteq Missing /\ Owing' \subseteq Owing \cup {t}
     /\ cost' = cost /\ faults' = faults + 1
  \/ /\ t \in Missing /\ Missing' \subseteq Missing \ {t} /\ Owing' \subseteq Owing
     /\ cost' \in {cost, cost + 1} /\ faults' = faults
  \/ /\ t \in Owing /\ Missing' \subseteq Missing /\ Owing' \subseteq Owing \ {t}
     /\ cost' \in {cost, cost + 1} /\ faults' = faults
  \/ /\ Missing' \subseteq Missing /\ Owing' \subseteq Owing
     /\ cost' \in {cost, cost + 1} /\ faults' = faults + 1
  \/ /\ Missing' \subseteq Missing \cup {t} /\ Owing' \subseteq Owing
     /\ cost' = cost /\ faults' = faults + 1

LEMMA StepAccount ==
  ASSUME TypeOK, FailOpen, NEW t \in Threads, Steps(t)
  PROVE  Accounted(t)
<1>1. \A u \in Threads \ {t} : at'[u] = at[u] /\ (gone'[u] <=> gone[u])
  BY StepTypes
<1>2. at \in [Threads -> {"idle", "get", "hit", "miss", "degraded", "set", "send"}]
  BY DEF TypeOK
<1>3. gone \in [Threads -> BOOLEAN]
  BY DEF TypeOK
<1>4. (cached' <=> cached) \/ cached'
  BY DEF Steps, Moves, Fails, Begin, Get, SendHit, Set, SendRead, Query, ClientLeaves,
         GetFails, QueryFails, SetFails
<1>5. \A u \in Threads \ {t} :
        (u \in Missing' => u \in Missing) /\ (u \in Owing' => u \in Owing)
  BY <1>1, <1>4 DEF Missing, Owing
<1>6. /\ Missing' \subseteq Missing \cup {t} /\ Owing' \subseteq Owing \cup {t}
      /\ t \notin Missing' \/ t \in Missing => Missing' \subseteq Missing
      /\ t \notin Missing' => Missing' \subseteq Missing \ {t}
      /\ t \notin Owing' \/ t \in Owing => Owing' \subseteq Owing
      /\ t \notin Owing' => Owing' \subseteq Owing \ {t}
  <2>1. Missing' \subseteq Threads /\ Owing' \subseteq Threads
    BY DEF Missing, Owing
  <2> QED BY <1>5, <2>1
<1>7. /\ t \in Missing <=> IF cached THEN at[t] = "miss" ELSE at[t] # "set"
      /\ t \in Missing' <=> IF cached' THEN at'[t] = "miss" ELSE at'[t] # "set"
      /\ t \in Owing <=> at[t] = "degraded" \/ (gone[t] /\ at[t] \in {"get", "hit"})
      /\ t \in Owing' <=> at'[t] = "degraded" \/ (gone'[t] /\ at'[t] \in {"get", "hit"})
  BY DEF Missing, Owing
<1>8. CASE Begin(t)
  <2>1. at[t] = "idle" /\ at'[t] = "get" /\ cached' = cached /\ cost' = cost /\ faults' = faults
    BY <1>2, <1>8 DEF Begin, Go
  <2>2. ~gone'[t]
    BY <1>3, <1>8, Zenon DEF Begin
  <2> QED BY <1>6, <1>7, <2>1, <2>2 DEF Accounted
<1>9. CASE Get(t)
  <2>1. at[t] = "get" /\ cached' = cached /\ gone' = gone /\ cost' = cost /\ faults' = faults
    BY <1>9 DEF Get, Go, request
  <2>2. at'[t] = IF cached THEN "hit" ELSE "miss"
    BY <1>2, <1>9 DEF Get, Go
  <2> QED BY <1>6, <1>7, <2>1, <2>2 DEF Accounted
<1>10. CASE SendHit(t)
  <2>1. at[t] = "hit" /\ cached' = cached /\ gone' = gone /\ cost' = cost /\ faults' = faults
    BY <1>10 DEF SendHit
  <2>2. at'[t] = IF gone[t] THEN "degraded" ELSE "idle"
    BY <1>2, <1>10 DEF SendHit, Send
  <2> QED BY <1>6, <1>7, <2>1, <2>2 DEF Accounted
<1>11. CASE Set(t)
  <2>1. at[t] = "set" /\ at'[t] = "send" /\ cost' = cost /\ faults' = faults
    BY <1>2, <1>11 DEF Set, Go
  <2>2. cached'
    BY <1>11 DEF Set
  <2> QED BY <1>6, <1>7, <2>1, <2>2 DEF Accounted
<1>12. CASE SendRead(t)
  <2>1. /\ at[t] = "send" /\ at'[t] = "idle" /\ cached' = cached
        /\ cost' = cost /\ faults' = faults
    BY <1>2, <1>12 DEF SendRead, Send
  <2> QED BY <1>6, <1>7, <2>1 DEF Accounted
<1>13. CASE Query(t)
  <2>1. /\ \/ at[t] = "miss" /\ at'[t] = "set"
           \/ at[t] = "degraded" /\ at'[t] = "send"
        /\ cached' = cached /\ faults' = faults
    BY <1>2, <1>13 DEF Query, Go
  <2>2. cost' \in {cost, cost + 1}
    BY <1>13 DEF Query, Costlier
  <2> QED BY <1>6, <1>7, <2>1, <2>2 DEF Accounted
<1>14. CASE ClientLeaves(t)
  <2>1. at' = at /\ cached' = cached /\ cost' = cost /\ faults' = faults + 1
    BY <1>14 DEF ClientLeaves, Fault
  <2> QED BY <1>6, <1>7, <2>1 DEF Accounted
<1>15. CASE GetFails(t)
  <2>1. /\ at[t] = "get" /\ at'[t] = "degraded" /\ cached' = cached
        /\ cost' = cost /\ faults' = faults + 1
    BY <1>2, <1>15 DEF GetFails, Go, Fault
  <2> QED BY <1>6, <1>7, <2>1 DEF Accounted
<1>16. CASE QueryFails(t)
  <2>1. /\ at[t] \in {"miss", "degraded"} /\ at'[t] = "idle" /\ cached' = cached
        /\ faults' = faults + 1
    BY <1>2, <1>16 DEF QueryFails, Send, Fault
  <2>2. cost' \in {cost, cost + 1}
    BY <1>16 DEF QueryFails, Costlier
  <2> QED BY <1>6, <1>7, <2>1, <2>2 DEF Accounted
<1>17. CASE SetFails(t)
  <2>1. at[t] = "set" /\ at'[t] = "send" /\ cost' = cost /\ faults' = faults + 1
    BY <1>2, <1>17 DEF SetFails, Go, Fault
  <2> QED BY <1>6, <1>7, <2>1 DEF Accounted
<1> QED BY <1>8, <1>9, <1>10, <1>11, <1>12, <1>13, <1>14, <1>15, <1>16, <1>17
        DEF Steps, Moves, Fails

LEMMA CacheStep == CacheInv /\ [Next]_vars => CacheInv'
<1> SUFFICES ASSUME CacheInv, [Next]_vars PROVE CacheInv'
  OBVIOUS
<1>1. /\ Cardinality(Threads) \in Nat /\ cost \in Nat /\ faults \in Nat /\ MaxFaults \in Nat
      /\ IsFiniteSet(Missing) /\ IsFiniteSet(Owing)
      /\ Cardinality(Missing) \in Nat /\ Cardinality(Owing) \in Nat
  BY Finite, FS_CardinalityType, CacheAsideAssumption DEF CacheInv, TypeOK
<1>2. ASSUME NEW t \in Threads, Steps(t) PROVE CacheInv'
  <2>1. TypeOK' /\ FailOpen' /\ Accounted(t)
    BY <1>2, StepTypes, StepAccount DEF CacheInv
  <2>2. /\ Missing' \subseteq Missing =>
             Cardinality(Missing') \in Nat /\ Cardinality(Missing') <= Cardinality(Missing)
        /\ Missing' \subseteq Missing \cup {t} =>
             Cardinality(Missing') \in Nat /\ Cardinality(Missing') <= Cardinality(Missing) + 1
        /\ t \in Missing /\ Missing' \subseteq Missing \ {t} =>
             Cardinality(Missing') \in Nat /\ Cardinality(Missing') <= Cardinality(Missing) - 1
    BY <1>1, Counts
  <2>3. /\ Owing' \subseteq Owing =>
             Cardinality(Owing') \in Nat /\ Cardinality(Owing') <= Cardinality(Owing)
        /\ Owing' \subseteq Owing \cup {t} =>
             Cardinality(Owing') \in Nat /\ Cardinality(Owing') <= Cardinality(Owing) + 1
        /\ t \in Owing /\ Owing' \subseteq Owing \ {t} =>
             Cardinality(Owing') \in Nat /\ Cardinality(Owing') <= Cardinality(Owing) - 1
    BY <1>1, Counts
  <2>4. OwedInv' /\ CostInv'
    BY <1>1, <2>1, <2>2, <2>3 DEF Accounted, CacheInv, OwedInv, CostInv
  <2> QED BY <2>1, <2>4 DEF CacheInv
<1>3. CASE Expire
  <2>1. at' = at /\ gone' = gone /\ answer' = answer /\ dbFailed' = dbFailed
    BY <1>3 DEF Expire, request
  <2>2. cost' = 0 /\ faults' = faults
    BY <1>3 DEF Expire
  <2>3. cached' \in BOOLEAN
    BY <1>3 DEF Expire
  <2>4. TypeOK' /\ FailOpen'
    BY <1>1, <2>1, <2>2, <2>3 DEF CacheInv, TypeOK, FailOpen
  <2>5. Owing' = Owing
    BY <2>1 DEF Owing
  <2>6. Missing' \subseteq Threads
    BY DEF Missing
  <2>7. Cardinality(Missing') \in Nat /\ Cardinality(Missing') <= Cardinality(Threads)
    BY <2>6, FS_Subset, FS_CardinalityType, CacheAsideAssumption
  <2>8. OwedInv' /\ CostInv'
    BY <1>1, <2>2, <2>5, <2>7 DEF CacheInv, OwedInv, CostInv
  <2> QED BY <2>4, <2>8 DEF CacheInv
<1>4. CASE UNCHANGED vars
  <2>1. UNCHANGED <<cached, at, gone, answer, dbFailed, cost, faults>>
    BY <1>4 DEF vars, request
  <2>2. Missing' = Missing /\ Owing' = Owing
    BY <2>1 DEF Missing, Owing
  <2> QED BY <2>1, <2>2 DEF CacheInv, TypeOK, FailOpen, OwedInv, CostInv
<1> QED BY <1>2, <1>3, <1>4 DEF Next, Handle, Steps, Moves, Fails

THEOREM CacheInvariance == Spec => []CacheInv
<1> QED BY CacheInit, CacheStep, PTL DEF Spec

\* A client is told 500 only if the database failed its own query.
THEOREM CacheFailsOpen == Spec => []FailOpen
<1>1. CacheInv => FailOpen
  BY DEF CacheInv
<1> QED BY <1>1, CacheInvariance, PTL

\* A key that expires costs one query per thread and one per fault at most.
THEOREM StampedeIsBounded == Spec => []StampedeBounded
<1>1. ASSUME CacheInv PROVE StampedeBounded
  <2>1. /\ Cardinality(Threads) \in Nat /\ cost \in Nat /\ faults \in Nat
        /\ Cardinality(Missing) \in Nat /\ Cardinality(Owing) \in Nat
    BY <1>1, Finite, FS_CardinalityType, CacheAsideAssumption DEF CacheInv, TypeOK
  <2> QED BY <1>1, <2>1 DEF CacheInv, CostInv, StampedeBounded
<1> QED BY <1>1, CacheInvariance, PTL
-----------------------------------------------------------------------------
\* Breaker.

\* The lock: one query at a time, and none while the breaker is open.
LockInv ==
  /\ \A t, u \in Threads : at[t] = "query" /\ at[u] = "query" => t = u
  /\ \A t \in Threads : at[t] = "query" => state # "open"

\* What a dead database may still be asked is what the breaker still lets pass.
BudgetInv ==
  /\ state = "closed" => counter < FailMax /\ allowance = FailMax - counter
  /\ state = "open" => allowance = IF elapsed THEN 1 ELSE 0
  /\ state = "half-open" => allowance = 1

BreakerInv == BreakerTypeOK /\ LockInv /\ BudgetInv

\* The breaker starts closed with its whole budget and nobody querying.
LEMMA BreakerInitInv == BreakerInit => BreakerInv
<1> SUFFICES ASSUME BreakerInit PROVE BreakerInv
  OBVIOUS
<1>1. up \in BOOLEAN /\ elapsed \in BOOLEAN
  BY Zenon DEF BreakerInit
<1>2. BreakerTypeOK
  BY <1>1, FailMaxAssumption DEF BreakerInit, BreakerTypeOK
<1>3. LockInv /\ BudgetInv
  BY FailMaxAssumption DEF BreakerInit, LockInv, BudgetInv
<1> QED BY <1>2, <1>3 DEF BreakerInv

\* The environment, and threads that neither take nor hold the lock.
LEMMA QuietSteps ==
  ASSUME BreakerInv, NEW t \in Threads,
         Toggle \/ Request(t) \/ QueryRaw(t) \/ Refuse(t) \/ Answer(t)
  PROVE  BreakerInv'
<1>1. CASE Toggle
  BY <1>1 DEF Toggle, breaker, BreakerInv, BreakerTypeOK, LockInv, BudgetInv
<1>2. CASE Request(t)
  BY <1>2 DEF Request, Go, breaker, BreakerInv, BreakerTypeOK, LockInv, BudgetInv
<1>3. CASE QueryRaw(t)
  BY <1>3 DEF QueryRaw, Go, breaker, BreakerInv, BreakerTypeOK, LockInv, BudgetInv
<1>4. CASE Refuse(t)
  BY <1>4 DEF Refuse, Go, breaker, BreakerInv, BreakerTypeOK, LockInv, BudgetInv
<1>5. CASE Answer(t)
  BY <1>5 DEF Answer, Go, breaker, BreakerInv, BreakerTypeOK, LockInv, BudgetInv
<1> QED BY <1>1, <1>2, <1>3, <1>4, <1>5

\* A free lock goes to one thread, which finds one failure left to risk.
LEMMA EnterStep ==
  ASSUME BreakerInv, NEW t \in Threads, Enter(t)
  PROVE  BreakerInv'
<1>1. BreakerTypeOK' /\ LockInv'
  BY DEF Enter, Free, Go, BreakerInv, BreakerTypeOK, LockInv
<1>2. BudgetInv'
  BY DEF Enter, BreakerInv, BreakerTypeOK, BudgetInv
<1> QED BY <1>1, <1>2 DEF BreakerInv

\* A success closes the breaker and restores the budget.
LEMMA SucceedStep ==
  ASSUME BreakerInv, NEW t \in Threads, Succeed(t)
  PROVE  BreakerInv'
<1>1. up' \in BOOLEAN /\ elapsed' \in BOOLEAN
  BY Zenon DEF Succeed, BreakerInv, BreakerTypeOK
<1>2. BreakerTypeOK'
  BY <1>1, FailMaxAssumption DEF Succeed, Go, BreakerInv, BreakerTypeOK
<1>3. LockInv'
  BY DEF Succeed, Go, BreakerInv, BreakerTypeOK, LockInv
<1>4. BudgetInv'
  BY FailMaxAssumption DEF Succeed, BreakerInv, BreakerTypeOK, BudgetInv
<1> QED BY <1>2, <1>3, <1>4 DEF BreakerInv

\* A failure takes one from the budget, and opens the breaker with the last.
LEMMA FailStep ==
  ASSUME BreakerInv, NEW t \in Threads, Fail(t)
  PROVE  BreakerInv'
<1>1. at[t] = "query" /\ state \in {"closed", "half-open"}
  BY DEF Fail, Go, BreakerInv, LockInv, BreakerTypeOK
<1>2. \A u \in Threads : at'[u] # "query"
  BY <1>1 DEF Fail, Go, Reported, BreakerInv, LockInv, BreakerTypeOK
<1>3. state' # "half-open"
  BY <1>1 DEF Fail, Trips
<1>4. BreakerTypeOK'
  <2>1. up' \in BOOLEAN /\ elapsed' \in BOOLEAN
    BY Zenon DEF Fail, BreakerInv, BreakerTypeOK
  <2>2. state' \in {"closed", "open", "half-open"} /\ counter' \in 0 .. FailMax
    BY FailMaxAssumption DEF Fail, BreakerInv, BreakerTypeOK
  <2>3. at' \in [Threads -> {"idle", "raw", "wait", "query", "succeeded", "refused", "failed"}]
    BY DEF Fail, Go, Reported, BreakerInv, BreakerTypeOK
  <2>4. allowance' \in Int
    BY DEF Fail, BreakerInv, BreakerTypeOK
  <2> QED BY <1>3, <2>1, <2>2, <2>3, <2>4 DEF BreakerTypeOK
<1>5. LockInv'
  BY <1>2 DEF LockInv
<1>6. BudgetInv'
  <2>1. CASE Trips
    <3>1. allowance = 1
      BY <1>1, <2>1, FailMaxAssumption DEF Trips, BreakerInv, BreakerTypeOK, BudgetInv
    <3> QED BY <2>1, <3>1 DEF Fail, BudgetInv
  <2>2. CASE ~Trips
    <3>1. state = "closed" /\ counter + 1 < FailMax
      BY <1>1, <2>2, FailMaxAssumption DEF Trips, BreakerInv, BreakerTypeOK
    <3>2. counter' = counter + 1 /\ state' = "closed" /\ allowance' = allowance - 1
      BY <2>2, <3>1, FailMaxAssumption DEF Fail, BreakerInv, BreakerTypeOK
    <3> QED BY <3>1, <3>2, FailMaxAssumption DEF BreakerInv, BreakerTypeOK, BudgetInv
  <2> QED BY <2>1, <2>2
<1> QED BY <1>4, <1>5, <1>6 DEF BreakerInv

\* The reset timeout adds one to the budget of an open breaker.
LEMMA ElapseStep ==
  ASSUME BreakerInv, Elapse
  PROVE  BreakerInv'
BY DEF Elapse, BreakerInv, BreakerTypeOK, LockInv, BudgetInv

\* BreakerInv holds of every behaviour of the threads, the database and the clock.
THEOREM BreakerInvariance == BreakerSpec => []BreakerInv
<1>1. BreakerInv /\ [BreakerNext]_breakerVars => BreakerInv'
  <2> SUFFICES ASSUME BreakerInv, [BreakerNext]_breakerVars PROVE BreakerInv'
    OBVIOUS
  <2>1. CASE Elapse
    BY <2>1, ElapseStep
  <2>2. ASSUME NEW t \in Threads, Enter(t) PROVE BreakerInv'
    BY <2>2, EnterStep
  <2>3. ASSUME NEW t \in Threads, Succeed(t) PROVE BreakerInv'
    BY <2>3, SucceedStep
  <2>4. ASSUME NEW t \in Threads, Fail(t) PROVE BreakerInv'
    BY <2>4, FailStep
  <2>5. ASSUME NEW t \in Threads, Request(t) \/ QueryRaw(t) \/ Refuse(t) \/ Answer(t)
        PROVE  BreakerInv'
    BY <2>5, QuietSteps
  <2>6. CASE Toggle
    BY <2>6 DEF Toggle, breaker, BreakerInv, BreakerTypeOK, LockInv, BudgetInv
  <2>7. CASE UNCHANGED breakerVars
    BY <2>7 DEF breakerVars, breaker, BreakerInv, BreakerTypeOK, LockInv, BudgetInv
  <2> QED BY <2>1, <2>2, <2>3, <2>4, <2>5, <2>6, <2>7 DEF BreakerNext
<1> QED BY <1>1, BreakerInitInv, PTL DEF BreakerSpec

\* However many threads share the breaker, a dead database gets no more queries
\* through it than fail_max and one per reset timeout.
THEOREM DeadDatabaseSpared == BreakerSpec => []NeverOverAsked
<1>1. BreakerInv => NeverOverAsked
  BY FailMaxAssumption DEF BreakerInv, BreakerTypeOK, BudgetInv, NeverOverAsked
<1> QED BY <1>1, BreakerInvariance, PTL

\* The breaker refuses nobody before those queries are spent.
THEOREM LiveDatabaseServed == BreakerSpec => []RefusedOnlyWhenSpent
<1>1. BreakerInv => RefusedOnlyWhenSpent
  BY DEF BreakerInv, BudgetInv, RefusedOnlyWhenSpent
<1> QED BY <1>1, BreakerInvariance, PTL
=============================================================================
