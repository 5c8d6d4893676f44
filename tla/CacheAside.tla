----------------------------- MODULE CacheAside -----------------------------
(***************************************************************************)
(* The cache-aside server of labs/r6-caching, run unchanged as             *)
(* labs/r13-incident-investigation/07-cache-failure: handler threads read  *)
(* one item from Valkey and, when it is not there, from PostgreSQL, and    *)
(* put it back with a TTL.                                                 *)
(*                                                                         *)
(* Items do not meet, so there is one, cached or not.  A request whose     *)
(* cache read fails asks the database and caches nothing ("degraded").     *)
(* One except clause guards the cache read and the sending of a hit: a     *)
(* client that has gone by then sends the request to the database, and its *)
(* answers go nowhere.                                                     *)
(***************************************************************************)
EXTENDS Handlers, Naturals, FiniteSets

CONSTANTS
  MaxFaults         \* bound on failing calls and vanishing clients

ASSUME CacheAsideAssumption == IsFiniteSet(Threads) /\ MaxFaults \in Nat

VARIABLES
  cached,           \* the key is in the cache
  gone,             \* gone[t]: its client has closed the connection
  answer,           \* answer[t]: status its last client got, 0: none
  dbFailed,         \* dbFailed[t]: the query of its request has failed
  cost,             \* queries since the key last left the cache
  faults            \* faults so far

request == <<gone, answer, dbFailed>>
vars == <<cached, at, request, cost, faults>>

Init ==
  /\ cached = FALSE /\ cost = 0 /\ faults = 0
  /\ at = [t \in Threads |-> "idle"] /\ gone = [t \in Threads |-> FALSE]
  /\ answer = [t \in Threads |-> 0] /\ dbFailed = [t \in Threads |-> FALSE]

Fault == faults < MaxFaults /\ faults' = faults + 1

\* The count saturates above all that StampedeBounded allows.
Costlier == IF cost > Cardinality(Threads) + MaxFaults THEN cost ELSE cost + 1

Begin(t) ==
  /\ Go(t, "idle", "get")
  /\ gone' = [gone EXCEPT ![t] = FALSE]
  /\ answer' = [answer EXCEPT ![t] = 0]
  /\ dbFailed' = [dbFailed EXCEPT ![t] = FALSE]
  /\ UNCHANGED <<cached, cost, faults>>

\* The TTL, or an eviction.
Expire ==
  /\ cached
  /\ cached' = FALSE /\ cost' = 0
  /\ UNCHANGED <<at, request, faults>>

ClientLeaves(t) ==
  /\ Fault
  /\ at[t] # "idle"
  /\ gone' = [gone EXCEPT ![t] = TRUE]
  /\ UNCHANGED <<cached, at, answer, dbFailed, cost>>

-----------------------------------------------------------------------------
\* do_GET

\* Mutant of Get: a miss is not told from a hit.
GetUnchecked(t) ==
  /\ Go(t, "get", "hit")
  /\ UNCHANGED <<cached, request, cost, faults>>

Get(t) ==
  /\ Go(t, "get", IF cached THEN "hit" ELSE "miss")
  /\ UNCHANGED <<cached, request, cost, faults>>

GetFails(t) ==
  /\ Fault
  /\ Go(t, "get", "degraded")
  /\ UNCHANGED <<cached, request, cost>>

\* The answer raises when the client is gone: after a hit that is taken for a
\* failure of the cache, elsewhere it ends the request.
Send(t, status, otherwise) ==
  /\ at' = [at EXCEPT ![t] = IF gone[t] THEN otherwise ELSE "idle"]
  /\ answer' = [answer EXCEPT ![t] = IF gone[t] THEN 0 ELSE status]

SendHit(t) ==
  /\ at[t] = "hit"
  /\ Send(t, 200, "degraded")
  /\ UNCHANGED <<cached, gone, dbFailed, cost, faults>>

Query(t) ==
  /\ Go(t, "miss", "set") \/ Go(t, "degraded", "send")
  /\ cost' = Costlier
  /\ UNCHANGED <<cached, request, faults>>

\* Both paths answer 500.
QueryFails(t) ==
  /\ Fault
  /\ at[t] \in {"miss", "degraded"}
  /\ cost' = Costlier
  /\ dbFailed' = [dbFailed EXCEPT ![t] = TRUE]
  /\ Send(t, 500, "idle")
  /\ UNCHANGED <<cached, gone>>

\* Mutant of Set: setex is given no value to keep.
SetNothing(t) ==
  /\ Go(t, "set", "send")
  /\ UNCHANGED <<cached, request, cost, faults>>

Set(t) ==
  /\ Go(t, "set", "send")
  /\ cached' = TRUE
  /\ UNCHANGED <<request, cost, faults>>

\* Mutant of SetFails: the write's exception is not swallowed.
SetRaises(t) ==
  /\ Fault
  /\ at[t] = "set"
  /\ Send(t, 500, "idle")
  /\ UNCHANGED <<cached, gone, dbFailed, cost>>

\* Whether the cache has taken it or not, the request goes on.
SetFails(t) ==
  /\ Fault
  /\ Go(t, "set", "send")
  /\ cached' \in {cached, TRUE}
  /\ UNCHANGED <<request, cost>>

SendRead(t) ==
  /\ at[t] = "send"
  /\ Send(t, 200, "idle")
  /\ UNCHANGED <<cached, gone, dbFailed, cost, faults>>

Handle(t) == Get(t) \/ SendHit(t) \/ Query(t) \/ Set(t) \/ SendRead(t)

Next ==
  \/ Expire
  \/ \E t \in Threads :
       \/ Begin(t) \/ ClientLeaves(t) \/ Handle(t)
       \/ GetFails(t) \/ QueryFails(t) \/ SetFails(t)

Spec == Init /\ [][Next]_vars

\* Handlers run.  No client has to ask, and no key has to expire.
LiveSpec == Spec /\ \A t \in Threads : WF_vars(Handle(t))

-----------------------------------------------------------------------------

\* Variables keep their types, and a request whose query failed is over.
TypeOK ==
  /\ cached \in BOOLEAN
  /\ at \in [Threads -> {"idle", "get", "hit", "miss", "degraded", "set", "send"}]
  /\ gone \in [Threads -> BOOLEAN] /\ dbFailed \in [Threads -> BOOLEAN]
  /\ answer \in [Threads -> {0, 200, 500}]
  /\ cost \in 0 .. Cardinality(Threads) + MaxFaults + 1 /\ faults \in 0 .. MaxFaults
  /\ \A t \in Threads : dbFailed[t] => at[t] = "idle"

\* The cache fails open: a client is told 500 only if the database failed its
\* own query, whatever the cache did before or after (server.py:82-93, 102-105).
FailOpen == \A t \in Threads : answer[t] = 500 => dbFailed[t]

\* Nothing holds the requests back that miss together, yet a key that expires
\* costs the database one query per thread at most, and one more per fault:
\* a failed call, or a client that left when its hit was sent.
StampedeBounded == TypeOK /\ cost <= Cardinality(Threads) + faults

\* While clients keep asking, the key is in the cache again and again.
Refilled == []<>(\E t \in Threads : at[t] = "get") => []<>cached
=============================================================================
