------------------------------ MODULE Breaker -------------------------------
(***************************************************************************)
(* The server of labs/r9-circuit-breaker, run unchanged as                 *)
(* labs/r13-incident-investigation/02-5xx-spike: handler threads share one *)
(* pybreaker circuit breaker around their database query.                  *)
(*                                                                         *)
(* CircuitBreaker.call runs the query under the breaker's lock, so threads *)
(* queue up before the breaker and the state it is in when they get their  *)
(* turn decides.  After fail_max failures without a success in between it  *)
(* opens and refuses; after the reset timeout the next call is a trial     *)
(* that closes or reopens it.  Every failure counts, the answers are made  *)
(* after the lock is gone and show the breaker as it is by then, and       *)
(* /order-raw goes past the breaker.                                       *)
(***************************************************************************)
EXTENDS Handlers, Integers

CONSTANTS
  FailMax           \* BREAKER_FAIL_MAX

ASSUME FailMaxAssumption == FailMax \in Nat \ {0}

VARIABLES
  up,               \* the database can be queried
  state,            \* current_state
  counter,          \* fail_counter, up to FailMax
  elapsed,          \* reset_timeout has passed since the breaker opened
  allowance         \* failing queries a dead database may still be sent:
                    \* fail_max after a success, one per reset timeout

breaker == <<state, counter, elapsed, allowance>>
breakerVars == <<up, breaker, at>>

BreakerInit ==
  /\ up = TRUE
  /\ state = "closed" /\ counter = 0 /\ elapsed = FALSE
  /\ at = [t \in Threads |-> "idle"]
  /\ allowance = FailMax

\* The database fails and recovers whenever it likes.
Toggle == up' = ~up /\ UNCHANGED <<breaker, at>>

\* /order or /order-raw
Request(t) ==
  /\ Go(t, "idle", "wait") \/ Go(t, "idle", "raw")
  /\ UNCHANGED <<up, breaker>>

\* /order-raw: 200 or 500 as the database is.
QueryRaw(t) == Go(t, "raw", "idle") /\ UNCHANGED <<up, breaker>>

-----------------------------------------------------------------------------
\* pybreaker, as /order calls it.

\* Mutant of Free: a breaker without a lock.
FreeAlways == TRUE

Free == \A t \in Threads : at[t] # "query"

\* The lock is taken: closed, or open for long enough to try once.
Enter(t) ==
  /\ Free
  /\ Go(t, "wait", "query")
  /\ \/ state \in {"closed", "half-open"} /\ UNCHANGED state
     \/ state = "open" /\ elapsed /\ state' = "half-open"
  /\ UNCHANGED <<up, counter, elapsed, allowance>>

\* CircuitBreakerError without a query.
Refuse(t) ==
  /\ Free
  /\ state = "open" /\ ~elapsed
  /\ Go(t, "wait", "refused")
  /\ UNCHANGED <<up, breaker>>

\* Mutant of Succeed: a success does not forgive the failures before it.
SucceedUncounted(t) ==
  /\ up
  /\ Go(t, "query", "succeeded")
  /\ state' = "closed" /\ elapsed' = FALSE
  /\ counter' = IF state = "half-open" THEN 0 ELSE counter
  /\ allowance' = FailMax
  /\ UNCHANGED up

Succeed(t) ==
  /\ up
  /\ Go(t, "query", "succeeded")
  /\ state' = "closed" /\ counter' = 0 /\ elapsed' = FALSE
  /\ allowance' = FailMax
  /\ UNCHANGED up

Trips == state = "half-open" \/ counter + 1 >= FailMax

\* Mutant of Reported: the error that opens the breaker is raised as it is.
ReportedRaw == "failed"

\* The failure that opens the breaker is reported as CircuitBreakerError too.
Reported == IF Trips THEN "refused" ELSE "failed"

Fail(t) ==
  /\ ~up
  /\ Go(t, "query", Reported)
  /\ counter' = IF counter = FailMax THEN counter ELSE counter + 1
  /\ IF Trips
       THEN state' = "open" /\ elapsed' = FALSE
       ELSE UNCHANGED <<state, elapsed>>
  /\ allowance' = allowance - 1
  /\ UNCHANGED up

\* Mutant of Elapse: the timeout never ends.
ElapseNever == FALSE /\ UNCHANGED breakerVars

Elapse ==
  /\ state = "open" /\ ~elapsed
  /\ elapsed' = TRUE
  /\ allowance' = allowance + 1
  /\ UNCHANGED <<up, state, counter, at>>

-----------------------------------------------------------------------------

\* 200, 503 (circuit_open) and 500.
Answer(t) ==
  /\ at[t] \in {"succeeded", "refused", "failed"}
  /\ Go(t, at[t], "idle")
  /\ UNCHANGED <<up, breaker>>

BreakerNext ==
  \/ Toggle \/ Elapse
  \/ \E t \in Threads :
       \/ Request(t) \/ QueryRaw(t) \/ Enter(t) \/ Refuse(t)
       \/ Succeed(t) \/ Fail(t) \/ Answer(t)

BreakerSpec == BreakerInit /\ [][BreakerNext]_breakerVars

\* Time passes, a query ends, a free lock is taken by some thread, though not
\* by a given one, and threads answer.  Nobody has to send a request.
LiveBreakerSpec ==
  /\ BreakerSpec
  /\ WF_breakerVars(Elapse)
  /\ WF_breakerVars(\E t \in Threads : Enter(t) \/ Refuse(t))
  /\ \A t \in Threads : WF_breakerVars(QueryRaw(t) \/ Succeed(t) \/ Fail(t) \/ Answer(t))

-----------------------------------------------------------------------------

\* Variables keep their types, and the breaker is half-open only as long as its
\* trial query runs.
BreakerTypeOK ==
  /\ up \in BOOLEAN /\ elapsed \in BOOLEAN
  /\ state \in {"closed", "open", "half-open"} /\ counter \in 0 .. FailMax
  /\ at \in [Threads -> {"idle", "raw", "wait", "query", "succeeded", "refused", "failed"}]
  /\ allowance \in Int
  /\ state = "half-open" => \E t \in Threads : at[t] = "query"

\* However many threads there are, a dead database is sent at most FailMax
\* queries by /order, and one for every reset timeout after that.
NeverOverAsked == BreakerTypeOK /\ allowance >= 0

\* The breaker refuses only when its queries are spent: FailMax failures with
\* no success among them, whatever order the threads took.
RefusedOnlyWhenSpent == state = "open" /\ ~elapsed => allowance = 0

\* With the database dead for good, a time comes when /order answers nothing
\* but 503 from the breaker and no 500 from the database.
FailsFast == <>[]~up => <>[](\A t \in Threads : at[t] # "failed")

\* With the database back for good and somebody asking again and again, a time
\* comes when the breaker refuses nobody.
Recovers ==
  (<>[]up /\ []<>(\E t \in Threads : at[t] = "wait")) =>
    <>[](\A t \in Threads : at[t] # "refused")
=============================================================================
