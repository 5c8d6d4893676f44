----------------------------- MODULE TaskTable ------------------------------
(***************************************************************************)
(* What the task service of serverless-api promises, with no versions, no  *)
(* threads and no lost responses in it: an edit of a task that overlaps    *)
(* another, or a deletion, takes effect only if nothing happened to the    *)
(* row since the edit read it; it takes effect in one step, on one part of *)
(* the row; and a client is told of an edit only in the step that made it. *)
(***************************************************************************)
CONSTANTS
  Tasks,            \* the ids create may draw
  Clients,          \* clients, each with one request at a time
  Titles, Keys,     \* what clients write
  None              \* no title, no key

VARIABLES
  row,              \* row[t]: title and attachment key of task t, or Absent
  drawn,            \* ids that create has drawn
  fresh,            \* fresh[t]: clients whose edit has read the row as it is
  told              \* clients that were told, last, that their edit was made

vars == <<row, drawn, fresh, told>>

Absent == [title |-> None, key |-> None]

Init ==
  /\ row = [t \in Tasks |-> Absent]
  /\ drawn = {}
  /\ fresh = [t \in Tasks |-> {}]
  /\ told = {}

Create(k, t, title) ==
  /\ t \notin drawn
  /\ drawn' = drawn \cup {t}
  /\ row' = [row EXCEPT ![t] = [title |-> title, key |-> None]]
  /\ told' = told \ {k}
  /\ UNCHANGED fresh

\* An edit has read the row and not written it yet.
Read(k, t) ==
  /\ row[t] # Absent
  /\ fresh' = [fresh EXCEPT ![t] = @ \cup {k}]
  /\ UNCHANGED <<row, drawn, told>>

\* An edit takes effect; its client may never hear of it.
Edit(k, t) ==
  /\ k \in fresh[t]
  /\ \/ \E title \in Titles : row' = [row EXCEPT ![t].title = title]
     \/ \E key \in Keys : row' = [row EXCEPT ![t].key = key]
  /\ fresh' = [fresh EXCEPT ![t] = {}]
  /\ told' \in {told, told \cup {k}}
  /\ UNCHANGED drawn

Delete(t) ==
  /\ t \in drawn
  /\ row' = [row EXCEPT ![t] = Absent]
  /\ fresh' = [fresh EXCEPT ![t] = {}]
  /\ UNCHANGED <<drawn, told>>

\* A request begins, is refused or is given up.
Leave(k) ==
  /\ fresh' = [t \in Tasks |-> fresh[t] \ {k}]
  /\ told' = told \ {k}
  /\ UNCHANGED <<row, drawn>>

Next ==
  \/ \E k \in Clients, t \in Tasks :
       (\E title \in Titles : Create(k, t, title)) \/ Read(k, t) \/ Edit(k, t)
  \/ \E t \in Tasks : Delete(t)
  \/ \E k \in Clients : Leave(k)

Spec == Init /\ [][Next]_vars
=============================================================================
